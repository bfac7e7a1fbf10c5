----------------------------- MODULE Telemetry ------------------------------
(***************************************************************************)
(* The whole of Service.Process (internal/usecase/telemetry): a reading is *)
(* validated against its setpoint, saved, turned into an alert (the steps  *)
(* of module Alerts), examined for anomalies, and the quality index is     *)
(* recalculated.  Every SQL statement is a step; there is no transaction   *)
(* around them, any statement may fail, and the first error ends the call  *)
(* and leaves behind what was already written.                             *)
(***************************************************************************)
EXTENDS Alerts, AnomalyDetection, AnomalyStore, QualityIndex, Settings

CONSTANTS
  Values,          \* Values[p]: the values readings of p may have
  Recorded,        \* Recorded[p]: the values recorded before, with no open event
  MaxNewer,        \* bound on the recorded readings measured after a new one
  Setpoints,       \* Setpoints[p]: the ranges p may be given, the first one first
  Weights,         \* Weights[p]: the weights p may be given, in ten-thousandths,
                   \* the first one first
  MaxUpdates,      \* bound on the changes of setpoints and weights
  MaxFailures      \* bound on the number of failing statements

(* Measurements are numbers; the migrations seed each parameter with a     *)
(* setpoint and a weight that the checks of both tables accept.            *)
ASSUME TelemetryAssumption ==
  /\ \A p \in Parameters : Values[p] \subseteq Int
  /\ Recorded \in [Parameters -> Seq(Int)]
  /\ \A p \in Parameters :
       /\ Len(Recorded[p]) <= DriftWindow
       /\ Setpoints[p] \in Seq(Setpoint) /\ Setpoints[p] # << >>
       /\ ValidSetpoint(Head(Setpoints[p]))
       /\ Weights[p] \in Seq(Int) /\ Weights[p] # << >>
       /\ ValidWeight(Head(Weights[p])) /\ WeightCheck(Stored(Head(Weights[p])))
  /\ MaxNewer \in Nat /\ MaxUpdates \in Nat /\ MaxFailures \in Nat

VARIABLES
  windows,      \* telemetry_readings: the latest DriftWindow values per parameter
  setpoints,    \* the setpoints table
  weights,      \* the quality_weights table
  anomalies,    \* the anomaly_events table
  index,        \* the row of quality_index_values that was saved last
  stage,        \* where in Process each worker is
  call,         \* the local variables of each worker's Process
  updates,      \* changes of setpoints and weights so far
  failures,     \* failing statements so far
  settled,      \* history: which events stand as Process last left them
  overtaken     \* history: the calls that have acted on rows changed since

processVars == <<windows, setpoints, weights, anomalies, index, stage, call,
                 updates, failures, settled, overtaken>>

allVars == <<vars, processVars>>

NoCall == << >>

Alert(p) == [type |-> "alert", parameter |-> p]

(* A parameter that is not measured has no readings. *)
HistoryByParameter(p) == IF p \in Parameters THEN windows[p] ELSE << >>

ProcessInit ==
  /\ Init
  /\ windows = Recorded
  /\ setpoints = [p \in Parameters |-> Head(Setpoints[p])]
  /\ weights = [p \in Parameters |-> Stored(Head(Weights[p]))]
  /\ anomalies = << >>
  /\ index = CalculateIndex({}, weights, {})
  /\ stage = [w \in Workers |-> "idle"]
  /\ call = [w \in Workers |-> NoCall]
  /\ updates = 0
  /\ failures = 0
  /\ settled = {}
  /\ overtaken = {}

-----------------------------------------------------------------------------
(* The call returns: its locals are gone. *)
End(w) ==
  /\ stage' = [stage EXCEPT ![w] = "idle"]
  /\ call' = [call EXCEPT ![w] = NoCall]

(* A statement's error ends the call. *)
Fail(w) ==
  /\ failures < MaxFailures
  /\ failures' = failures + 1
  /\ End(w)

(* The statement of a stage has been executed: the call goes on, or its    *)
(* answer is lost and the call ends with an error.                         *)
Executed(w, from, to, locals) ==
  /\ stage[w] = from
  /\ \/ /\ stage' = [stage EXCEPT ![w] = to]
        /\ call' = [call EXCEPT ![w] = locals]
        /\ UNCHANGED failures
     \/ Fail(w)

Answered(w) == stage'[w] # "idle"

(* A change of the events overtakes the calls of the other workers. *)
Overtake(w) ==
  overtaken' = IF alerts' = alerts /\ anomalies' = anomalies
               THEN overtaken
               ELSE overtaken \cup (Workers \ {w})

(* Validate loads the setpoint; the reading will be judged by it. *)
Validate(w, p, value) ==
  /\ p \in Handles[w]
  /\ clock + Cardinality({v \in Workers : stage[v] = "save"}) < MaxReadings
  /\ stage[w] = "idle"
  /\ stage' = [stage EXCEPT ![w] = "save"]
  /\ call' = [call EXCEPT ![w] =
       [ parameter |-> p, value |-> value,
         state |-> Evaluate(GetByParameter(setpoints, p), value),
         reading |-> 0, newest |-> FALSE, alerts |-> {}, detected |-> {},
         todo |-> {}, found |-> 0, anomalies |-> {}, weights |-> << >> ]]
  /\ UNCHANGED <<vars, windows, setpoints, weights, anomalies, index, updates,
                 failures, settled, overtaken>>

(* The INSERT; then processAlerts is entered, unless the answer is lost.   *)
(* `newer' recorded readings of p were measured after this one.            *)
SaveTelemetryReading(w, newer) ==
  LET p == call[w].parameter IN
  /\ stage[w] = "save"
  /\ newer <= Len(windows[p])
  /\ windows' = [windows EXCEPT ![p] = SaveReading(@, call[w].value, newer)]
  /\ settled' = settled \ {Alert(p), Jump(p), Drift(p), CombinedRisk}
  /\ \/ /\ ProcessAlerts(w, p, call[w].state)
        /\ stage' = [stage EXCEPT ![w] = "alerts"]
        /\ call' = [call EXCEPT ![w].reading = clock', ![w].newest = newer = 0]
        /\ UNCHANGED failures
     \/ Fail(w) /\ UNCHANGED vars
  /\ UNCHANGED <<setpoints, weights, anomalies, index, updates, overtaken>>

(* One statement of processAlerts. *)
AlertStatement(w) ==
  /\ stage[w] = "alerts"
  /\ WorkerStep(w)
  /\ \/ pc'[w] # "idle" /\ UNCHANGED <<stage, call, failures, settled>>
     \/ /\ pc'[w] = "idle" /\ result'[w] # "failed"
        /\ stage' = [stage EXCEPT ![w] = "active"]
        /\ settled' = IF /\ call[w].newest
                        /\ call[w].state = Evaluate(setpoints[call[w].parameter],
                                                    call[w].value)
                      THEN settled \cup {Alert(call[w].parameter)}
                      ELSE settled
        /\ UNCHANGED <<call, failures>>
     \/ pc'[w] = "idle" /\ result'[w] = "failed" /\ Fail(w) /\ UNCHANGED settled
  /\ UNCHANGED <<windows, setpoints, weights, anomalies, index, updates>>
  /\ Overtake(w)

(* What CalculateIndex looks at in the active alerts. *)
ActiveAlerts(table) ==
  {[parameter |-> table[i].parameter, level |-> table[i].level] : i \in Active(table)}

LoadActiveAlerts(w) ==
  /\ Executed(w, "active", "history",
              [call[w] EXCEPT !.alerts = ActiveAlerts(alerts)])
  /\ overtaken' = overtaken \ {w}
  /\ UNCHANGED <<vars, windows, setpoints, weights, anomalies, index, updates,
                 settled>>

(* What a call that processes p may detect. *)
Plan(p) == {Jump(p), Drift(p), CombinedRisk}

(***************************************************************************)
(* Detector.Detect.  The combined risk counts as detected until one of its *)
(* three histories speaks against it.                                      *)
(***************************************************************************)
DetectedIn(p, value, history) ==
  {key \in Plan(p) :
     \/ key = Jump(p) /\ DetectJump(p, value, history)
     \/ key = Drift(p) /\ DetectDrift(p, history)
     \/ key = CombinedRisk}

LoadParameterHistory(w) ==
  /\ Executed(w, "history", "pressure",
       [call[w] EXCEPT !.detected =
          DetectedIn(call[w].parameter, call[w].value,
                     HistoryByParameter(call[w].parameter))])
  /\ UNCHANGED <<vars, windows, setpoints, weights, anomalies, index, updates,
                 settled, overtaken>>

LoadRiskHistory(w, p, next) ==
  LET detected == IF SupportsRisk(p, HistoryByParameter(p))
                  THEN call[w].detected
                  ELSE call[w].detected \ {CombinedRisk}
  IN  /\ Executed(w, p, next,
           [call[w] EXCEPT !.detected = detected,
                           !.todo = IF next = "sync"
                                    THEN Plan(call[w].parameter)
                                    ELSE {}])
      /\ UNCHANGED <<vars, windows, setpoints, weights, anomalies, index, updates,
                     settled, overtaken>>

(***************************************************************************)
(* syncAnomalies: the detected anomalies are stored in the order of their  *)
(* detection; then the other ones are resolved, in the same order.         *)
(***************************************************************************)
Key(w) ==
  LET p == call[w].parameter
      detected == call[w].todo \cap call[w].detected
      next == IF detected # {} THEN detected ELSE call[w].todo
  IN  IF Jump(p) \in next THEN Jump(p)
      ELSE IF Drift(p) \in next THEN Drift(p) ELSE CombinedRisk

NextKey(w) == [call[w] EXCEPT !.todo = @ \ {Key(w)}, !.found = 0]

(* The event of this key is now as the call found it to be.                *)
Settle(w) ==
  settled' = IF Answered(w) /\ (Key(w).type # "jump" \/ call[w].newest)
             THEN settled \cup {Key(w)}
             ELSE settled

(* Faulty variants for the checks: "not found" is taken for a row; a row   *)
(* is inserted without a search.                                           *)
FindOpenAnomalyUnnoticed(w) ==
  /\ stage[w] = "sync" /\ call[w].todo # {} /\ Key(w) \in call[w].detected
  /\ Executed(w, "sync", "update anomaly", call[w])
  /\ UNCHANGED <<vars, windows, setpoints, weights, anomalies, index, updates,
                 settled, overtaken>>

CreateWithoutSearch(w) ==
  /\ stage[w] = "sync" /\ call[w].todo # {} /\ Key(w) \in call[w].detected
  /\ Executed(w, "sync", "create anomaly", call[w])
  /\ UNCHANGED <<vars, windows, setpoints, weights, anomalies, index, updates,
                 settled, overtaken>>

FindOpenAnomaly(w) ==
  /\ stage[w] = "sync" /\ call[w].todo # {} /\ Key(w) \in call[w].detected
  /\ \/ \E i \in OpenAnomalies(anomalies, Key(w)) :
          Executed(w, "sync", "update anomaly", [call[w] EXCEPT !.found = i])
     \/ /\ OpenAnomalies(anomalies, Key(w)) = {}
        /\ Executed(w, "sync", "create anomaly", call[w])
  /\ UNCHANGED <<vars, windows, setpoints, weights, anomalies, index, updates,
                 settled, overtaken>>

UpdateAnomaly(w) ==
  /\ Executed(w, "update anomaly", "sync", NextKey(w))
  /\ UpdateOpenAnomalyHits(anomalies, call[w].found)
  /\ anomalies' = UpdateOpenAnomaly(anomalies, call[w].found, call[w].reading)
  /\ Settle(w)
  /\ UNCHANGED <<vars, windows, setpoints, weights, index, updates>>
  /\ Overtake(w)

(* A faulty variant: the search is repeated. *)
SearchAgain(w) ==
  /\ Executed(w, "update anomaly", "sync", [call[w] EXCEPT !.found = 0])
  /\ ~ UpdateOpenAnomalyHits(anomalies, call[w].found)
  /\ UNCHANGED <<vars, windows, setpoints, weights, anomalies, index, updates,
                 settled, overtaken>>

(* The anomaly was resolved since it was found. *)
UpdateAnomalyMisses(w) ==
  /\ Executed(w, "update anomaly", "create anomaly", [call[w] EXCEPT !.found = 0])
  /\ ~ UpdateOpenAnomalyHits(anomalies, call[w].found)
  /\ UNCHANGED <<vars, windows, setpoints, weights, anomalies, index, updates,
                 settled, overtaken>>

CreateAnomaly(w) ==
  /\ Executed(w, "create anomaly", "sync", NextKey(w))
  /\ CreateIsAccepted(Key(w))
  /\ anomalies' = CreateAnomalyRow(anomalies, Key(w), call[w].reading)
  /\ Settle(w)
  /\ UNCHANGED <<vars, windows, setpoints, weights, index, updates>>
  /\ Overtake(w)

(* The database refuses the row: what is left of the plan is not done.     *)
CreateAnomalyIsRefused(w) ==
  /\ stage[w] = "create anomaly"
  /\ ~ CreateIsAccepted(Key(w))
  /\ End(w)
  /\ UNCHANGED <<vars, windows, setpoints, weights, anomalies, index, updates,
                 failures, settled, overtaken>>

(* A faulty variant: an anomaly that is over is not resolved. *)
SkipResolve(w) ==
  /\ stage[w] = "sync" /\ call[w].todo # {} /\ Key(w) \notin call[w].detected
  /\ Executed(w, "sync", "sync", NextKey(w))
  /\ Settle(w)
  /\ UNCHANGED <<vars, windows, setpoints, weights, anomalies, index, updates,
                 overtaken>>

ResolveAnomaly(w) ==
  /\ stage[w] = "sync" /\ call[w].todo # {} /\ Key(w) \notin call[w].detected
  /\ Executed(w, "sync", "sync", NextKey(w))
  /\ anomalies' = ResolveOpenByTypeAndParameter(anomalies, Key(w))
  /\ Settle(w)
  /\ UNCHANGED <<vars, windows, setpoints, weights, index, updates>>
  /\ Overtake(w)

-----------------------------------------------------------------------------
(* A faulty variant: only the anomalies of this reading are counted. *)
UseDetectedAnomalies(w) ==
  /\ stage[w] = "sync" /\ call[w].todo = {}
  /\ Executed(w, "sync", "weights", [call[w] EXCEPT !.anomalies = @ \cup call[w].detected])
  /\ UNCHANGED <<vars, windows, setpoints, weights, anomalies, index, updates,
                 settled, overtaken>>

LoadActiveAnomalies(w) ==
  /\ stage[w] = "sync" /\ call[w].todo = {}
  /\ Executed(w, "sync", "weights",
       [call[w] EXCEPT !.anomalies = ActiveAnomalies(anomalies)])
  /\ UNCHANGED <<vars, windows, setpoints, weights, anomalies, index, updates,
                 settled, overtaken>>

LoadQualityWeights(w) ==
  /\ Executed(w, "weights", "index", [call[w] EXCEPT !.weights = weights])
  /\ UNCHANGED <<vars, windows, setpoints, weights, anomalies, index, updates,
                 settled, overtaken>>

(* CalculateIndex and the INSERT of its result.  The call is over, whether *)
(* or not the answer arrives.                                              *)
SaveQualityIndex(w) ==
  /\ Executed(w, "index", "idle", NoCall)
  /\ index' = CalculateIndex(call[w].alerts, call[w].weights, call[w].anomalies)
  /\ UNCHANGED <<vars, windows, setpoints, weights, anomalies, updates, settled,
                 overtaken>>

(* A write fails and has not been executed. *)
WriteFails(w) ==
  /\ stage[w] \in {"save", "update anomaly", "create anomaly", "sync", "index"}
  /\ Fail(w)
  /\ UNCHANGED <<vars, windows, setpoints, weights, anomalies, index, updates,
                 settled, overtaken>>

ProcessStep(w) ==
  \/ \E newer \in 0..MaxNewer : SaveTelemetryReading(w, newer)
  \/ AlertStatement(w)
  \/ LoadActiveAlerts(w)
  \/ LoadParameterHistory(w)
  \/ LoadRiskHistory(w, "pressure", "moisture")
  \/ LoadRiskHistory(w, "moisture", "drive_load")
  \/ LoadRiskHistory(w, "drive_load", "sync")
  \/ FindOpenAnomaly(w)
  \/ UpdateAnomaly(w)
  \/ UpdateAnomalyMisses(w)
  \/ CreateAnomaly(w)
  \/ CreateAnomalyIsRefused(w)
  \/ ResolveAnomaly(w)
  \/ LoadActiveAnomalies(w)
  \/ LoadQualityWeights(w)
  \/ SaveQualityIndex(w)
  \/ WriteFails(w)

-----------------------------------------------------------------------------
(* EventHandler.Action, while readings are being processed.  Only a step   *)
(* that closes an alert, or opens one again, unsettles it.                 *)
OperatorActs(user, i) ==
  /\ AcknowledgeEvent(user, i) \/ ResolveEvent(user, i)
  /\ settled' = IF \/ alerts'[i].status = "resolved"
                   \/ alerts[i].status = "resolved"
                THEN settled \ {Alert(alerts[i].parameter)}
                ELSE settled
  /\ overtaken' = Workers
  /\ UNCHANGED <<windows, setpoints, weights, anomalies, index, stage, call,
                 updates, failures>>

(* SetpointHandler.Update: technologists and admins. *)
UpdateSetpoint(p, setpoint) ==
  /\ updates < MaxUpdates
  /\ updates' = updates + 1
  /\ ValidSetpoint(setpoint)
  /\ setpoints' = UpdateSetpointRow(setpoints, p, setpoint)
  /\ settled' = settled \ {Alert(p)}
  /\ UNCHANGED <<vars, windows, weights, anomalies, index, stage, call, failures,
                 overtaken>>

(* QualityWeightHandler.Update: technologists and admins. *)
UpdateWeight(p, weight) ==
  /\ updates < MaxUpdates
  /\ updates' = updates + 1
  /\ ValidWeight(weight) /\ WeightCheck(Stored(weight))
  /\ weights' = UpdateWeightRow(weights, p, Stored(weight))
  /\ overtaken' = Workers
  /\ UNCHANGED <<vars, windows, setpoints, anomalies, index, stage, call, failures,
                 settled>>

ProcessNext ==
  \/ \E w \in Workers :
       \/ \E p \in Parameters : \E value \in Values[p] : Validate(w, p, value)
       \/ ProcessStep(w)
  \/ \E user \in Users, i \in DOMAIN alerts : OperatorActs(user, i)
  \/ \E p \in Parameters :
       \/ \E k \in DOMAIN Setpoints[p] : UpdateSetpoint(p, Setpoints[p][k])
       \/ \E k \in DOMAIN Weights[p] : UpdateWeight(p, Weights[p][k])

ProcessSpec == ProcessInit /\ [][ProcessNext]_allVars
-----------------------------------------------------------------------------
CallRecord ==
  [ parameter : Parameters, value : Int, state : ParameterStates,
    reading : Nat, newest : BOOLEAN,
    alerts : SUBSET [parameter : Parameters, level : AlertLevels],
    detected : SUBSET [type : AnomalyTypes, parameter : Parameters \cup {"process"}],
    todo : SUBSET [type : AnomalyTypes, parameter : Parameters \cup {"process"}],
    found : Nat,
    anomalies : SUBSET [type : AnomalyTypes, parameter : Parameters \cup {"process"}],
    weights : [Parameters -> Nat] \cup {<< >>} ]

(* What the tables hold for a parameter. *)
ParameterOK(p) ==
  /\ windows[p] \in Seq(Int) /\ Len(windows[p]) <= DriftWindow
  /\ ValidSetpoint(setpoints[p])
  /\ 0 < weights[p] /\ weights[p] <= 10000

CallOK(w) ==
  /\ stage[w] = "idle" <=> call[w] = NoCall
  /\ stage[w] # "idle" => call[w] \in CallRecord
  /\ pc[w] # "idle" <=> stage[w] = "alerts"
  /\ stage[w] = "update anomaly" => call[w].found \in DOMAIN anomalies

(* Types, and the two levels of control fit together: a worker is inside   *)
(* processAlerts exactly in the stage "alerts".                            *)
ProcessTypeOK ==
  /\ \A p \in Parameters : ParameterOK(p)
  /\ \A i \in DOMAIN anomalies : CreateIsAccepted(anomalies[i].key)
  /\ \A w \in Workers : CallOK(w)
  /\ overtaken \subseteq Workers

(***************************************************************************)
(* Safety.                                                                 *)
(***************************************************************************)

(* What EventsFollowMeasurements says of one parameter. *)
Latest(p) == windows[p][Len(windows[p])]

AlertFollows(p) ==
  LET state == Evaluate(setpoints[p], Latest(p)) IN
  Alert(p) \in settled =>
    IF NeedsAlert(state)
    THEN \E i \in OpenAlerts(alerts, p) :
           alerts[i].level = AlertLevel(state) /\ alerts[i].reading = applied[p]
    ELSE OpenAlerts(alerts, p) = {}

JumpFollows(p) ==
  Jump(p) \in settled =>
    (OpenAnomalies(anomalies, Jump(p)) # {} <=> DetectJump(p, Latest(p), windows[p]))

DriftFollows(p) ==
  Drift(p) \in settled =>
    (OpenAnomalies(anomalies, Drift(p)) # {} <=> DetectDrift(p, windows[p]))

(* What the panel shows is what the line does.  Once a call has dealt with *)
(* an event, and until the next reading of its parameter, a change of its  *)
(* setpoint or an operator intervenes: an alert is open exactly if the     *)
(* latest measurement is outside its normal range, and shows it; a jump or *)
(* a drift is open exactly if the saved readings show one.  Earlier calls  *)
(* may have failed at any statement: the next call repairs what they left  *)
(* behind.                                                                 *)
EventsFollowMeasurements ==
  \A p \in Parameters : AlertFollows(p) /\ JumpFollows(p) /\ DriftFollows(p)

(* However many events are open at once, the saved index stays on its      *)
(* scale from 0 to 100 points.                                             *)
IndexStaysOnScale == index.value \in 0..BaseQualityIndex

(* createOrUpdateOpenAnomaly, on its own on a key, keeps one row open.     *)
AtMostOneOpenAnomaly ==
  \A i, j \in DOMAIN anomalies :
    /\ anomalies[i].status = "active" /\ anomalies[j].status = "active"
    /\ anomalies[i].key = anomalies[j].key
    => i = j

(* The workers whose calls may store this anomaly. *)
Writers(key) == {w \in Workers : \E p \in Handles[w] : key \in Plan(p)}

(* createOrUpdateOpenAnomaly between its two statements: workers that meet *)
(* on the combined risk may each find no open row and each insert one.     *)
(* That is the worst of it.  However the searches, the inserts and the     *)
(* resolutions of the workers interleave and wherever calls end, an        *)
(* anomaly never has more open rows than workers that may store it.        *)
OpenAnomaliesAreBounded ==
  \A i \in DOMAIN anomalies :
    Cardinality(OpenAnomalies(anomalies, anomalies[i].key)) <=
      Cardinality(Writers(anomalies[i].key))

(* An open combined risk is explained by the drifts it combines: moisture  *)
(* and drive load drift too.  (Pressure need not: 5 bar make it part of    *)
(* the risk, 6 bar a drift.)                                               *)
CombinedRiskNeedsDrifts ==
  /\ {CombinedRisk, Drift("moisture"), Drift("drive_load")} \subseteq settled
  /\ OpenAnomalies(anomalies, CombinedRisk) # {}
  => /\ OpenAnomalies(anomalies, Drift("moisture")) # {}
     /\ OpenAnomalies(anomalies, Drift("drive_load")) # {}

(* A saved quality index is the index of the tables at that moment, unless *)
(* somebody else changed them since the call began to read them: it counts *)
(* the alert and the anomalies of the reading it was saved for.            *)
IndexReflectsEvents ==
  [][\A w \in Workers :
       /\ stage[w] = "index" /\ stage'[w] = "idle" /\ failures' = failures
       /\ w \notin overtaken
       => index' = CalculateIndex(ActiveAlerts(alerts), weights,
                                  ActiveAnomalies(anomalies))]_allVars

(* An index that somebody overtook may miss what other calls did, or count *)
(* what they undid.  It is never wrong about its own reading: of its       *)
(* parameter it counts exactly the jump and the drift that the call has    *)
(* detected and, while the alert stands as the call left it, the alert     *)
(* that the table lists first.                                             *)
OwnEventsAreCounted ==
  \A w \in Workers : stage[w] = "index" =>
    LET p == call[w].parameter
        Own(counted) == {alert \in counted : alert.parameter = p}
    IN  /\ \A key \in {Jump(p), Drift(p)} :
             key \in call[w].anomalies <=> key \in call[w].detected
        /\ Alert(p) \in settled => Own(call[w].alerts) = Own(ActiveAlerts(alerts))

(* How many statements a call has still to execute at most: 21 when the    *)
(* reading is judged, and three for each anomaly of the plan.              *)
StatementsLeft(w) ==
  LET planned == 3 * Cardinality(call[w].todo) IN
  CASE stage[w] = "idle"           -> 0
    [] stage[w] = "save"           -> 21
    [] stage[w] = "alerts"         -> (CASE pc[w] = "find" -> 20
                                         [] pc[w] = "update" -> 19
                                         [] OTHER -> 18)
    [] stage[w] = "active"         -> 17
    [] stage[w] = "history"        -> 16
    [] stage[w] = "pressure"       -> 15
    [] stage[w] = "moisture"       -> 14
    [] stage[w] = "drive_load"     -> 13
    [] stage[w] = "sync"           -> 3 + planned
    [] stage[w] = "update anomaly" -> 2 + planned
    [] stage[w] = "create anomaly" -> 1 + planned
    [] stage[w] = "weights"        -> 2
    [] stage[w] = "index"          -> 1

(* A call of Process ends after at most 21 statements, whatever happens to *)
(* the rows it works on between two of them: a row that is closed or       *)
(* replaced under its hands never makes it start over.  It waits for       *)
(* nobody, so that it ends when each of its statements does.               *)
CallsMakeProgress ==
  [][\A w \in Workers :
       ProcessStep(w) => StatementsLeft(w)' < StatementsLeft(w)]_allVars

(***************************************************************************)
(* Statements of the sources that the code does not keep.                  *)
(***************************************************************************)

(* README.md:554: the system detects the combined risk of the process.  A  *)
(* call that detects it and meets no failing statement leaves it open.     *)
CombinedRiskIsRecorded ==
  [][\A w \in Workers :
       /\ stage[w] \in {"create anomaly", "index"}
       /\ CombinedRisk \in call[w].detected
       /\ stage'[w] = "idle" /\ failures' = failures
       => OpenAnomalies(anomalies', CombinedRisk) # {}]_allVars
=============================================================================
