---------------------------- MODULE EventsProofs ----------------------------
(***************************************************************************)
(* The events that calls have dealt with, and the measurements: alerts,    *)
(* jumps and drifts for one writer per parameter, the combined risk for    *)
(* one consumer.  A call works on what it has read; the invariants say     *)
(* that it still is what the tables hold, or that the event is not         *)
(* settled yet.                                                            *)
(***************************************************************************)
EXTENDS ProcessProofs

(* The stages before detection has ended, and those of syncAnomalies.      *)
BeforeSync == {"alerts", "active", "history", "pressure", "moisture", "drive_load"}

InSync == {"sync", "update anomaly", "create anomaly"}

Follows(p) == AlertFollows(p) /\ JumpFollows(p) /\ DriftFollows(p)

(* The reading of a call is the latest one, if the call takes it for that. *)
ReadingIsSaved(w) ==
  LET p == call[w].parameter IN
  /\ windows[p] # << >>
  /\ call[w].newest => Latest(p) = call[w].value
  /\ ~ call[w].newest => Alert(p) \notin settled /\ Jump(p) \notin settled

(* What a call has detected is what the saved readings show. *)
DetectionAgrees(w) ==
  LET p == call[w].parameter IN
  /\ Jump(p) \in call[w].detected <=> DetectJump(p, call[w].value, windows[p])
  /\ Drift(p) \in call[w].detected <=> DetectDrift(p, windows[p])

(* An event stays unsettled until the call of the last reading reaches it. *)
CallAgrees(w) ==
  LET p == call[w].parameter IN
  /\ stage[w] \notin {"idle", "save"} => ReadingIsSaved(w)
  /\ stage[w] = "alerts" => Alert(p) \notin settled
  /\ stage[w] \in BeforeSync => Jump(p) \notin settled /\ Drift(p) \notin settled
  /\ stage[w] \in InSync => \A key \in call[w].todo : key \in settled => key = CombinedRisk
  /\ stage[w] \in {"pressure", "moisture", "drive_load"} \cup InSync =>
       DetectionAgrees(w)

EventsInv ==
  /\ TypeInv
  /\ JobsFit
  /\ \A w \in Workers : CallAgrees(w)
  /\ \A p \in Parameters : Follows(p)

EventsNext ==
  /\ \A w \in Workers : CallAgrees(w)'
  /\ \A p \in Parameters : Follows(p)'

(* The events of a parameter, before and after a step. *)
AlertsStay(p) ==
  /\ OpenAlerts(alerts', p) = OpenAlerts(alerts, p)
  /\ \A i \in OpenAlerts(alerts, p) : /\ alerts'[i].level = alerts[i].level
                                      /\ alerts'[i].reading = alerts[i].reading
                                      /\ alerts'[i].createdAt = alerts[i].createdAt
  /\ applied'[p] = applied[p]

AnomaliesStay(p) ==
  /\ OpenAnomalies(anomalies', Jump(p)) = OpenAnomalies(anomalies, Jump(p))
  /\ OpenAnomalies(anomalies', Drift(p)) = OpenAnomalies(anomalies, Drift(p))

NothingSettled(p) ==
  /\ Alert(p) \in settled' => Alert(p) \in settled
  /\ Jump(p) \in settled' => Jump(p) \in settled
  /\ Drift(p) \in settled' => Drift(p) \in settled

EventsStay(p) ==
  /\ windows'[p] = windows[p] /\ setpoints'[p] = setpoints[p]
  /\ AlertsStay(p) /\ AnomaliesStay(p) /\ NothingSettled(p)

LEMMA EventNames ==
  ASSUME NEW p, NEW q
  PROVE  /\ Jump(p) # Drift(q) /\ Jump(p) # CombinedRisk /\ Jump(p) # Alert(q)
         /\ Drift(p) # CombinedRisk /\ Drift(p) # Alert(q) /\ Alert(p) # CombinedRisk
         /\ Alert(p) = Alert(q) => p = q
         /\ Jump(p) = Jump(q) => p = q
         /\ Drift(p) = Drift(q) => p = q
  BY DEF Jump, Drift, CombinedRisk, Alert

LEMMA AlertStaysTrue ==
  ASSUME NEW p, AlertFollows(p), AlertsStay(p),
         windows'[p] = windows[p], setpoints'[p] = setpoints[p],
         Alert(p) \in settled' => Alert(p) \in settled
  PROVE  AlertFollows(p)'
<1>1. PICK state : state = Evaluate(setpoints[p], Latest(p))
  OBVIOUS
<1>2. Evaluate(setpoints[p], Latest(p))' = state
  BY <1>1 DEF Latest
<1>3. CASE Alert(p) \notin settled'
  BY <1>3 DEF AlertFollows, Alert
<1>4. CASE Alert(p) \in settled /\ NeedsAlert(state)
  <2>1. \E i \in OpenAlerts(alerts, p) :
           alerts[i].level = AlertLevel(state) /\ alerts[i].reading = applied[p]
    BY <1>1, <1>4 DEF AlertFollows
  <2> QED
    BY <1>2, <1>4, <2>1 DEF AlertFollows, AlertsStay
<1>5. CASE Alert(p) \in settled /\ ~ NeedsAlert(state)
  <2>1. OpenAlerts(alerts, p) = {}
    BY <1>1, <1>5 DEF AlertFollows
  <2> QED
    BY <1>2, <1>5, <2>1 DEF AlertFollows, AlertsStay
<1> QED
  BY <1>3, <1>4, <1>5

LEMMA FollowsStays ==
  ASSUME NEW p, Follows(p), EventsStay(p)
  PROVE  Follows(p)'
<1>1. AlertFollows(p)'
  BY AlertStaysTrue DEF Follows, EventsStay, NothingSettled
<1>2. JumpFollows(p)'
  BY DEF Follows, JumpFollows, EventsStay, AnomaliesStay, NothingSettled,
         Latest, Jump
<1>3. DriftFollows(p)'
  BY DEF Follows, DriftFollows, EventsStay, AnomaliesStay, NothingSettled, Drift
<1> QED
  BY <1>1, <1>2, <1>3 DEF Follows

LEMMA OthersAgree ==
  ASSUME TypeInv, NEW v \in Workers, CallAgrees(v), UNCHANGED <<stage[v], call[v]>>,
         stage[v] # "idle" => EventsStay(call[v].parameter)
  PROVE  CallAgrees(v)'
<1>1. CASE stage[v] = "idle"
  BY <1>1 DEF CallAgrees, BeforeSync, InSync
<1>2. CASE stage[v] # "idle"
  <2>1. PICK p : p = call[v].parameter /\ p = call'[v].parameter
    OBVIOUS
  <2>2. windows'[p] = windows[p] /\ NothingSettled(p)
    BY <1>2, <2>1 DEF EventsStay
  <2>3. call[v].todo \subseteq Plan(p)
    BY <1>2, <2>1, RunningCall DEF RecordFits
  <2>4. stage[v] # "save" => ReadingIsSaved(v)'
    BY <1>2, <2>1, <2>2
       DEF CallAgrees, ReadingIsSaved, Latest, NothingSettled, Alert, Jump
  <2>5. stage[v] \in {"pressure", "moisture", "drive_load"} \cup InSync =>
          DetectionAgrees(v)'
    BY <2>1, <2>2 DEF CallAgrees, DetectionAgrees, Jump, Drift
  <2>6. /\ stage[v] = "alerts" => Alert(p) \notin settled'
        /\ stage[v] \in BeforeSync => Jump(p) \notin settled' /\ Drift(p) \notin settled'
    BY <2>1, <2>2 DEF CallAgrees, NothingSettled
  <2>7. ASSUME stage[v] \in InSync, NEW key \in call[v].todo, key \in settled'
        PROVE  key = CombinedRisk
    BY <2>1, <2>2, <2>3, <2>7 DEF CallAgrees, NothingSettled, Plan
  <2> QED
    BY <2>1, <2>4, <2>5, <2>6, <2>7 DEF CallAgrees, Alert, Jump, Drift, CombinedRisk
<1> QED
  BY <1>1, <1>2

LEMMA OtherParameters ==
  ASSUME SingleWriter, TypeInv, NEW v \in Workers, NEW w \in Workers, v # w,
         stage[v] # "idle", stage[w] # "idle"
  PROVE  call[v].parameter # call[w].parameter
  BY RunningCall DEF SingleWriter, RecordFits

(* A step of w that disturbs at most the events of its own parameter. *)
LEMMA OwnStep ==
  ASSUME SingleWriter, EventsInv, NEW w \in Workers, stage[w] # "idle",
         OthersStay(w),
         NEW p, p = call[w].parameter,
         \A q \in Parameters \ {p} : EventsStay(q),
         CallAgrees(w)', Follows(p)'
  PROVE  EventsNext
<1>1. ASSUME NEW v \in Workers PROVE CallAgrees(v)'
  <2>1. CASE v = w
    BY <2>1
  <2>2. CASE v # w
    <3>1. stage[v] # "idle" => EventsStay(call[v].parameter)
      BY <2>2, OtherParameters, RunningCall DEF EventsInv
    <3> QED
      BY <2>2, <3>1, OthersAgree DEF EventsInv, OthersStay
  <2> QED
    BY <2>1, <2>2
<1>2. ASSUME NEW q \in Parameters PROVE Follows(q)'
  BY FollowsStays DEF EventsInv
<1> QED
  BY <1>1, <1>2 DEF EventsNext

-----------------------------------------------------------------------------
(***************************************************************************)
(* The steps that only read.                                               *)
(***************************************************************************)

LEMMA ReadAgrees ==
  ASSUME EventsInv, NEW w \in Workers, NEW from, NEW to, NEW locals,
         Moves(w, from, to, locals), UNCHANGED <<windows, settled>>,
         from \notin {"idle", "save"}, to \notin {"save", "alerts"},
         to # "idle" => SameReading(call[w], locals),
         to \in BeforeSync => from \in BeforeSync,
         to \in InSync => /\ locals.todo \subseteq Plan(call[w].parameter)
                         /\ \/ from \in BeforeSync
                            \/ from \in InSync /\ locals.todo \subseteq call[w].todo,
         to \in {"pressure", "moisture", "drive_load"} \cup InSync =>
           LET p == call[w].parameter
           IN  /\ Jump(p) \in locals.detected <=> DetectJump(p, call[w].value, windows[p])
               /\ Drift(p) \in locals.detected <=> DetectDrift(p, windows[p])
  PROVE  CallAgrees(w)'
<1>1. CASE stage'[w] = "idle"
  BY <1>1 DEF CallAgrees, BeforeSync, InSync
<1>2. CASE stage'[w] = to /\ call'[w] = locals /\ to # "idle"
  <2>1. PICK p : p = call[w].parameter /\ p = locals.parameter
    BY <1>2 DEF SameReading
  <2>2. CallAgrees(w) /\ stage[w] = from
    BY DEF EventsInv, Moves
  <2>3. ReadingIsSaved(w)'
    <3>1. ReadingIsSaved(w)
      BY <2>2 DEF CallAgrees
    <3> QED
      BY <1>2, <2>1, <3>1 DEF ReadingIsSaved, SameReading, Latest, Alert, Jump
  <2>4. to \in {"pressure", "moisture", "drive_load"} \cup InSync => DetectionAgrees(w)'
    BY <1>2, <2>1 DEF DetectionAgrees, SameReading, Jump, Drift
  <2>5. to \in BeforeSync => Jump(p) \notin settled' /\ Drift(p) \notin settled'
    BY <2>1, <2>2 DEF CallAgrees
  <2>6. ASSUME to \in InSync, NEW key \in locals.todo, key \in settled'
        PROVE  key = CombinedRisk
    BY <2>1, <2>2, <2>6 DEF CallAgrees, Plan
  <2> QED
    BY <1>2, <2>1, <2>3, <2>4, <2>5, <2>6
       DEF CallAgrees, Alert, Jump, Drift, CombinedRisk
<1> QED
  BY <1>1, <1>2 DEF Moves, Ends

LEMMA ReadKeepsEvents ==
  ASSUME SingleWriter, EventsInv, NEW w \in Workers, stage[w] # "idle",
         OthersStay(w),
         UNCHANGED <<vars, windows, setpoints, anomalies, settled>>,
         CallAgrees(w)'
  PROVE  EventsNext
<1>1. ASSUME NEW q \in Parameters PROVE EventsStay(q)
  BY DEF EventsStay, AlertsStay, AnomaliesStay, NothingSettled, vars
<1>2. PICK p \in Parameters : p = call[w].parameter
  BY RunningCall DEF EventsInv
<1>3. Follows(p)'
  BY <1>1, FollowsStays DEF EventsInv
<1> QED
  BY <1>1, <1>2, <1>3, OwnStep

LEMMA ParameterHistoryKeepsEvents ==
  ASSUME SingleWriter, EventsInv, NEW w \in Workers, LoadParameterHistory(w)
  PROVE  EventsNext
<1> DEFINE detected == DetectedIn(call[w].parameter, call[w].value,
                                  HistoryByParameter(call[w].parameter))
           locals == [call[w] EXCEPT !.detected = detected]
<1>1. /\ Executed(w, "history", "pressure", locals)
      /\ UNCHANGED <<vars, windows, setpoints, anomalies, settled>>
  BY DEF LoadParameterHistory
<1>2. /\ RecordFits(w, call[w]) /\ call[w].parameter \in Parameters
      /\ Plan(call[w].parameter) \subseteq AnomalyKey
  BY <1>1, RunningCall DEF Executed, EventsInv
<1>3. detected \subseteq AnomalyKey
  BY <1>2 DEF DetectedIn
<1>4. PICK p \in Parameters : p = call[w].parameter
  BY <1>2
<1>5. /\ Jump(p) \in detected <=> DetectJump(p, call[w].value, windows[p])
      /\ Drift(p) \in detected <=> DetectDrift(p, windows[p])
  BY <1>4, EventNames DEF DetectedIn, HistoryByParameter, Plan
<1> HIDE DEF detected
<1>6. SameReading(call[w], locals) /\ locals.detected = detected
  BY <1>2, <1>3, CallDetectedOnly DEF RecordFits
<1> HIDE DEF locals
<1>7. Moves(w, "history", "pressure", locals)
  BY <1>1, ExecutedMoves DEF EventsInv, TypeInv
<1>8. /\ "history" \in BeforeSync /\ "history" \notin {"idle", "save"}
      /\ "pressure" \notin InSync /\ "pressure" \notin {"save", "alerts", "idle"}
  BY DEF BeforeSync, InSync
<1>9. CallAgrees(w)'
  BY <1>1, <1>4, <1>5, <1>6, <1>7, <1>8, ReadAgrees
<1> QED
  BY <1>1, <1>7, <1>9, ReadKeepsEvents DEF Moves

LEMMA RiskHistoryKeepsEvents ==
  ASSUME SingleWriter, EventsInv, NEW w \in Workers,
         NEW q \in {"pressure", "moisture", "drive_load"},
         NEW next \in {"moisture", "drive_load", "sync"},
         LoadRiskHistory(w, q, next)
  PROVE  EventsNext
<1> DEFINE detected == IF SupportsRisk(q, HistoryByParameter(q))
                       THEN call[w].detected
                       ELSE call[w].detected \ {CombinedRisk}
           todo == IF next = "sync" THEN Plan(call[w].parameter) ELSE {}
           locals == WithPlan(call[w], detected, todo)
<1>1. /\ Executed(w, q, next, locals)
      /\ UNCHANGED <<vars, windows, setpoints, anomalies, settled>>
  BY DEF LoadRiskHistory, WithPlan
<1>2. /\ RecordFits(w, call[w])
      /\ Plan(call[w].parameter) \subseteq AnomalyKey
  BY <1>1, RunningCall DEF Executed, EventsInv
<1>3. /\ detected \in SUBSET AnomalyKey /\ todo \in SUBSET AnomalyKey
      /\ todo \subseteq Plan(call[w].parameter)
  BY <1>2 DEF RecordFits
<1>4. PICK p : p = call[w].parameter
  OBVIOUS
<1>5. /\ Jump(p) \in detected <=> Jump(p) \in call[w].detected
      /\ Drift(p) \in detected <=> Drift(p) \in call[w].detected
  BY EventNames
<1>6. DetectionAgrees(w)
  BY <1>1 DEF EventsInv, CallAgrees, Executed
<1> HIDE DEF detected, todo
<1>7. /\ SameReading(call[w], locals)
      /\ locals.detected = detected /\ locals.todo = todo
  BY <1>2, <1>3, CallPlan DEF RecordFits
<1> HIDE DEF locals
<1>8. Moves(w, q, next, locals)
  BY <1>1, ExecutedMoves DEF EventsInv, TypeInv
<1>9. /\ q \in BeforeSync /\ q \notin {"idle", "save"}
      /\ next \notin {"save", "alerts", "idle"}
  BY DEF BeforeSync
<1>10. /\ Jump(p) \in locals.detected <=> DetectJump(p, call[w].value, windows[p])
       /\ Drift(p) \in locals.detected <=> DetectDrift(p, windows[p])
  BY <1>4, <1>5, <1>6, <1>7 DEF DetectionAgrees
<1>11. CallAgrees(w)'
  BY <1>1, <1>3, <1>4, <1>7, <1>8, <1>9, <1>10, ReadAgrees
<1> QED
  BY <1>1, <1>8, <1>9, <1>11, ReadKeepsEvents DEF Moves

(* The reads after detection, and the search before a write. *)
LEMMA LaterReadKeepsEvents ==
  ASSUME SingleWriter, EventsInv, NEW w \in Workers, NEW from, NEW to, NEW locals,
         Executed(w, from, to, locals),
         UNCHANGED <<vars, windows, setpoints, anomalies, settled>>,
         from \in InSync \cup {"active", "weights", "index"},
         to \in InSync \cup {"history", "weights", "index", "idle"},
         to = "history" <=> from = "active",
         to \in InSync => from \in InSync,
         to # "idle" => /\ SameReading(call[w], locals)
                        /\ locals.detected = call[w].detected
                        /\ locals.todo = call[w].todo
  PROVE  EventsNext
<1>1. Moves(w, from, to, locals)
  BY ExecutedMoves DEF EventsInv, TypeInv
<1>2. /\ stage[w] = from /\ from \notin {"idle", "save"} /\ to \notin {"save", "alerts"}
      /\ to \notin {"pressure", "moisture", "drive_load"}
      /\ to \in BeforeSync => from \in BeforeSync
  BY <1>1 DEF Moves, InSync, BeforeSync
<1>3. call[w].todo \subseteq Plan(call[w].parameter)
  BY <1>2, RunningCall DEF EventsInv, RecordFits
<1>4. to \in InSync => DetectionAgrees(w)
  BY <1>2 DEF EventsInv, CallAgrees
<1>5. to \in InSync => to # "idle"
  BY DEF InSync
<1>6. to \in InSync =>
        LET p == call[w].parameter
        IN  /\ Jump(p) \in locals.detected <=> DetectJump(p, call[w].value, windows[p])
            /\ Drift(p) \in locals.detected <=> DetectDrift(p, windows[p])
  BY <1>4, <1>5 DEF DetectionAgrees
<1>7. to \in InSync => /\ locals.todo \subseteq Plan(call[w].parameter)
                       /\ from \in InSync /\ locals.todo \subseteq call[w].todo
  BY <1>3, <1>5
<1>8. CallAgrees(w)'
  BY <1>1, <1>2, <1>6, <1>7, ReadAgrees
<1> QED
  BY <1>1, <1>2, <1>8, ReadKeepsEvents DEF Moves

-----------------------------------------------------------------------------
LEMMA LaterReadsKeepEvents ==
  ASSUME SingleWriter, EventsInv, NEW w \in Workers,
         \/ LoadActiveAlerts(w) \/ LoadActiveAnomalies(w) \/ LoadQualityWeights(w)
         \/ SaveQualityIndex(w) \/ FindOpenAnomaly(w) \/ UpdateAnomalyMisses(w)
  PROVE  EventsNext
<1>1. /\ UNCHANGED <<vars, windows, setpoints, anomalies, settled>>
      /\ stage[w] # "idle"
  BY DEF LoadActiveAlerts, LoadActiveAnomalies, LoadQualityWeights,
         SaveQualityIndex,
         FindOpenAnomaly, UpdateAnomalyMisses, Executed
<1>2. call[w] \in CallRecord
  BY <1>1, RunningCall DEF EventsInv, RecordFits
<1>3. CASE LoadActiveAlerts(w)
  <2> DEFINE locals == [call[w] EXCEPT !.alerts = ActiveAlerts(alerts)]
  <2>1. /\ SameReading(call[w], locals)
        /\ locals.detected = call[w].detected /\ locals.todo = call[w].todo
    BY <1>2, ActiveAlertsType, CallAlerts DEF EventsInv, TypeInv
  <2>2. Executed(w, "active", "history", locals)
    BY <1>3 DEF LoadActiveAlerts
  <2> HIDE DEF locals
  <2> QED
    BY <1>1, <2>1, <2>2, LaterReadKeepsEvents DEF InSync
<1>4. CASE LoadActiveAnomalies(w)
  <2> DEFINE locals == [call[w] EXCEPT !.anomalies = ActiveAnomalies(anomalies)]
  <2>1. /\ SameReading(call[w], locals)
        /\ locals.detected = call[w].detected /\ locals.todo = call[w].todo
    BY <1>2, ActiveAnomaliesType, CallAnomalies DEF EventsInv, TypeInv
  <2>2. Executed(w, "sync", "weights", locals)
    BY <1>4 DEF LoadActiveAnomalies
  <2> HIDE DEF locals
  <2> QED
    BY <1>1, <2>1, <2>2, LaterReadKeepsEvents DEF InSync
<1>5. CASE LoadQualityWeights(w)
  <2> DEFINE locals == [call[w] EXCEPT !.weights = weights]
  <2>1. /\ SameReading(call[w], locals)
        /\ locals.detected = call[w].detected /\ locals.todo = call[w].todo
    BY <1>2, CallWeights DEF EventsInv, TypeInv, TablesFit
  <2>2. Executed(w, "weights", "index", locals)
    BY <1>5 DEF LoadQualityWeights
  <2> HIDE DEF locals
  <2> QED
    BY <1>1, <2>1, <2>2, LaterReadKeepsEvents DEF InSync
<1>6. CASE SaveQualityIndex(w)
  <2>1. Executed(w, "index", "idle", NoCall)
    BY <1>6 DEF SaveQualityIndex
  <2> QED
    BY <1>1, <2>1, LaterReadKeepsEvents DEF InSync
<1>7. ASSUME NEW n \in Nat
      PROVE  LET d == [call[w] EXCEPT !.found = n]
             IN  /\ SameReading(call[w], d)
                 /\ d.detected = call[w].detected /\ d.todo = call[w].todo
  BY <1>2, CallFound
<1>8. CASE UpdateAnomalyMisses(w)
  <2> DEFINE locals == [call[w] EXCEPT !.found = 0]
  <2>1. /\ SameReading(call[w], locals)
        /\ locals.detected = call[w].detected /\ locals.todo = call[w].todo
    BY <1>7
  <2>2. Executed(w, "update anomaly", "create anomaly", locals)
    BY <1>8 DEF UpdateAnomalyMisses
  <2> HIDE DEF locals
  <2> QED
    BY <1>1, <2>1, <2>2, LaterReadKeepsEvents DEF InSync
<1>9. CASE FindOpenAnomaly(w)
  <2>1. ASSUME NEW i \in OpenAnomalies(anomalies, Key(w)),
               Executed(w, "sync", "update anomaly", [call[w] EXCEPT !.found = i])
        PROVE  EventsNext
    <3> DEFINE locals == [call[w] EXCEPT !.found = i]
    <3>1. i \in Nat
      BY DEF OpenAnomalies, EventsInv, TypeInv, TablesFit
    <3>2. /\ SameReading(call[w], locals)
          /\ locals.detected = call[w].detected /\ locals.todo = call[w].todo
      BY <1>7, <3>1
    <3>3. Executed(w, "sync", "update anomaly", locals)
      BY <2>1
    <3> HIDE DEF locals
    <3> QED
      BY <1>1, <3>2, <3>3, LaterReadKeepsEvents DEF InSync
  <2>2. ASSUME Executed(w, "sync", "create anomaly", call[w])
        PROVE  EventsNext
    <3>1. SameReading(call[w], call[w])
      BY DEF SameReading
    <3> QED
      BY <1>1, <2>2, <3>1, LaterReadKeepsEvents DEF InSync
  <2> QED
    BY <1>9, <2>1, <2>2 DEF FindOpenAnomaly
<1> QED
  BY <1>3, <1>4, <1>5, <1>6, <1>8, <1>9

(* A call that ends early leaves unsettled what it did not reach. *)
LEMMA EndKeepsEvents ==
  ASSUME SingleWriter, EventsInv, NEW w \in Workers,
         CreateAnomalyIsRefused(w) \/ WriteFails(w)
  PROVE  EventsNext
<1>1. /\ stage[w] # "idle" /\ End(w)
      /\ UNCHANGED <<vars, windows, setpoints, anomalies, settled>>
  BY DEF CreateAnomalyIsRefused, WriteFails, Fail
<1>2. stage'[w] = "idle" /\ OthersStay(w)
  BY <1>1, EndMoves DEF EventsInv, TypeInv
<1>3. CallAgrees(w)'
  BY <1>2 DEF CallAgrees, BeforeSync, InSync
<1> QED
  BY <1>1, <1>2, <1>3, ReadKeepsEvents

-----------------------------------------------------------------------------
(***************************************************************************)
(* The steps that write.                                                   *)
(***************************************************************************)

LEMMA SaveKeepsEvents ==
  ASSUME SingleWriter, EventsInv, NEW w \in Workers, NEW newer \in 0 .. MaxNewer,
         SaveTelemetryReading(w, newer)
  PROVE  EventsNext
<1>1. /\ stage[w] = "save"
      /\ UNCHANGED <<alerts, applied, setpoints, anomalies>>
      /\ settled' = settled \ {Alert(call[w].parameter), Jump(call[w].parameter),
                               Drift(call[w].parameter), CombinedRisk}
  BY DEF SaveTelemetryReading, ProcessAlerts, vars
<1>2. RecordFits(w, call[w]) /\ call[w].parameter \in Parameters
  BY <1>1, RunningCall DEF EventsInv
<1>3. PICK p \in Parameters : p = call[w].parameter
  BY <1>2
<1>4. PICK value : value = call[w].value
  OBVIOUS
<1>5. /\ \A q \in Parameters \ {p} : windows'[q] = windows[q]
      /\ windows'[p] # << >>
      /\ newer = 0 => windows'[p][Len(windows'[p])] = value
  <2>1. PICK h : h = windows'[p]
    OBVIOUS
  <2>2. /\ \A q \in Parameters \ {p} : windows'[q] = windows[q]
        /\ Len(h) >= 1 /\ (newer = 0 => h[Len(h)] = value)
    BY <1>3, <1>4, <2>1, WindowsStayTyped DEF EventsInv
  <2>3. h # << >>
    BY <2>2
  <2> QED
    BY <2>1, <2>2, <2>3
<1>6. /\ Alert(p) \notin settled' /\ Jump(p) \notin settled' /\ Drift(p) \notin settled'
      /\ settled' \subseteq settled
  BY <1>1, <1>3
<1>7. ASSUME NEW q \in Parameters \ {p} PROVE EventsStay(q)
  BY <1>1, <1>5, <1>6 DEF EventsStay, AlertsStay, AnomaliesStay, NothingSettled
<1>8. Follows(p)'
  BY <1>6 DEF Follows, AlertFollows, JumpFollows, DriftFollows, Alert, Jump, Drift
<1>9. OthersStay(w)
  BY ProcessStepFrame DEF ProcessStep, EventsInv, TypeInv
<1>10. CallAgrees(w)'
  <2>1. CASE Fail(w)
    <3>1. stage'[w] = "idle"
      BY <2>1, FailMoves DEF Ends, EventsInv, TypeInv
    <3> QED
      BY <3>1 DEF CallAgrees, BeforeSync, InSync
  <2>2. CASE /\ stage' = [stage EXCEPT ![w] = "alerts"]
             /\ call' = [call EXCEPT ![w].reading = clock', ![w].newest = newer = 0]
             /\ clock' \in Nat
    <3> DEFINE locals == AsSaved(call[w], clock', newer = 0)
    <3>1. /\ stage' = [stage EXCEPT ![w] = "alerts"]
          /\ call' = [call EXCEPT ![w] = locals]
      BY <2>2 DEF AsSaved, EventsInv, TypeInv, CallsAreJudged
    <3>2. /\ locals.parameter = p /\ locals.value = value
          /\ locals.newest = (newer = 0)
      BY <1>2, <1>3, <1>4, <2>2, CallReading DEF RecordFits
    <3> HIDE DEF locals
    <3>3. stage'[w] = "alerts" /\ call'[w] = locals
      BY <3>1, Moved DEF EventsInv, TypeInv
    <3>4. ReadingIsSaved(w)'
      BY <1>5, <1>6, <3>2, <3>3 DEF ReadingIsSaved, Latest, Alert, Jump
    <3> QED
      BY <1>6, <3>2, <3>3, <3>4 DEF CallAgrees, Alert, Jump, Drift, InSync
  <2>3. clock \in Nat
    BY DEF EventsInv, TypeInv, TypeOK
  <2> QED
    BY <2>1, <2>2, <2>3 DEF SaveTelemetryReading, ProcessAlerts
<1> QED
  BY <1>1, <1>3, <1>7, <1>8, <1>9, <1>10, OwnStep

LEMMA JumpsAreJumps == \A p : Jump(p).type = "jump"
  BY DEF Jump

(* The statement of a stage that stores or resolves the anomaly of a key:  *)
(* if it is answered, the anomaly is open exactly if it was detected.      *)
LEMMA AnomalyWriteKeepsEvents ==
  ASSUME SingleWriter, EventsInv, NEW w \in Workers, NEW from,
         from \in {"sync", "update anomaly", "create anomaly"},
         Executed(w, from, "sync", NextKey(w)), Settle(w),
         UNCHANGED <<vars, windows, setpoints>>,
         NEW key, key = Key(w), key \in call[w].todo,
         OpenAnomalies(anomalies', key) # {} <=> key \in call[w].detected,
         \A k : k # key => OpenAnomalies(anomalies', k) = OpenAnomalies(anomalies, k)
  PROVE  EventsNext
<1>1. stage[w] = from /\ stage[w] \in InSync /\ stage[w] # "idle"
  BY DEF Executed, InSync
<1>2. /\ RecordFits(w, call[w]) /\ call[w].parameter \in Parameters
      /\ Plan(call[w].parameter) \subseteq AnomalyKey
  BY <1>1, RunningCall DEF EventsInv
<1>3. PICK p \in Parameters : p = call[w].parameter
  BY <1>2
<1>4. key \in {Jump(p), Drift(p), CombinedRisk} /\ call[w].todo \subseteq Plan(p)
  BY <1>2, <1>3 DEF RecordFits, Plan
<1>5. CallAgrees(w) /\ DetectionAgrees(w) /\ ReadingIsSaved(w)
  BY <1>1 DEF EventsInv, CallAgrees, InSync
<1>6. \A k : k \in settled' /\ k # key => k \in settled
  BY DEF Settle
<1>7. /\ key \in settled' => key \in settled \/ key.type # "jump" \/ call[w].newest
      /\ key \in settled => key = CombinedRisk
  BY <1>1, <1>5 DEF Settle, CallAgrees
<1>8. ASSUME NEW q \in Parameters \ {p} PROVE EventsStay(q)
  <2>1. Alert(q) # key /\ Jump(q) # key /\ Drift(q) # key
    BY <1>4, EventNames
  <2> QED
    BY <1>6, <2>1 DEF EventsStay, AlertsStay, AnomaliesStay, NothingSettled, vars
<1>9. Follows(p)'
  <2>1. AlertFollows(p)'
    <3>1. Alert(p) # key
      BY <1>4, EventNames
    <3> QED
      BY <1>6, <3>1, AlertStaysTrue DEF EventsInv, Follows, AlertsStay, vars
  <2>2. JumpFollows(p)'
    <3>1. CASE key = Jump(p)
      <4>1. key.type = "jump" /\ key # CombinedRisk
        BY <3>1, EventNames, JumpsAreJumps
      <4>2. key \in settled' =>
              (OpenAnomalies(anomalies', key) # {} <=>
                 DetectJump(p, Latest(p), windows[p]))
        BY <1>3, <1>5, <1>7, <3>1, <4>1 DEF DetectionAgrees, ReadingIsSaved
      <4> QED
        BY <3>1, <4>2 DEF JumpFollows, Jump, Latest
    <3>2. CASE key # Jump(p)
      BY <1>6, <3>2 DEF EventsInv, Follows, JumpFollows, Jump, Latest
    <3> QED
      BY <3>1, <3>2
  <2>3. DriftFollows(p)'
    <3>1. CASE key = Drift(p)
      <4>1. OpenAnomalies(anomalies', key) # {} <=> DetectDrift(p, windows[p])
        BY <1>3, <1>5, <3>1 DEF DetectionAgrees
      <4> QED
        BY <3>1, <4>1 DEF DriftFollows, Drift
    <3>2. CASE key # Drift(p)
      BY <1>6, <3>2 DEF EventsInv, Follows, DriftFollows, Drift
    <3> QED
      BY <3>1, <3>2
  <2> QED
    BY <2>1, <2>2, <2>3 DEF Follows
<1> DEFINE locals == NextKey(w)
<1>10. /\ SameReading(call[w], locals) /\ locals.detected = call[w].detected
       /\ locals.todo = call[w].todo \ {key}
  <2>1. locals = WithoutKey(call[w], key)
    BY DEF NextKey, WithoutKey
  <2> HIDE DEF locals
  <2> QED
    BY <1>2, <2>1, CallTodo DEF RecordFits
<1>11. Moves(w, from, "sync", locals)
  BY ExecutedMoves DEF EventsInv, TypeInv
<1> HIDE DEF locals
<1>12. CallAgrees(w)'
  <2>1. CASE stage'[w] = "idle"
    BY <2>1 DEF CallAgrees, BeforeSync, InSync
  <2>2. CASE stage'[w] = "sync" /\ call'[w] = locals
    <3>1. PICK value, newest : value = call[w].value /\ newest = call[w].newest
      OBVIOUS
    <3>2. /\ call'[w].parameter = p /\ call'[w].value = value
          /\ call'[w].newest = newest /\ call'[w].detected = call[w].detected
          /\ call'[w].todo = call[w].todo \ {key}
      BY <1>3, <1>10, <2>2, <3>1 DEF SameReading
    <3>3. DetectionAgrees(w)'
      BY <1>3, <1>5, <3>1, <3>2 DEF DetectionAgrees, Jump, Drift
    <3>4. ~ newest => Jump(p) \notin settled' /\ Alert(p) \notin settled'
      <4>1. ~ newest => Jump(p) \notin settled /\ Alert(p) \notin settled
        BY <1>3, <1>5, <3>1 DEF ReadingIsSaved
      <4>2. key = Jump(p) => key.type = "jump" /\ key # CombinedRisk
        BY EventNames, JumpsAreJumps
      <4>3. Alert(p) # key
        BY <1>4, EventNames
      <4> QED
        BY <1>6, <1>7, <3>1, <4>1, <4>2, <4>3
    <3>5. ReadingIsSaved(w)'
      BY <1>3, <1>5, <3>1, <3>2, <3>4 DEF ReadingIsSaved, Latest, Alert, Jump
    <3>6. ASSUME NEW k \in call[w].todo \ {key}, k \in settled'
          PROVE  k = CombinedRisk
      BY <1>1, <1>5, <1>6, <3>6 DEF CallAgrees
    <3> QED
      BY <2>2, <3>2, <3>3, <3>5, <3>6
         DEF CallAgrees, BeforeSync, InSync, CombinedRisk
  <2> QED
    BY <1>11, <2>1, <2>2 DEF Moves, Ends
<1>13. OthersStay(w)
  BY <1>11 DEF Moves
<1> QED
  BY <1>1, <1>3, <1>8, <1>9, <1>12, <1>13, OwnStep

LEMMA AnomalyWritesKeepEvents ==
  ASSUME SingleWriter, EventsInv, NEW w \in Workers,
         UpdateAnomaly(w) \/ CreateAnomaly(w) \/ ResolveAnomaly(w)
  PROVE  EventsNext
<1>1. PICK key : key = Key(w)
  OBVIOUS
<1>2. CASE UpdateAnomaly(w)
  <2>1. /\ Executed(w, "update anomaly", "sync", NextKey(w)) /\ Settle(w)
        /\ UNCHANGED <<vars, windows, setpoints>>
        /\ stage[w] = "update anomaly"
        /\ anomalies[call[w].found].status = "active"
    BY <1>2 DEF UpdateAnomaly, Executed, UpdateOpenAnomalyHits
  <2>2. /\ key \in call[w].todo /\ key \in call[w].detected
        /\ call[w].found \in DOMAIN anomalies
        /\ anomalies[call[w].found].key = key
    BY <1>1, <2>1, InHand DEF AnomalyInHand, EventsInv
  <2>3. \A k : OpenAnomalies(anomalies', k) = OpenAnomalies(anomalies, k)
    BY <1>2, UpdateOpensNothing DEF EventsInv
  <2>4. OpenAnomalies(anomalies, key) # {}
    BY <2>1, <2>2 DEF OpenAnomalies
  <2> QED
    BY <1>1, <2>1, <2>2, <2>3, <2>4, AnomalyWriteKeepsEvents
<1>3. CASE CreateAnomaly(w)
  <2>1. /\ Executed(w, "create anomaly", "sync", NextKey(w)) /\ Settle(w)
        /\ UNCHANGED <<vars, windows, setpoints>>
        /\ stage[w] = "create anomaly"
    BY <1>3 DEF CreateAnomaly, Executed
  <2>2. key \in call[w].todo /\ key \in call[w].detected
    BY <1>1, <2>1, InHand DEF AnomalyInHand, EventsInv
  <2>3. /\ OpenAnomalies(anomalies', key) # {}
        /\ \A k : k # key =>
             OpenAnomalies(anomalies', k) = OpenAnomalies(anomalies, k)
    BY <1>1, <1>3, CreateOpensOne DEF EventsInv
  <2> QED
    BY <1>1, <2>1, <2>2, <2>3, AnomalyWriteKeepsEvents
<1>4. CASE ResolveAnomaly(w)
  <2>1. /\ Executed(w, "sync", "sync", NextKey(w)) /\ Settle(w)
        /\ UNCHANGED <<vars, windows, setpoints>>
        /\ stage[w] = "sync" /\ call[w].todo # {} /\ Key(w) \notin call[w].detected
    BY <1>4 DEF ResolveAnomaly
  <2>2. key \in call[w].todo /\ key \notin call[w].detected
    BY <1>1, <2>1, RunningCall, KeyIsPlanned DEF EventsInv, RecordFits
  <2>3. /\ OpenAnomalies(anomalies', key) = {}
        /\ \A k : k # key =>
             OpenAnomalies(anomalies', k) = OpenAnomalies(anomalies, k)
    BY <1>1, <1>4, ResolveOpensNothing DEF EventsInv
  <2> QED
    BY <1>1, <2>1, <2>2, <2>3, AnomalyWriteKeepsEvents
<1> QED
  BY <1>2, <1>3, <1>4

-----------------------------------------------------------------------------
(* The statements of processAlerts leave the alerts of other parameters.   *)
LEMMA OtherAlertsStay ==
  ASSUME TypeOK, JobsFit, NEW w \in Workers, WorkerStep(w),
         NEW q \in Parameters, q # job[w].parameter
  PROVE  AlertsStay(q)
<1>1. /\ alerts \in Seq(AlertRow) /\ applied \in [Parameters -> Nat]
      /\ pc[w] # "idle" /\ job[w] \in Job
  BY WorkerStepFrame DEF TypeOK
<1>2. PICK r \in Parameters, n \in Nat : r = job[w].parameter /\ n = job[w].reading
  BY <1>1 DEF Job
<1>3. AlertLevel(job[w].state) \in AlertLevels
  BY AlertLevelType
<1>4. applied'[q] = applied[q]
  <2>1. CASE Apply(w)
    BY <1>1, <1>2, <2>1 DEF Apply
  <2>2. CASE applied' = applied
    BY <2>2
  <2> QED
    BY <2>1, <2>2
       DEF WorkerStep, FindFinds, FindMisses, UpdateFindsOpen, UpdateMisses,
       CreateAlert, ResolveOpen, StatementFails, AnswerLost
<1>5. CASE alerts' = alerts
  BY <1>4, <1>5 DEF AlertsStay
<1>6. CASE /\ pc[w] = "update"
           /\ alerts' = UpdateOpen(alerts, found[w], AlertLevel(job[w].state),
                                   job[w].reading)
  <2>1. PICK i \in DOMAIN alerts : i = found[w] /\ alerts[i].parameter = r
    BY <1>2, <1>6 DEF TypeOK, JobsFit
  <2>2. /\ DOMAIN alerts' = DOMAIN alerts
        /\ \A k \in DOMAIN alerts \ {i} : alerts'[k] = alerts[k]
        /\ alerts'[i].parameter = r
    BY <1>1, <1>2, <1>3, <1>6, <2>1, UpdateOpenRows
  <2>3. OpenAlerts(alerts', q) = OpenAlerts(alerts, q)
    BY <1>2, <2>1, <2>2 DEF OpenAlerts
  <2>4. \A k \in OpenAlerts(alerts, q) : k \in DOMAIN alerts \ {i}
    BY <1>2, <2>1 DEF OpenAlerts
  <2> QED
    BY <1>4, <2>2, <2>3, <2>4 DEF AlertsStay
<1>7. CASE /\ pc[w] = "create"
           /\ alerts' = Create(alerts, NewAlert(job[w].parameter,
                                 AlertLevel(job[w].state), job[w].reading))
  <2> DEFINE row == NewAlert(job[w].parameter, AlertLevel(job[w].state),
                             job[w].reading)
  <2>1. alerts' = Append(alerts, row) /\ row.parameter = r
    BY <1>2, <1>7 DEF Create, NewAlert
  <2> HIDE DEF row
  <2>2. /\ DOMAIN alerts' = DOMAIN alerts \cup {Len(alerts) + 1}
        /\ Len(alerts) + 1 \notin DOMAIN alerts
        /\ alerts'[Len(alerts) + 1] = row
        /\ \A k \in DOMAIN alerts : alerts'[k] = alerts[k]
    BY <1>1, <2>1
  <2>3. OpenAlerts(alerts', q) = OpenAlerts(alerts, q)
    BY <1>2, <2>1, <2>2 DEF OpenAlerts
  <2> QED
    BY <1>4, <2>2, <2>3 DEF AlertsStay, OpenAlerts
<1>8. CASE alerts' = ResolveOpenByParameter(alerts, r)
  <2>1. /\ DOMAIN alerts' = DOMAIN alerts
        /\ \A k \in DOMAIN alerts :
             /\ alerts'[k].parameter = alerts[k].parameter
             /\ \/ alerts'[k].status = "resolved"
                \/ k \notin OpenAlerts(alerts, r) /\ alerts'[k] = alerts[k]
             /\ alerts'[k].reading = alerts[k].reading
             /\ alerts'[k].level = alerts[k].level
    BY <1>1, <1>8, ResolveOpenRows
  <2>2. \A k \in DOMAIN alerts \ OpenAlerts(alerts, r) : alerts'[k] = alerts[k]
    BY <1>8 DEF ResolveOpenByParameter
  <2>3. \A k \in OpenAlerts(alerts, q) : k \in DOMAIN alerts \ OpenAlerts(alerts, r)
    BY <1>2 DEF OpenAlerts
  <2>4. OpenAlerts(alerts', q) = OpenAlerts(alerts, q)
    <3>1. ASSUME NEW k \in OpenAlerts(alerts', q) PROVE k \in OpenAlerts(alerts, q)
      <4>1. /\ k \in DOMAIN alerts /\ alerts[k].parameter = q
            /\ alerts'[k].status # "resolved"
        BY <2>1 DEF OpenAlerts, OpenStatuses
      <4>2. alerts'[k] = alerts[k]
        BY <2>1, <4>1
      <4> QED
        BY <3>1, <4>1, <4>2 DEF OpenAlerts
    <3>2. ASSUME NEW k \in OpenAlerts(alerts, q) PROVE k \in OpenAlerts(alerts', q)
      BY <2>1, <2>2, <2>3, <3>2 DEF OpenAlerts
    <3> QED
      BY <3>1, <3>2
  <2> QED
    BY <1>4, <2>2, <2>3, <2>4 DEF AlertsStay
<1> QED
  BY <1>2, <1>5, <1>6, <1>7, <1>8 DEF WorkerStep, FindFinds, FindMisses,
     UpdateFindsOpen, UpdateMisses, CreateAlert, ResolveOpen, StatementFails,
     AnswerLost, Return, Goto

(* A call that succeeds leaves the alerts of its parameter as the state of *)
(* its reading demands.                                                    *)
LEMMA SuccessSettles ==
  ASSUME TypeOK, JobsFit, NEW w \in Workers, WorkerStep(w),
         pc'[w] = "idle", result'[w] # "failed",
         NEW p \in Parameters, p = job[w].parameter, NEW state, state = job[w].state
  PROVE  /\ NeedsAlert(state) =>
              \E i \in OpenAlerts(alerts', p) : /\ alerts'[i].level = AlertLevel(state)
                                                /\ alerts'[i].reading = applied'[p]
         /\ ~ NeedsAlert(state) => OpenAlerts(alerts', p) = {}
<1>1. /\ pc[w] # "idle" /\ job[w] \in Job
      /\ pc \in [Workers -> Statements \cup {"idle"}]
      /\ result \in [Workers -> Results]
      /\ applied \in [Parameters -> Nat]
      /\ alerts \in Seq(AlertRow)
  BY WorkerStepFrame DEF TypeOK
<1>2. \/ UpdateFindsOpen(w) \/ CreateAlert(w) \/ ResolveOpen(w)
  BY <1>1 DEF WorkerStep, FindFinds, FindMisses, UpdateMisses, StatementFails,
     AnswerLost, Return, Goto
<1>3. applied'[p] = job[w].reading
  BY <1>1, <1>2 DEF UpdateFindsOpen, CreateAlert, ResolveOpen, Apply
<1>4. CASE UpdateFindsOpen(w) \/ CreateAlert(w)
  <2>1. pc[w] \in {"update", "create"} /\ result'[w] \in {"created", "updated"}
    BY <1>1, <1>4 DEF UpdateFindsOpen, CreateAlert, Return, Goto
  <2>2. NeedsAlert(state)
    BY <2>1 DEF JobsFit
  <2>3. Next
    BY DEF Next
  <2>4. \E i \in OpenAlerts(alerts', p) : /\ alerts'[i].reading = job[w].reading
                                          /\ alerts'[i].level = job[w].state
    BY <1>1, <2>1, <2>3, SuccessIsRecorded
  <2> QED
    BY <1>3, <2>2, <2>4 DEF NeedsAlert, AlertLevel
<1>5. CASE ResolveOpen(w)
  <2>1. pc[w] = "resolve" /\ alerts' = ResolveOpenByParameter(alerts, p)
    BY <1>5 DEF ResolveOpen, Return, Goto
  <2>2. ~ NeedsAlert(state)
    BY <2>1 DEF JobsFit
  <2>3. /\ DOMAIN alerts' = DOMAIN alerts
        /\ \A k \in DOMAIN alerts :
             /\ alerts'[k].parameter = alerts[k].parameter
             /\ \/ alerts'[k].status = "resolved"
                \/ k \notin OpenAlerts(alerts, p) /\ alerts'[k] = alerts[k]
    BY <1>1, <2>1, ResolveOpenRows
  <2>4. OpenAlerts(alerts', p) = {}
    BY <2>3 DEF OpenAlerts, OpenStatuses
  <2> QED
    BY <2>2, <2>4
<1> QED
  BY <1>2, <1>4, <1>5

LEMMA AlertStatementKeepsEvents ==
  ASSUME SingleWriter, EventsInv, NEW w \in Workers, AlertStatement(w)
  PROVE  EventsNext
<1>1. /\ stage[w] = "alerts" /\ WorkerStep(w) /\ OthersStay(w)
      /\ UNCHANGED <<windows, setpoints, anomalies>>
  BY ProcessStepFrame DEF AlertStatement, ProcessStep, EventsInv, TypeInv
<1>2. /\ call[w].parameter \in Parameters
      /\ job[w].parameter = call[w].parameter /\ job[w].state = call[w].state
  <2>1. call[w].parameter \in Parameters
    BY <1>1, RunningCall DEF EventsInv
  <2>2. job[w] = [parameter |-> call[w].parameter, state |-> call[w].state,
                  reading |-> call[w].reading]
    BY <1>1 DEF EventsInv, TypeInv, CallFits
  <2> QED
    BY <2>1, <2>2
<1>3. PICK p \in Parameters, state \in {call[w].state}, value \in {call[w].value} :
        p = call[w].parameter /\ state = call[w].state /\ value = call[w].value
  BY <1>2
<1>4. CallAgrees(w) /\ ReadingIsSaved(w)
  BY <1>1 DEF EventsInv, CallAgrees
<1>5. /\ Alert(p) \notin settled /\ Jump(p) \notin settled /\ Drift(p) \notin settled
      /\ windows[p] # << >>
      /\ call[w].newest => Latest(p) = value
  BY <1>1, <1>3, <1>4 DEF CallAgrees, BeforeSync, ReadingIsSaved
<1>6. \/ settled' = settled
      \/ /\ pc'[w] = "idle" /\ result'[w] # "failed"
         /\ call[w].newest /\ state = Evaluate(setpoints[p], value)
         /\ settled' = settled \cup {Alert(p)}
  BY <1>3 DEF AlertStatement
<1>7. ASSUME NEW q \in Parameters \ {p} PROVE EventsStay(q)
  <2>1. AlertsStay(q)
    BY <1>1, <1>2, <1>3, OtherAlertsStay DEF EventsInv, TypeInv
  <2>2. AnomaliesStay(q)
    BY <1>1 DEF AnomaliesStay
  <2>3. NothingSettled(q)
    BY <1>6, EventNames DEF NothingSettled
  <2> QED
    BY <1>1, <2>1, <2>2, <2>3 DEF EventsStay
<1>8. /\ Jump(p) \notin settled' /\ Drift(p) \notin settled'
  BY <1>5, <1>6, EventNames
<1>9. Follows(p)'
  <2>1. AlertFollows(p)'
    <3>1. CASE settled' = settled
      BY <1>5, <3>1 DEF AlertFollows, Alert
    <3>2. CASE /\ pc'[w] = "idle" /\ result'[w] # "failed"
               /\ call[w].newest /\ state = Evaluate(setpoints[p], value)
      <4>1. Evaluate(setpoints[p], Latest(p))' = state
        BY <1>1, <1>5, <3>2 DEF Latest
      <4>2. /\ NeedsAlert(state) =>
                 \E i \in OpenAlerts(alerts', p) :
                   /\ alerts'[i].level = AlertLevel(state)
                   /\ alerts'[i].reading = applied'[p]
            /\ ~ NeedsAlert(state) => OpenAlerts(alerts', p) = {}
        BY <1>1, <1>2, <1>3, <3>2, SuccessSettles DEF EventsInv, TypeInv
      <4> QED
        BY <4>1, <4>2 DEF AlertFollows
    <3> QED
      BY <1>6, <3>1, <3>2
  <2>2. JumpFollows(p)' /\ DriftFollows(p)'
    BY <1>8 DEF JumpFollows, DriftFollows, Jump, Drift
  <2> QED
    BY <2>1, <2>2 DEF Follows
<1>10. CallAgrees(w)'
  <2>1. CASE Fail(w)
    <3>1. stage'[w] = "idle"
      BY <2>1, FailMoves DEF Ends, EventsInv, TypeInv
    <3> QED
      BY <3>1 DEF CallAgrees, BeforeSync, InSync
  <2>2. CASE /\ \/ stage' = stage /\ settled' = settled
                \/ stage' = [stage EXCEPT ![w] = "active"]
             /\ call' = call
    <3>1. \/ stage'[w] = "alerts" /\ settled' = settled
          \/ stage'[w] = "active"
      BY <1>1, <2>2 DEF EventsInv, TypeInv, CallsAreJudged
    <3>2. ReadingIsSaved(w)'
      <4>1. ~ call[w].newest => Alert(p) \notin settled'
        BY <1>5, <1>6
      <4> QED
        BY <1>1, <1>3, <1>4, <1>8, <2>2, <4>1
           DEF ReadingIsSaved, Latest, Alert, Jump
    <3>3. stage'[w] = "alerts" => Alert(p) \notin settled'
      BY <1>5, <3>1
    <3> QED
      BY <1>3, <1>8, <2>2, <3>1, <3>2, <3>3
         DEF CallAgrees, BeforeSync, InSync, Alert, Jump, Drift
  <2> QED
    BY <2>1, <2>2 DEF AlertStatement
<1> QED
  BY <1>1, <1>3, <1>7, <1>9, <1>10, OwnStep

(* The steps of operators and technologists, and of calls that begin.      *)
LEMMA WorkersGoOn ==
  ASSUME EventsInv, UNCHANGED <<stage, call>>, windows' = windows,
         \A q \in Parameters : NothingSettled(q),
         NEW v \in Workers
  PROVE  CallAgrees(v)'
<1>1. CASE stage[v] = "idle"
  BY <1>1 DEF CallAgrees, BeforeSync, InSync
<1>2. CASE stage[v] # "idle"
  <2>1. PICK p \in Parameters : p = call[v].parameter /\ p = call'[v].parameter
    BY <1>2, RunningCall DEF EventsInv
  <2>2. windows'[p] = windows[p] /\ NothingSettled(p) /\ CallAgrees(v)
    BY DEF EventsInv
  <2>3. call[v].todo \subseteq Plan(p)
    BY <1>2, <2>1, RunningCall DEF RecordFits, EventsInv
  <2>4. stage[v] # "save" => ReadingIsSaved(v)'
    BY <1>2, <2>1, <2>2
       DEF CallAgrees, ReadingIsSaved, Latest, NothingSettled, Alert, Jump
  <2>5. stage[v] \in {"pressure", "moisture", "drive_load"} \cup InSync =>
          DetectionAgrees(v)'
    BY <2>1, <2>2 DEF CallAgrees, DetectionAgrees, Jump, Drift
  <2>6. /\ stage[v] = "alerts" => Alert(p) \notin settled'
        /\ stage[v] \in BeforeSync => Jump(p) \notin settled' /\ Drift(p) \notin settled'
    BY <2>1, <2>2 DEF CallAgrees, NothingSettled
  <2>7. ASSUME stage[v] \in InSync, NEW key \in call[v].todo, key \in settled'
        PROVE  key = CombinedRisk
    BY <2>1, <2>2, <2>3, <2>7 DEF CallAgrees, NothingSettled, Plan
  <2> QED
    BY <2>1, <2>4, <2>5, <2>6, <2>7 DEF CallAgrees, Alert, Jump, Drift, CombinedRisk
<1> QED
  BY <1>1, <1>2

LEMMA ValidateKeepsEvents ==
  ASSUME EventsInv, NEW w \in Workers, NEW p \in Parameters,
         NEW value \in Values[p],
         Validate(w, p, value)
  PROVE  EventsNext
<1>1. /\ UNCHANGED <<vars, windows, setpoints, anomalies, settled>>
      /\ \E locals : call' = [call EXCEPT ![w] = locals]
      /\ stage' = [stage EXCEPT ![w] = "save"]
  BY DEF Validate
<1>2. stage'[w] = "save" /\ OthersStay(w)
  BY <1>1, Moved DEF EventsInv, TypeInv
<1>3. ASSUME NEW q \in Parameters PROVE EventsStay(q)
  BY <1>1 DEF EventsStay, AlertsStay, AnomaliesStay, NothingSettled, vars
<1>4. ASSUME NEW v \in Workers PROVE CallAgrees(v)'
  <2>1. CASE v = w
    BY <1>2, <2>1 DEF CallAgrees, BeforeSync, InSync
  <2>2. CASE v # w
    <3>1. stage[v] # "idle" => EventsStay(call[v].parameter)
      BY <1>3, RunningCall DEF EventsInv
    <3> QED
      BY <1>2, <2>2, <3>1, OthersAgree DEF EventsInv, OthersStay
  <2> QED
    BY <2>1, <2>2
<1>5. ASSUME NEW q \in Parameters PROVE Follows(q)'
  BY <1>3, FollowsStays DEF EventsInv
<1> QED
  BY <1>4, <1>5 DEF EventsNext

(* An operator who closes an alert, or opens one again, unsettles it; who  *)
(* acknowledges an open one leaves it open, with its level and reading.    *)
LEMMA OperatorKeepsAlerts ==
  ASSUME EventsInv, NEW user \in Users, NEW i \in DOMAIN alerts,
         OperatorActs(user, i), NEW q \in Parameters, Alert(q) \in settled'
  PROVE  Alert(q) \in settled /\ AlertsStay(q)
<1>1. /\ applied' = applied
      /\ settled' = settled \/ settled' = settled \ {Alert(alerts[i].parameter)}
      /\ (alerts'[i].status = "resolved" \/ alerts[i].status = "resolved") =>
           Alert(alerts[i].parameter) \notin settled'
  BY DEF OperatorActs, AcknowledgeEvent, ResolveEvent
<1>2. alerts \in Seq(AlertRow)
  BY DEF EventsInv, TypeInv, TypeOK
<1>3. /\ DOMAIN alerts' = DOMAIN alerts
      /\ \A k \in DOMAIN alerts \ {i} : alerts'[k] = alerts[k]
      /\ alerts'[i].parameter = alerts[i].parameter
      /\ alerts'[i].createdAt = alerts[i].createdAt
      /\ alerts'[i].reading = alerts[i].reading
      /\ alerts'[i].level = alerts[i].level
      /\ alerts'[i].status \in {"acknowledged", "resolved"}
  <2>1. CASE alerts' = Acknowledge(alerts, i, NoUser)
    BY <1>2, <2>1, AcknowledgeRows
  <2>2. CASE alerts' = Resolve(alerts, i)
    BY <1>2, <2>2, ResolveRows
  <2> QED
    BY <2>1, <2>2 DEF OperatorActs, AcknowledgeEvent, ResolveEvent
<1>4. alerts[i].status \in AlertStatuses
  BY <1>2, RowsAreRows DEF AlertRow
<1>5. CASE alerts[i].parameter = q
  <2>1. /\ alerts'[i].status \in OpenStatuses
        /\ alerts[i].status \in OpenStatuses
    BY <1>1, <1>3, <1>4, <1>5 DEF AlertStatuses, OpenStatuses
  <2>2. OpenAlerts(alerts', q) = OpenAlerts(alerts, q)
    BY <1>3, <2>1 DEF OpenAlerts
  <2> QED
    BY <1>1, <1>3, <2>2 DEF AlertsStay, OpenAlerts
<1>6. CASE alerts[i].parameter # q
  <2>1. OpenAlerts(alerts', q) = OpenAlerts(alerts, q)
    BY <1>3, <1>6 DEF OpenAlerts
  <2> QED
    BY <1>1, <1>3, <2>1 DEF AlertsStay, OpenAlerts
<1> QED
  BY <1>5, <1>6

LEMMA OperatorKeepsEvents ==
  ASSUME EventsInv, NEW user \in Users, NEW i \in DOMAIN alerts,
         OperatorActs(user, i)
  PROVE  EventsNext
<1>1. /\ UNCHANGED <<stage, call, windows, setpoints, anomalies>>
      /\ settled' = settled \/ settled' = settled \ {Alert(alerts[i].parameter)}
  BY DEF OperatorActs
<1>2. ASSUME NEW q \in Parameters PROVE NothingSettled(q) /\ AnomaliesStay(q)
  BY <1>1, EventNames DEF NothingSettled, AnomaliesStay
<1>3. ASSUME NEW q \in Parameters PROVE Follows(q)'
  <2>1. AlertFollows(q)'
    <3>1. CASE Alert(q) \notin settled'
      BY <3>1 DEF AlertFollows, Alert
    <3>2. CASE Alert(q) \in settled'
      <4>1. AlertsStay(q)
        BY <3>2, OperatorKeepsAlerts
      <4> QED
        BY <1>1, <1>2, <4>1, AlertStaysTrue DEF EventsInv, Follows, NothingSettled
    <3> QED
      BY <3>1, <3>2
  <2>2. JumpFollows(q)'
    BY <1>1, <1>2 DEF EventsInv, Follows, JumpFollows, NothingSettled, Latest, Jump
  <2>3. DriftFollows(q)'
    BY <1>1, <1>2 DEF EventsInv, Follows, DriftFollows, NothingSettled, Drift
  <2> QED
    BY <2>1, <2>2, <2>3 DEF Follows
<1> QED
  BY <1>1, <1>2, <1>3, WorkersGoOn DEF EventsNext

LEMMA SetpointKeepsEvents ==
  ASSUME EventsInv, NEW p \in Parameters, NEW setpoint, UpdateSetpoint(p, setpoint)
  PROVE  EventsNext
<1>1. /\ UNCHANGED <<stage, call, windows, anomalies, vars>>
      /\ settled' = settled \ {Alert(p)}
      /\ setpoints' = [setpoints EXCEPT ![p] = setpoint]
  BY DEF UpdateSetpoint, UpdateSetpointRow
<1>2. \A q \in Parameters \ {p} : setpoints'[q] = setpoints[q]
  BY <1>1 DEF EventsInv, TypeInv, TablesFit
<1>3. ASSUME NEW q \in Parameters
      PROVE  NothingSettled(q) /\ AlertsStay(q) /\ AnomaliesStay(q)
  BY <1>1 DEF NothingSettled, AlertsStay, AnomaliesStay, vars
<1>4. ASSUME NEW q \in Parameters PROVE Follows(q)'
  <2>1. CASE q = p
    <3>1. AlertFollows(q)'
      BY <1>1, <2>1 DEF AlertFollows, Alert
    <3>2. JumpFollows(q)'
      BY <1>1, <1>3
         DEF EventsInv, Follows, JumpFollows, NothingSettled, Latest, Jump
    <3>3. DriftFollows(q)'
      BY <1>1, <1>3 DEF EventsInv, Follows, DriftFollows, NothingSettled, Drift
    <3> QED
      BY <3>1, <3>2, <3>3 DEF Follows
  <2>2. CASE q # p
    BY <1>1, <1>2, <1>3, <2>2, FollowsStays DEF EventsInv, EventsStay
  <2> QED
    BY <2>1, <2>2
<1> QED
  BY <1>1, <1>3, <1>4, WorkersGoOn DEF EventsNext

(* What does not touch the events, their measurements or the calls.        *)
LEMMA NothingTouched ==
  ASSUME EventsInv,
         UNCHANGED <<stage, call, windows, setpoints, anomalies, settled, vars>>
  PROVE  EventsNext
<1>1. ASSUME NEW q \in Parameters PROVE EventsStay(q) /\ NothingSettled(q)
  BY DEF EventsStay, AlertsStay, AnomaliesStay, NothingSettled, vars
<1> QED
  BY <1>1, FollowsStays, WorkersGoOn DEF EventsInv, EventsNext

LEMMA ProcessStepKeepsEvents ==
  ASSUME SingleWriter, EventsInv, NEW w \in Workers, ProcessStep(w)
  PROVE  EventsNext
<1>1. CASE \E newer \in 0..MaxNewer : SaveTelemetryReading(w, newer)
  BY <1>1, SaveKeepsEvents
<1>2. CASE AlertStatement(w) \/ LoadParameterHistory(w)
  BY <1>2, AlertStatementKeepsEvents, ParameterHistoryKeepsEvents
<1>3. CASE \/ LoadRiskHistory(w, "pressure", "moisture")
           \/ LoadRiskHistory(w, "moisture", "drive_load")
           \/ LoadRiskHistory(w, "drive_load", "sync")
  BY <1>3, RiskHistoryKeepsEvents
<1>4. CASE \/ LoadActiveAlerts(w) \/ LoadActiveAnomalies(w) \/ LoadQualityWeights(w)
           \/ SaveQualityIndex(w) \/ FindOpenAnomaly(w) \/ UpdateAnomalyMisses(w)
  BY <1>4, LaterReadsKeepEvents
<1>5. CASE UpdateAnomaly(w) \/ CreateAnomaly(w) \/ ResolveAnomaly(w)
  BY <1>5, AnomalyWritesKeepEvents
<1>6. CASE CreateAnomalyIsRefused(w) \/ WriteFails(w)
  BY <1>6, EndKeepsEvents
<1> QED
  BY <1>1, <1>2, <1>3, <1>4, <1>5, <1>6 DEF ProcessStep

LEMMA EventsInvIsKept ==
  ASSUME SingleWriter, EventsInv, [ProcessNext]_allVars
  PROVE  EventsInv'
<1>1. TypeInv'
  BY ProcessNextFits DEF EventsInv
<1>2. JobsFit'
  BY ProcessNextIsAlertsStep, StepKeepsJobsFit DEF EventsInv, TypeInv
<1>3. ASSUME NEW w \in Workers, NEW p \in Parameters, NEW value \in Values[p],
             Validate(w, p, value)
      PROVE  EventsNext
  BY <1>3, ValidateKeepsEvents
<1>4. ASSUME NEW w \in Workers, ProcessStep(w)
      PROVE  EventsNext
  BY <1>4, ProcessStepKeepsEvents
<1>5. ASSUME NEW user \in Users, NEW i \in DOMAIN alerts, OperatorActs(user, i)
      PROVE  EventsNext
  BY <1>5, OperatorKeepsEvents
<1>6. ASSUME NEW p \in Parameters, NEW k \in DOMAIN Setpoints[p],
             UpdateSetpoint(p, Setpoints[p][k])
      PROVE  EventsNext
  BY <1>6, SetpointKeepsEvents
<1>7. ASSUME NEW p \in Parameters, NEW k \in DOMAIN Weights[p],
             UpdateWeight(p, Weights[p][k])
      PROVE  EventsNext
  BY <1>7, NothingTouched DEF UpdateWeight
<1>8. ASSUME UNCHANGED allVars
      PROVE  EventsNext
  BY <1>8, NothingTouched DEF allVars, processVars
<1>9. EventsNext
  BY <1>3, <1>4, <1>5, <1>6, <1>7, <1>8 DEF ProcessNext
<1> QED
  BY <1>1, <1>2, <1>9 DEF EventsInv, EventsNext

LEMMA InitEventsInv == ProcessInit => EventsInv
<1> SUFFICES ASSUME ProcessInit PROVE EventsInv
  OBVIOUS
<1>1. TypeInv
  BY ProcessInitFits
<1>2. JobsFit
  BY DEF ProcessInit, Init, JobsFit
<1>3. settled = {} /\ \A w \in Workers : stage[w] = "idle"
  BY DEF ProcessInit
<1>4. ASSUME NEW w \in Workers PROVE CallAgrees(w)
  BY <1>3 DEF CallAgrees, BeforeSync, InSync
<1>5. ASSUME NEW p \in Parameters PROVE Follows(p)
  BY <1>3 DEF Follows, AlertFollows, JumpFollows, DriftFollows
<1> QED
  BY <1>1, <1>2, <1>4, <1>5 DEF EventsInv

LEMMA EventsInvHolds ==
  ASSUME SingleWriter
  PROVE  ProcessSpec => []EventsInv
<1>1. EventsInv /\ [ProcessNext]_allVars => EventsInv'
  BY EventsInvIsKept
<1> QED
  BY <1>1, InitEventsInv, PTL DEF ProcessSpec

(* Whatever failing statements, operators and technologists do between the *)
(* steps of a call, the events that the calls have dealt with show what    *)
(* the line does, if every parameter has one writer: an alert is open      *)
(* exactly if the latest measurement is outside its normal range, a jump   *)
(* or a drift exactly if the saved readings show one.                      *)
THEOREM SettledEventsFollowMeasurements ==
  ASSUME SingleWriter
  PROVE  ProcessSpec => []EventsFollowMeasurements
<1>1. EventsInv => EventsFollowMeasurements
  BY DEF EventsInv, Follows, EventsFollowMeasurements
<1> QED
  BY <1>1, EventsInvHolds, PTL

-----------------------------------------------------------------------------
(***************************************************************************)
(* What an index that was overtaken counts of its own reading.             *)
(***************************************************************************)

OwnAlerts(counted, p) == {alert \in counted : alert.parameter = p}

(* The jump and the drift that a call has dealt with are open in the table *)
(* exactly if it has detected them; it has read them as it detected them.  *)
SyncedOwn(p, table, c) ==
  \A key \in {Jump(p), Drift(p)} \ c.todo :
    OpenAnomalies(table, key) # {} <=> key \in c.detected

HasReadOwn(p, c) ==
  \A key \in {Jump(p), Drift(p)} : key \in c.anomalies <=> key \in c.detected

(* Key by key, syncAnomalies makes the table agree with the detection, and *)
(* nobody else writes the jump and the drift of this parameter.            *)
CountsOwn(w) ==
  LET p == call[w].parameter IN
  /\ stage[w] \in InSync => SyncedOwn(p, anomalies, call[w])
  /\ stage[w] \in {"weights", "index"} => HasReadOwn(p, call[w])
  /\ stage[w] \in AfterAlerts /\ Alert(p) \in settled =>
       OwnAlerts(call[w].alerts, p) = OwnAlerts(ActiveAlerts(alerts), p)

OwnInv == EventsInv /\ \A w \in Workers : CountsOwn(w)

(* What an index counts of the alerts of a parameter, before and after a   *)
(* step that leaves the alert settled.                                     *)
ShownStays(p) ==
  Alert(p) \in settled' =>
    /\ Alert(p) \in settled
    /\ OwnAlerts(ActiveAlerts(alerts'), p) = OwnAlerts(ActiveAlerts(alerts), p)

(* Of a parameter, an index counts the alert that is listed first.         *)
LEMMA OwnAlertsAreLatest ==
  ASSUME NEW p \in Parameters, NEW table
  PROVE  OwnAlerts(ActiveAlerts(table), p) =
           {[parameter |-> p, level |-> table[i].level] : i \in LatestOpenAlert(table, p)}
<1>1. ASSUME NEW q, NEW i \in LatestOpenAlert(table, q) PROVE table[i].parameter = q
  BY <1>1 DEF LatestOpenAlert, OpenAlerts
<1>2. ASSUME NEW y \in OwnAlerts(ActiveAlerts(table), p)
      PROVE  \E i \in LatestOpenAlert(table, p) :
               y = [parameter |-> p, level |-> table[i].level]
  <2>1. y.parameter = p
    BY <1>2 DEF OwnAlerts
  <2>2. PICK i \in Active(table) :
          y = [parameter |-> table[i].parameter, level |-> table[i].level]
    BY <1>2 DEF OwnAlerts, ActiveAlerts
  <2>3. PICK q \in Parameters : i \in LatestOpenAlert(table, q)
    BY <2>2 DEF Active
  <2>4. table[i].parameter = p
    BY <2>1, <2>2
  <2> QED
    BY <1>1, <2>2, <2>3, <2>4
<1>3. ASSUME NEW i \in LatestOpenAlert(table, p)
      PROVE  [parameter |-> p, level |-> table[i].level] \in
               OwnAlerts(ActiveAlerts(table), p)
  <2>1. i \in Active(table)
    BY <1>3 DEF Active
  <2>2. [parameter |-> table[i].parameter, level |-> table[i].level] \in
          ActiveAlerts(table)
    BY <2>1 DEF ActiveAlerts
  <2>3. table[i].parameter = p
    BY <1>1, <1>3
  <2> QED
    BY <2>2, <2>3 DEF OwnAlerts
<1> QED
  BY <1>2, <1>3

LEMMA OwnAlertsStay ==
  ASSUME NEW p \in Parameters, AlertsStay(p)
  PROVE  OwnAlerts(ActiveAlerts(alerts'), p) = OwnAlerts(ActiveAlerts(alerts), p)
<1>1. \A i, j \in OpenAlerts(alerts, p) :
        ListedBefore(alerts', i, j) <=> ListedBefore(alerts, i, j)
  BY DEF AlertsStay, ListedBefore
<1>2. LatestOpenAlert(alerts', p) = LatestOpenAlert(alerts, p)
  BY <1>1 DEF AlertsStay, LatestOpenAlert
<1>3. \A i \in LatestOpenAlert(alerts, p) : alerts'[i].level = alerts[i].level
  BY DEF AlertsStay, LatestOpenAlert
<1>4. {[parameter |-> p, level |-> alerts'[i].level] : i \in LatestOpenAlert(alerts', p)}
        = {[parameter |-> p, level |-> alerts[i].level] : i \in LatestOpenAlert(alerts, p)}
  BY <1>2, <1>3
<1> QED
  BY <1>4, OwnAlertsAreLatest

LEMMA OthersCount ==
  ASSUME NEW v, CountsOwn(v), UNCHANGED <<stage[v], call[v]>>,
         stage[v] # "idle" => /\ AnomaliesStay(call[v].parameter)
                              /\ ShownStays(call[v].parameter)
  PROVE  CountsOwn(v)'
<1>1. CASE stage[v] = "idle"
  BY <1>1 DEF CountsOwn, InSync, AfterAlerts
<1>2. CASE stage[v] # "idle"
  <2>1. PICK p : p = call[v].parameter /\ p = call'[v].parameter
    OBVIOUS
  <2>2. AnomaliesStay(p) /\ ShownStays(p)
    BY <1>2, <2>1
  <2>3. stage[v] \in InSync =>
          SyncedOwn(p, anomalies', call[v])
    BY <2>1, <2>2 DEF CountsOwn, AnomaliesStay, SyncedOwn
  <2>4. stage[v] \in AfterAlerts /\ Alert(p) \in settled' =>
          OwnAlerts(call[v].alerts, p) = OwnAlerts(ActiveAlerts(alerts'), p)
    BY <2>1, <2>2 DEF CountsOwn, ShownStays
  <2> QED
    BY <2>1, <2>3, <2>4 DEF CountsOwn, SyncedOwn, HasReadOwn, Jump, Drift, Alert
<1> QED
  BY <1>1, <1>2

(* A step of a worker that is past the alerts, or ends there. *)
LEMMA MoveCounts ==
  ASSUME OwnInv, NEW w \in Workers, NEW from, NEW to, NEW locals,
         Moves(w, from, to, locals), alerts' = alerts,
         NEW p \in Parameters, p = call[w].parameter,
         Alert(p) \in settled' => Alert(p) \in settled,
         to # "idle" => locals.parameter = p,
         to \in InSync => SyncedOwn(p, anomalies', locals),
         to \in {"weights", "index"} => HasReadOwn(p, locals),
         to \in AfterAlerts =>
           \/ locals.alerts = ActiveAlerts(alerts)
           \/ from \in AfterAlerts /\ locals.alerts = call[w].alerts
  PROVE  CountsOwn(w)'
<1>1. CASE stage'[w] = "idle"
  BY <1>1 DEF CountsOwn, InSync, AfterAlerts
<1>2. CASE stage'[w] = to /\ call'[w] = locals /\ to # "idle"
  <2>1. to \in AfterAlerts /\ Alert(p) \in settled' =>
          OwnAlerts(locals.alerts, p) = OwnAlerts(ActiveAlerts(alerts), p)
    BY DEF OwnInv, CountsOwn, Moves
  <2>2. call'[w].parameter = p
    BY <1>2
  <2> QED
    BY <1>2, <2>1, <2>2 DEF CountsOwn, SyncedOwn, HasReadOwn, Jump, Drift, Alert
<1> QED
  BY <1>1, <1>2 DEF Moves, Ends

(* The statements of a call leave the events of other parameters alone.    *)
LEMMA OthersEventsStay ==
  ASSUME EventsInv, NEW w \in Workers, ProcessStep(w),
         NEW q \in Parameters, q # call[w].parameter
  PROVE  AnomaliesStay(q) /\ ShownStays(q)
<1>1. CASE AlertStatement(w)
  <2>1. /\ stage[w] = "alerts" /\ WorkerStep(w) /\ anomalies' = anomalies
        /\ settled' = settled \/ settled' = settled \cup {Alert(call[w].parameter)}
    BY <1>1 DEF AlertStatement
  <2>2. job[w].parameter = call[w].parameter
    <3>1. job[w] = [parameter |-> call[w].parameter, state |-> call[w].state,
                    reading |-> call[w].reading]
      BY <2>1 DEF EventsInv, TypeInv, CallFits
    <3> QED
      BY <3>1
  <2>3. AlertsStay(q)
    BY <2>1, <2>2, OtherAlertsStay DEF EventsInv, TypeInv
  <2>4. Alert(q) \in settled' => Alert(q) \in settled
    BY <2>1, EventNames
  <2> QED
    BY <2>1, <2>3, <2>4, OwnAlertsStay DEF AnomaliesStay, ShownStays
<1>2. CASE UpdateAnomaly(w) \/ CreateAnomaly(w) \/ ResolveAnomaly(w)
  <2>1. PICK key : key = Key(w)
    OBVIOUS
  <2>2. /\ stage[w] \in InSync /\ alerts' = alerts
        /\ settled' = settled \/ settled' = settled \cup {key}
    BY <1>2, <2>1 DEF UpdateAnomaly, CreateAnomaly, ResolveAnomaly, Executed, InSync,
                      Settle, vars
  <2>3. key \in Plan(call[w].parameter)
    BY <2>1 DEF Key, Plan
  <2>4. Alert(q) # key /\ Jump(q) # key /\ Drift(q) # key
    BY <2>3, EventNames DEF Plan
  <2>5. \A k : k # key => OpenAnomalies(anomalies', k) = OpenAnomalies(anomalies, k)
    BY <1>2, <2>1, UpdateOpensNothing, CreateOpensOne, ResolveOpensNothing DEF EventsInv
  <2> QED
    BY <2>2, <2>4, <2>5 DEF AnomaliesStay, ShownStays
<1>3. CASE /\ ~ AlertStatement(w)
           /\ ~ UpdateAnomaly(w) /\ ~ CreateAnomaly(w) /\ ~ ResolveAnomaly(w)
  <2>1. anomalies' = anomalies
    BY <1>3, OnlyWritesChangeAnomalies
  <2>2. alerts' = alerts /\ settled' \subseteq settled
    BY <1>3 DEF ProcessStep, SaveTelemetryReading, ProcessAlerts, LoadActiveAlerts,
       LoadParameterHistory, LoadRiskHistory, FindOpenAnomaly, UpdateAnomalyMisses,
       CreateAnomalyIsRefused, LoadActiveAnomalies, LoadQualityWeights,
       SaveQualityIndex, WriteFails, vars
  <2> QED
    BY <2>1, <2>2 DEF AnomaliesStay, ShownStays
<1> QED
  BY <1>1, <1>2, <1>3

(* The call is not past its alerts yet, or it ends. *)
LEMMA EarlyStepCounts ==
  ASSUME OwnInv, NEW w \in Workers,
         \/ \E newer \in 0 .. MaxNewer : SaveTelemetryReading(w, newer)
         \/ AlertStatement(w) \/ CreateAnomalyIsRefused(w) \/ WriteFails(w)
  PROVE  CountsOwn(w)'
<1>1. stage'[w] \in {"idle", "alerts", "active"}
  <2>1. CASE \E newer \in 0 .. MaxNewer : SaveTelemetryReading(w, newer)
    BY <2>1 DEF SaveTelemetryReading, Fail, End, OwnInv, EventsInv, TypeInv,
                CallsAreJudged
  <2>2. CASE AlertStatement(w)
    BY <2>2 DEF AlertStatement, Fail, End, OwnInv, EventsInv, TypeInv, CallsAreJudged
  <2>3. CASE CreateAnomalyIsRefused(w) \/ WriteFails(w)
    BY <2>3 DEF CreateAnomalyIsRefused, WriteFails, Fail, End, OwnInv, EventsInv,
                TypeInv, CallsAreJudged
  <2> QED
    BY <2>1, <2>2, <2>3
<1> QED
  BY <1>1 DEF CountsOwn, InSync, AfterAlerts

LEMMA DetectionCounts ==
  ASSUME OwnInv, NEW w \in Workers,
         \/ LoadParameterHistory(w)
         \/ LoadRiskHistory(w, "pressure", "moisture")
         \/ LoadRiskHistory(w, "moisture", "drive_load")
         \/ LoadRiskHistory(w, "drive_load", "sync")
  PROVE  CountsOwn(w)'
<1>1. CASE LoadParameterHistory(w)
  <2> DEFINE detected == DetectedIn(call[w].parameter, call[w].value,
                                    HistoryByParameter(call[w].parameter))
             locals == [call[w] EXCEPT !.detected = detected]
  <2>1. /\ Executed(w, "history", "pressure", locals)
        /\ alerts' = alerts /\ settled' = settled
    BY <1>1 DEF LoadParameterHistory, vars
  <2>2. /\ RecordFits(w, call[w]) /\ call[w].parameter \in Parameters
        /\ Plan(call[w].parameter) \subseteq AnomalyKey
    BY <2>1, RunningCall DEF Executed, OwnInv, EventsInv
  <2>3. detected \in SUBSET AnomalyKey
    BY <2>2 DEF DetectedIn
  <2> HIDE DEF detected
  <2>4. locals.alerts = call[w].alerts /\ locals.parameter = call[w].parameter
    BY <2>2, <2>3, CallDetectedOnly DEF RecordFits, SameReading
  <2> HIDE DEF locals
  <2>5. Moves(w, "history", "pressure", locals)
    BY <2>1, ExecutedMoves DEF OwnInv, EventsInv, TypeInv
  <2>6. /\ "history" \in AfterAlerts
        /\ "pressure" \notin InSync /\ "pressure" \notin {"weights", "index"}
    BY DEF AfterAlerts, InSync
  <2> QED
    BY <2>1, <2>2, <2>4, <2>5, <2>6, MoveCounts
<1>2. ASSUME NEW q \in {"pressure", "moisture", "drive_load"},
             NEW next \in {"moisture", "drive_load", "sync"},
             LoadRiskHistory(w, q, next)
      PROVE  CountsOwn(w)'
  <2> DEFINE detected == IF SupportsRisk(q, HistoryByParameter(q))
                         THEN call[w].detected
                         ELSE call[w].detected \ {CombinedRisk}
             todo == IF next = "sync" THEN Plan(call[w].parameter) ELSE {}
             locals == WithPlan(call[w], detected, todo)
  <2>1. /\ Executed(w, q, next, locals)
        /\ alerts' = alerts /\ settled' = settled
    BY <1>2 DEF LoadRiskHistory, vars, WithPlan
  <2>2. /\ RecordFits(w, call[w]) /\ call[w].parameter \in Parameters
        /\ Plan(call[w].parameter) \subseteq AnomalyKey
    BY <2>1, RunningCall DEF Executed, OwnInv, EventsInv
  <2>3. detected \in SUBSET AnomalyKey /\ todo \in SUBSET AnomalyKey
    BY <2>2 DEF RecordFits
  <2>4. PICK p \in Parameters : p = call[w].parameter
    BY <2>2
  <2>5. next \in InSync => {Jump(p), Drift(p)} \ todo = {}
    BY <2>4 DEF InSync, Plan
  <2> HIDE DEF detected, todo
  <2>6. /\ locals.alerts = call[w].alerts /\ locals.parameter = p
        /\ locals.todo = todo
    BY <2>2, <2>3, <2>4, CallPlan DEF RecordFits, SameReading
  <2> HIDE DEF locals
  <2>7. Moves(w, q, next, locals)
    BY <2>1, ExecutedMoves DEF OwnInv, EventsInv, TypeInv
  <2>8. q \in AfterAlerts /\ next \notin {"weights", "index"}
    BY DEF AfterAlerts
  <2>9. next \in InSync => SyncedOwn(p, anomalies', locals)
    BY <2>5, <2>6 DEF SyncedOwn
  <2> QED
    BY <2>1, <2>4, <2>6, <2>7, <2>8, <2>9, MoveCounts
<1> QED
  BY <1>1, <1>2

(* A statement that writes an anomaly ticks its key off.                   *)
LEMMA AnomalyWriteCounts ==
  ASSUME OwnInv, NEW w \in Workers,
         UpdateAnomaly(w) \/ CreateAnomaly(w) \/ ResolveAnomaly(w)
  PROVE  CountsOwn(w)'
<1>1. PICK key : key = Key(w)
  OBVIOUS
<1>2. /\ stage[w] \in InSync /\ stage[w] # "idle" /\ alerts' = alerts
      /\ settled' = settled \/ settled' = settled \cup {key}
      /\ Executed(w, stage[w], "sync", NextKey(w))
  BY <1>1 DEF UpdateAnomaly, CreateAnomaly, ResolveAnomaly, Executed, InSync,
              Settle, vars
<1>3. /\ RecordFits(w, call[w]) /\ call[w].parameter \in Parameters
  BY <1>2, RunningCall DEF OwnInv, EventsInv
<1>4. PICK p \in Parameters : p = call[w].parameter
  BY <1>3
<1>5. Alert(p) \in settled' => Alert(p) \in settled
  <2>1. key \in Plan(p)
    BY <1>1, <1>4 DEF Key, Plan
  <2> QED
    BY <1>2, <2>1, EventNames DEF Plan
<1>6. /\ OpenAnomalies(anomalies', key) # {} <=> key \in call[w].detected
      /\ \A k : k # key => OpenAnomalies(anomalies', k) = OpenAnomalies(anomalies, k)
  <2>1. CASE UpdateAnomaly(w)
    <3>1. /\ stage[w] = "update anomaly"
          /\ anomalies[call[w].found].status = "active"
      BY <2>1 DEF UpdateAnomaly, Executed, UpdateOpenAnomalyHits
    <3>2. /\ key \in call[w].detected
          /\ call[w].found \in OpenAnomalies(anomalies, key)
      BY <1>1, <3>1, InHand DEF AnomalyInHand, OwnInv, EventsInv, OpenAnomalies
    <3> QED
      BY <2>1, <3>2, UpdateOpensNothing DEF OwnInv, EventsInv
  <2>2. CASE CreateAnomaly(w)
    <3>1. stage[w] = "create anomaly"
      BY <2>2 DEF CreateAnomaly, Executed
    <3>2. key \in call[w].detected
      BY <1>1, <3>1, InHand DEF AnomalyInHand, OwnInv, EventsInv
    <3> QED
      BY <1>1, <2>2, <3>2, CreateOpensOne DEF OwnInv, EventsInv
  <2>3. CASE ResolveAnomaly(w)
    <3>1. key \notin call[w].detected
      BY <1>1, <2>3 DEF ResolveAnomaly
    <3> QED
      BY <1>1, <2>3, <3>1, ResolveOpensNothing DEF OwnInv, EventsInv
  <2> QED
    BY <2>1, <2>2, <2>3
<1> DEFINE locals == NextKey(w)
<1>7. /\ locals.parameter = p /\ locals.alerts = call[w].alerts
      /\ locals.detected = call[w].detected /\ locals.todo = call[w].todo \ {key}
  <2>1. locals = WithoutKey(call[w], key)
    BY <1>1 DEF NextKey, WithoutKey
  <2> HIDE DEF locals
  <2> QED
    BY <1>3, <1>4, <2>1, CallTodo DEF RecordFits, SameReading
<1>8. Moves(w, stage[w], "sync", locals)
  BY <1>2, ExecutedMoves DEF OwnInv, EventsInv, TypeInv
<1> HIDE DEF locals
<1>0. ASSUME NEW k \in {Jump(p), Drift(p)} \ locals.todo
      PROVE  OpenAnomalies(anomalies', k) # {} <=> k \in locals.detected
  <2>1. CASE k = key
    BY <1>6, <1>7, <2>1
  <2>2. CASE k # key
    <3>1. k \in {Jump(p), Drift(p)} \ call[w].todo
      BY <1>7, <2>2
    <3>2. OpenAnomalies(anomalies, k) # {} <=> k \in call[w].detected
      BY <1>2, <1>4, <3>1 DEF OwnInv, CountsOwn, SyncedOwn
    <3> QED
      BY <1>6, <1>7, <2>2, <3>2
  <2> QED
    BY <2>1, <2>2
<1>9. SyncedOwn(p, anomalies', locals)
  BY <1>0 DEF SyncedOwn
<1>10. stage[w] \in AfterAlerts /\ "sync" \notin {"weights", "index"}
  BY <1>2 DEF InSync, AfterAlerts
<1> QED
  BY <1>2, <1>4, <1>5, <1>7, <1>8, <1>9, <1>10, MoveCounts

(* The reads from the alerts on, and the search before a write. *)
LEMMA LaterReadCounts ==
  ASSUME OwnInv, NEW w \in Workers,
         \/ LoadActiveAlerts(w) \/ LoadActiveAnomalies(w) \/ LoadQualityWeights(w)
         \/ SaveQualityIndex(w) \/ FindOpenAnomaly(w) \/ UpdateAnomalyMisses(w)
  PROVE  CountsOwn(w)'
<1>1. /\ UNCHANGED <<alerts, anomalies, settled>> /\ stage[w] # "idle"
  BY DEF LoadActiveAlerts, LoadActiveAnomalies, LoadQualityWeights,
         SaveQualityIndex, FindOpenAnomaly, UpdateAnomalyMisses, Executed, vars
<1>2. call[w] \in CallRecord /\ call[w].parameter \in Parameters
  BY <1>1, RunningCall DEF OwnInv, EventsInv, RecordFits
<1>3. PICK p \in Parameters : p = call[w].parameter
  BY <1>2
<1>4. CASE LoadActiveAlerts(w)
  <2> DEFINE locals == [call[w] EXCEPT !.alerts = ActiveAlerts(alerts)]
  <2>1. locals.parameter = p /\ locals.alerts = ActiveAlerts(alerts)
    BY <1>2, <1>3, ActiveAlertsType, CallAlerts
       DEF OwnInv, EventsInv, TypeInv, SameReading
  <2>2. Moves(w, "active", "history", locals)
    BY <1>4, ExecutedMoves DEF LoadActiveAlerts, OwnInv, EventsInv, TypeInv
  <2> HIDE DEF locals
  <2>3. "history" \notin InSync /\ "history" \notin {"weights", "index"}
    BY DEF InSync
  <2> QED
    BY <1>1, <1>3, <2>1, <2>2, <2>3, MoveCounts
<1>5. ASSUME stage[w] \in InSync,
             NEW to \in {"sync", "update anomaly", "create anomaly"}, NEW locals,
             Executed(w, stage[w], to, locals), locals.parameter = p,
             locals.alerts = call[w].alerts, locals.detected = call[w].detected,
             locals.todo = call[w].todo
      PROVE  CountsOwn(w)'
  <2>1. Moves(w, stage[w], to, locals)
    BY <1>5, ExecutedMoves DEF OwnInv, EventsInv, TypeInv
  <2>2. SyncedOwn(p, anomalies', locals)
    BY <1>1, <1>3, <1>5 DEF OwnInv, CountsOwn, SyncedOwn
  <2>3. stage[w] \in AfterAlerts /\ to \notin {"weights", "index"}
    BY <1>5 DEF InSync, AfterAlerts
  <2> QED
    BY <1>1, <1>3, <1>5, <2>1, <2>2, <2>3, MoveCounts
<1>6. ASSUME NEW n \in Nat
      PROVE  LET d == [call[w] EXCEPT !.found = n]
             IN  /\ d.parameter = p /\ d.alerts = call[w].alerts
                 /\ d.detected = call[w].detected /\ d.todo = call[w].todo
  BY <1>2, <1>3, CallFound DEF SameReading
<1>7. CASE UpdateAnomalyMisses(w)
  <2> DEFINE locals == [call[w] EXCEPT !.found = 0]
  <2>1. /\ stage[w] \in InSync
        /\ Executed(w, stage[w], "create anomaly", locals)
    BY <1>7 DEF UpdateAnomalyMisses, Executed, InSync
  <2>2. /\ locals.parameter = p /\ locals.alerts = call[w].alerts
        /\ locals.detected = call[w].detected /\ locals.todo = call[w].todo
    BY <1>6
  <2> HIDE DEF locals
  <2> QED
    BY <1>5, <2>1, <2>2
<1>8. CASE FindOpenAnomaly(w)
  <2>1. stage[w] \in InSync /\ stage[w] = "sync"
    BY <1>8 DEF FindOpenAnomaly, InSync
  <2>2. ASSUME NEW i \in OpenAnomalies(anomalies, Key(w)),
               Executed(w, "sync", "update anomaly", [call[w] EXCEPT !.found = i])
        PROVE  CountsOwn(w)'
    <3> DEFINE locals == [call[w] EXCEPT !.found = i]
    <3>1. i \in Nat
      BY DEF OpenAnomalies, OwnInv, EventsInv, TypeInv, TablesFit
    <3>2. /\ locals.parameter = p /\ locals.alerts = call[w].alerts
          /\ locals.detected = call[w].detected /\ locals.todo = call[w].todo
      BY <1>6, <3>1
    <3>3. Executed(w, stage[w], "update anomaly", locals)
      BY <2>1, <2>2
    <3> HIDE DEF locals
    <3> QED
      BY <1>5, <2>1, <3>2, <3>3
  <2>3. ASSUME Executed(w, "sync", "create anomaly", call[w])
        PROVE  CountsOwn(w)'
    BY <1>3, <1>5, <2>1, <2>3
  <2> QED
    BY <1>8, <2>2, <2>3 DEF FindOpenAnomaly
<1>9. CASE LoadActiveAnomalies(w)
  <2> DEFINE locals == [call[w] EXCEPT !.anomalies = ActiveAnomalies(anomalies)]
  <2>1. /\ stage[w] = "sync" /\ call[w].todo = {}
        /\ Executed(w, "sync", "weights", locals)
    BY <1>9 DEF LoadActiveAnomalies
  <2>2. /\ locals.parameter = p /\ locals.alerts = call[w].alerts
        /\ locals.anomalies = ActiveAnomalies(anomalies)
        /\ locals.detected = call[w].detected
    BY <1>2, <1>3, ActiveAnomaliesType, CallAnomalies
       DEF OwnInv, EventsInv, TypeInv, SameReading
  <2> HIDE DEF locals
  <2>3. Moves(w, "sync", "weights", locals)
    BY <2>1, ExecutedMoves DEF OwnInv, EventsInv, TypeInv
  <2>4. ASSUME NEW key \in {Jump(p), Drift(p)}
        PROVE  key \in locals.anomalies <=> key \in locals.detected
    <3>1. OpenAnomalies(anomalies, key) # {} <=> key \in call[w].detected
      BY <1>3, <2>1 DEF OwnInv, CountsOwn, SyncedOwn, InSync
    <3>2. key \in ActiveAnomalies(anomalies) <=> OpenAnomalies(anomalies, key) # {}
      BY DEF ActiveAnomalies, OpenAnomalies
    <3> QED
      BY <2>2, <3>1, <3>2
  <2>5. HasReadOwn(p, locals)
    BY <2>4 DEF HasReadOwn
  <2>6. "sync" \in AfterAlerts /\ "weights" \notin InSync
    BY DEF InSync, AfterAlerts
  <2> QED
    BY <1>1, <1>3, <2>2, <2>3, <2>5, <2>6, MoveCounts
<1>10. CASE LoadQualityWeights(w)
  <2> DEFINE locals == [call[w] EXCEPT !.weights = weights]
  <2>1. stage[w] = "weights" /\ Executed(w, "weights", "index", locals)
    BY <1>10 DEF LoadQualityWeights, Executed
  <2>2. /\ locals.parameter = p /\ locals.alerts = call[w].alerts
        /\ locals.anomalies = call[w].anomalies
        /\ locals.detected = call[w].detected
    BY <1>2, <1>3, CallWeights DEF OwnInv, EventsInv, TypeInv, TablesFit, SameReading
  <2> HIDE DEF locals
  <2>3. Moves(w, "weights", "index", locals)
    BY <2>1, ExecutedMoves DEF OwnInv, EventsInv, TypeInv
  <2>4. HasReadOwn(p, locals)
    BY <1>3, <2>1, <2>2 DEF OwnInv, CountsOwn, HasReadOwn
  <2>5. "weights" \in AfterAlerts /\ "index" \notin InSync
    BY DEF InSync, AfterAlerts
  <2> QED
    BY <1>1, <1>3, <2>2, <2>3, <2>4, <2>5, MoveCounts
<1>11. CASE SaveQualityIndex(w)
  <2>1. Moves(w, "index", "idle", NoCall)
    BY <1>11, ExecutedMoves DEF SaveQualityIndex, OwnInv, EventsInv, TypeInv
  <2>2. stage'[w] = "idle"
    BY <2>1 DEF Moves, Ends
  <2> QED
    BY <2>2 DEF CountsOwn, InSync, AfterAlerts
<1> QED
  BY <1>4, <1>7, <1>8, <1>9, <1>10, <1>11

LEMMA ProcessStepCounts ==
  ASSUME OwnInv, NEW w \in Workers, ProcessStep(w)
  PROVE  CountsOwn(w)'
<1>1. CASE \/ \E newer \in 0 .. MaxNewer : SaveTelemetryReading(w, newer)
           \/ AlertStatement(w) \/ CreateAnomalyIsRefused(w) \/ WriteFails(w)
  BY <1>1, EarlyStepCounts
<1>2. CASE \/ LoadParameterHistory(w)
           \/ LoadRiskHistory(w, "pressure", "moisture")
           \/ LoadRiskHistory(w, "moisture", "drive_load")
           \/ LoadRiskHistory(w, "drive_load", "sync")
  BY <1>2, DetectionCounts
<1>3. CASE UpdateAnomaly(w) \/ CreateAnomaly(w) \/ ResolveAnomaly(w)
  BY <1>3, AnomalyWriteCounts
<1>4. CASE \/ LoadActiveAlerts(w) \/ LoadActiveAnomalies(w) \/ LoadQualityWeights(w)
           \/ SaveQualityIndex(w) \/ FindOpenAnomaly(w) \/ UpdateAnomalyMisses(w)
  BY <1>4, LaterReadCounts
<1> QED
  BY <1>1, <1>2, <1>3, <1>4 DEF ProcessStep

LEMMA RunningStep ==
  ASSUME TypeInv, NEW w \in Workers, ProcessStep(w)
  PROVE  stage[w] # "idle"
  BY DEF ProcessStep, SaveTelemetryReading, AlertStatement, LoadActiveAlerts,
     LoadParameterHistory, LoadRiskHistory, FindOpenAnomaly, UpdateAnomaly,
     UpdateAnomalyMisses, CreateAnomaly, CreateAnomalyIsRefused, ResolveAnomaly,
     LoadActiveAnomalies, LoadQualityWeights, SaveQualityIndex, WriteFails, Executed

LEMMA OwnNext ==
  ASSUME SingleWriter, OwnInv, [ProcessNext]_allVars, NEW v \in Workers
  PROVE  CountsOwn(v)'
<1>0. TypeInv /\ EventsInv
  BY DEF OwnInv, EventsInv
<1>1. ASSUME UNCHANGED <<stage[v], call[v]>>,
             \A q \in Parameters : AnomaliesStay(q) /\ ShownStays(q)
      PROVE  CountsOwn(v)'
  BY <1>0, <1>1, RunningCall, OthersCount DEF OwnInv
<1>2. ASSUME NEW w \in Workers, ProcessStep(w)
      PROVE  CountsOwn(v)'
  <2>1. CASE v = w
    BY <1>2, <2>1, ProcessStepCounts
  <2>2. CASE v # w
    <3>1. UNCHANGED <<stage[v], call[v]>>
      BY <1>0, <1>2, <2>2, ProcessStepFrame DEF TypeInv, OthersStay
    <3>2. ASSUME stage[v] # "idle"
          PROVE  AnomaliesStay(call[v].parameter) /\ ShownStays(call[v].parameter)
      <4>1. call[v].parameter # call[w].parameter /\ call[v].parameter \in Parameters
        BY <1>0, <1>2, <2>2, <3>2, RunningStep, RunningCall, OtherParameters
      <4> QED
        BY <1>0, <1>2, <4>1, OthersEventsStay
    <3> QED
      BY <3>1, <3>2, OthersCount DEF OwnInv
  <2> QED
    BY <2>1, <2>2
<1>3. ASSUME NEW w \in Workers, NEW p \in Parameters, NEW value \in Values[p],
             Validate(w, p, value)
      PROVE  CountsOwn(v)'
  <2>1. /\ UNCHANGED <<vars, anomalies, settled>>
        /\ \E locals : call' = [call EXCEPT ![w] = locals]
        /\ stage' = [stage EXCEPT ![w] = "save"]
    BY <1>3 DEF Validate
  <2>2. stage'[w] = "save" /\ OthersStay(w)
    BY <1>0, <2>1, Moved DEF TypeInv
  <2>3. CASE v = w
    BY <2>2, <2>3 DEF CountsOwn, InSync, AfterAlerts
  <2>4. CASE v # w
    <3>1. UNCHANGED <<stage[v], call[v]>>
      BY <2>2, <2>4 DEF OthersStay
    <3>2. \A q \in Parameters : AnomaliesStay(q) /\ ShownStays(q)
      BY <2>1 DEF AnomaliesStay, ShownStays, vars
    <3> QED
      BY <1>1, <3>1, <3>2
  <2> QED
    BY <2>3, <2>4
<1>4. ASSUME NEW user \in Users, NEW i \in DOMAIN alerts, OperatorActs(user, i)
      PROVE  CountsOwn(v)'
  <2>1. UNCHANGED <<stage, call, anomalies>>
    BY <1>4 DEF OperatorActs
  <2>2. ASSUME NEW q \in Parameters PROVE AnomaliesStay(q) /\ ShownStays(q)
    <3>1. Alert(q) \in settled' => Alert(q) \in settled /\ AlertsStay(q)
      BY <1>0, <1>4, OperatorKeepsAlerts
    <3> QED
      BY <2>1, <3>1, OwnAlertsStay DEF AnomaliesStay, ShownStays
  <2> QED
    BY <1>1, <2>1, <2>2
<1>5. ASSUME UNCHANGED <<stage, call, alerts, anomalies>>, settled' \subseteq settled
      PROVE  CountsOwn(v)'
  BY <1>1, <1>5 DEF AnomaliesStay, ShownStays
<1>6. ASSUME NEW p \in Parameters,
             \/ \E k \in DOMAIN Setpoints[p] : UpdateSetpoint(p, Setpoints[p][k])
             \/ \E k \in DOMAIN Weights[p] : UpdateWeight(p, Weights[p][k])
      PROVE  CountsOwn(v)'
  BY <1>5, <1>6 DEF UpdateSetpoint, UpdateWeight, vars
<1>7. CASE UNCHANGED allVars
  BY <1>5, <1>7 DEF allVars, processVars, vars
<1> QED
  BY <1>2, <1>3, <1>4, <1>6, <1>7 DEF ProcessNext

(* An index that was overtaken may miss what other calls did, or count     *)
(* what they undid.  With one writer per parameter it counts exactly the   *)
(* jump and the drift that its own reading shows, and, as long as the      *)
(* alert stands as the call left it, the alert as the table has it:        *)
(* whatever others do between the reads of the call and its last one.      *)
THEOREM OwnEventsCounted ==
  ASSUME SingleWriter
  PROVE  ProcessSpec => []OwnEventsAreCounted
<1>1. ProcessInit => OwnInv
  <2> SUFFICES ASSUME ProcessInit PROVE OwnInv
    OBVIOUS
  <2>1. \A w \in Workers : stage[w] = "idle"
    BY DEF ProcessInit
  <2> QED
    BY <2>1, InitEventsInv DEF OwnInv, CountsOwn, InSync, AfterAlerts
<1>2. OwnInv /\ [ProcessNext]_allVars => OwnInv'
  <2> SUFFICES ASSUME OwnInv, [ProcessNext]_allVars PROVE OwnInv'
    OBVIOUS
  <2>1. EventsInv'
    BY EventsInvIsKept DEF OwnInv
  <2>2. \A v \in Workers : CountsOwn(v)'
    BY OwnNext
  <2> QED
    BY <2>1, <2>2 DEF OwnInv
<1>3. OwnInv => OwnEventsAreCounted
  BY DEF OwnInv, CountsOwn, HasReadOwn, OwnEventsAreCounted, OwnAlerts, AfterAlerts
<1> QED
  BY <1>1, <1>2, <1>3, PTL DEF ProcessSpec

-----------------------------------------------------------------------------
(***************************************************************************)
(* The combined risk, of a line with one consumer.                         *)
(***************************************************************************)

(* The history that a call reads of p speaks for a combined risk.          *)
Supported(p) == SupportsRisk(p, HistoryByParameter(p))

RiskIsSupported ==
  Supported("pressure") /\ Supported("moisture") /\ Supported("drive_load")

RiskFollows ==
  /\ CombinedRisk \in settled
  /\ OpenAnomalies(anomalies, CombinedRisk) # {}
  => RiskIsSupported

(* What a call has asked of the three histories is still what they say.    *)
RiskAgrees(w) ==
  /\ stage[w] \in BeforeSync => CombinedRisk \notin settled
  /\ stage[w] \in InSync => CombinedRisk \notin call[w].todo \cap settled
  /\ CombinedRisk \in call[w].detected =>
       /\ stage[w] \in {"moisture", "drive_load"} \cup InSync => Supported("pressure")
       /\ stage[w] \in {"drive_load"} \cup InSync => Supported("moisture")
       /\ stage[w] \in InSync => Supported("drive_load")

RiskInv ==
  /\ TypeInv
  /\ \A w \in Workers : RiskAgrees(w)
  /\ RiskFollows

RiskNext ==
  /\ \A w \in Workers : RiskAgrees(w)'
  /\ RiskFollows'

LEMMA SupportStays ==
  ASSUME windows' = windows, NEW p
  PROVE  Supported(p)' <=> Supported(p)
  BY DEF Supported, HistoryByParameter

(* The combined risk is left alone. *)
LEMMA RiskStays ==
  ASSUME RiskInv, windows' = windows,
         OpenAnomalies(anomalies', CombinedRisk) = OpenAnomalies(anomalies, CombinedRisk),
         CombinedRisk \in settled' => CombinedRisk \in settled
  PROVE  RiskFollows'
<1>1. RiskIsSupported' <=> RiskIsSupported
  BY SupportStays DEF RiskIsSupported
<1> QED
  BY <1>1 DEF RiskInv, RiskFollows, CombinedRisk

LEMMA CallsStay ==
  ASSUME RiskInv, UNCHANGED <<stage, call>>, windows' = windows,
         CombinedRisk \in settled' => CombinedRisk \in settled,
         NEW v \in Workers
  PROVE  RiskAgrees(v)'
<1>1. RiskAgrees(v)
  BY DEF RiskInv
<1>2. /\ Supported("pressure")' <=> Supported("pressure")
      /\ Supported("moisture")' <=> Supported("moisture")
      /\ Supported("drive_load")' <=> Supported("drive_load")
  BY SupportStays
<1> QED
  BY <1>1, <1>2 DEF RiskAgrees, CombinedRisk

(* A call that is not past the alerts, or at its end. *)
LEMMA EarlyCalls ==
  ASSUME SingleConsumer, NEW w \in Workers,
         stage'[w] \in {"idle", "save", "alerts", "active"},
         stage'[w] \in {"alerts", "active"} => CombinedRisk \notin settled'
  PROVE  \A v \in Workers : RiskAgrees(v)'
<1>1. RiskAgrees(w)'
  BY DEF RiskAgrees, BeforeSync, InSync, CombinedRisk
<1> QED
  BY <1>1 DEF SingleConsumer

LEMMA SaveKeepsRisk ==
  ASSUME SingleConsumer, RiskInv, NEW w \in Workers, NEW newer,
         SaveTelemetryReading(w, newer)
  PROVE  RiskNext
<1>1. CombinedRisk \notin settled'
  BY DEF SaveTelemetryReading
<1>2. stage'[w] \in {"idle", "alerts"}
  <2>1. CASE Fail(w)
    BY <2>1, FailMoves DEF Ends, RiskInv, TypeInv
  <2>2. CASE stage' = [stage EXCEPT ![w] = "alerts"]
    BY <2>2 DEF RiskInv, TypeInv, CallsAreJudged
  <2> QED
    BY <2>1, <2>2 DEF SaveTelemetryReading
<1>3. \A v \in Workers : RiskAgrees(v)'
  BY <1>1, <1>2, EarlyCalls
<1>4. RiskFollows'
  BY <1>1 DEF RiskFollows, CombinedRisk
<1> QED
  BY <1>3, <1>4 DEF RiskNext

LEMMA AlertStatementKeepsRisk ==
  ASSUME SingleConsumer, RiskInv, NEW w \in Workers, AlertStatement(w)
  PROVE  RiskNext
<1>1. /\ stage[w] = "alerts" /\ UNCHANGED <<windows, anomalies>>
      /\ settled' = settled \/ settled' = settled \cup {Alert(call[w].parameter)}
  BY DEF AlertStatement
<1>2. CombinedRisk \notin settled /\ CombinedRisk \notin settled'
  BY <1>1, EventNames DEF RiskInv, RiskAgrees, BeforeSync
<1>3. stage'[w] \in {"idle", "alerts", "active"}
  <2>1. CASE Fail(w)
    BY <2>1, FailMoves DEF Ends, RiskInv, TypeInv
  <2>2. CASE stage' = stage \/ stage' = [stage EXCEPT ![w] = "active"]
    BY <1>1, <2>2 DEF RiskInv, TypeInv, CallsAreJudged
  <2> QED
    BY <2>1, <2>2 DEF AlertStatement
<1>4. \A v \in Workers : RiskAgrees(v)'
  BY <1>2, <1>3, EarlyCalls
<1>5. RiskFollows'
  BY <1>1, <1>2, RiskStays
<1> QED
  BY <1>4, <1>5 DEF RiskNext

LEMMA EndKeepsRisk ==
  ASSUME SingleConsumer, RiskInv, NEW w \in Workers,
         UNCHANGED <<windows, anomalies, settled>>,
         stage'[w] \in {"idle", "save"}
  PROVE  RiskNext
<1>1. \A v \in Workers : RiskAgrees(v)'
  BY EarlyCalls
<1>2. RiskFollows'
  BY RiskStays
<1> QED
  BY <1>1, <1>2 DEF RiskNext

(* The steps that read, from detection on. *)
LEMMA ReadKeepsRisk ==
  ASSUME SingleConsumer, RiskInv, NEW w \in Workers, NEW from, NEW to, NEW locals,
         Moves(w, from, to, locals), UNCHANGED <<windows, anomalies, settled>>,
         to \in BeforeSync => from \in BeforeSync,
         to \in InSync => \/ from \in BeforeSync
                          \/ from \in InSync /\ locals.todo \subseteq call[w].todo,
         CombinedRisk \in locals.detected =>
           /\ to \in {"moisture", "drive_load"} \cup InSync => Supported("pressure")
           /\ to \in {"drive_load"} \cup InSync => Supported("moisture")
           /\ to \in InSync => Supported("drive_load")
  PROVE  RiskNext
<1>1. CASE stage'[w] = "idle"
  BY <1>1, EndKeepsRisk
<1>2. CASE stage'[w] = to /\ call'[w] = locals
  <2>1. RiskAgrees(w) /\ stage[w] = from
    BY DEF RiskInv, Moves
  <2>2. /\ Supported("pressure")' <=> Supported("pressure")
        /\ Supported("moisture")' <=> Supported("moisture")
        /\ Supported("drive_load")' <=> Supported("drive_load")
    BY SupportStays
  <2>3. to \in BeforeSync => CombinedRisk \notin settled
    BY <2>1 DEF RiskAgrees
  <2>4. to \in InSync => CombinedRisk \notin locals.todo \cap settled
    BY <2>1 DEF RiskAgrees
  <2>5. RiskAgrees(w)'
    BY <1>2, <2>2, <2>3, <2>4 DEF RiskAgrees, CombinedRisk
  <2>6. RiskFollows'
    BY RiskStays
  <2> QED
    BY <2>5, <2>6 DEF RiskNext, SingleConsumer
<1> QED
  BY <1>1, <1>2 DEF Moves, Ends

LEMMA ParameterHistoryKeepsRisk ==
  ASSUME SingleConsumer, RiskInv, NEW w \in Workers, LoadParameterHistory(w)
  PROVE  RiskNext
<1> DEFINE locals == [call[w] EXCEPT !.detected =
                        DetectedIn(call[w].parameter, call[w].value,
                                   HistoryByParameter(call[w].parameter))]
<1>1. /\ Executed(w, "history", "pressure", locals)
      /\ UNCHANGED <<windows, anomalies, settled>>
  BY DEF LoadParameterHistory
<1> HIDE DEF locals
<1>2. Moves(w, "history", "pressure", locals)
  BY <1>1, ExecutedMoves DEF RiskInv, TypeInv
<1>3. /\ "history" \in BeforeSync
      /\ "pressure" \notin InSync /\ "pressure" \notin {"moisture", "drive_load"}
  BY DEF BeforeSync, InSync
<1> QED
  BY <1>1, <1>2, <1>3, ReadKeepsRisk

LEMMA RiskHistoryKeepsRisk ==
  ASSUME SingleConsumer, RiskInv, NEW w \in Workers,
         NEW q, NEW next,
         \/ q = "pressure" /\ next = "moisture"
         \/ q = "moisture" /\ next = "drive_load"
         \/ q = "drive_load" /\ next = "sync",
         LoadRiskHistory(w, q, next)
  PROVE  RiskNext
<1> DEFINE detected == IF SupportsRisk(q, HistoryByParameter(q))
                       THEN call[w].detected
                       ELSE call[w].detected \ {CombinedRisk}
           todo == IF next = "sync" THEN Plan(call[w].parameter) ELSE {}
           locals == WithPlan(call[w], detected, todo)
<1>1. /\ Executed(w, q, next, locals)
      /\ UNCHANGED <<windows, anomalies, settled>>
  BY DEF LoadRiskHistory, WithPlan
<1>2. stage[w] = q /\ q \in BeforeSync /\ stage[w] # "idle"
  BY <1>1 DEF Executed, BeforeSync
<1>3. /\ RecordFits(w, call[w])
      /\ Plan(call[w].parameter) \subseteq AnomalyKey
  BY <1>2, RunningCall DEF RiskInv
<1>4. detected \in SUBSET AnomalyKey /\ todo \in SUBSET AnomalyKey
  BY <1>3 DEF RecordFits
<1>5. CombinedRisk \in detected => CombinedRisk \in call[w].detected /\ Supported(q)
  BY DEF Supported
<1> HIDE DEF detected, todo
<1>6. locals.detected = detected
  BY <1>3, <1>4, CallPlan DEF RecordFits
<1> HIDE DEF locals
<1>7. Moves(w, q, next, locals)
  BY <1>1, ExecutedMoves DEF RiskInv, TypeInv
<1>8. RiskAgrees(w)
  BY DEF RiskInv
<1>9. CombinedRisk \in locals.detected =>
        /\ next \in {"moisture", "drive_load"} \cup InSync => Supported("pressure")
        /\ next \in {"drive_load"} \cup InSync => Supported("moisture")
        /\ next \in InSync => Supported("drive_load")
  BY <1>2, <1>5, <1>6, <1>8 DEF RiskAgrees, InSync
<1> QED
  BY <1>1, <1>2, <1>7, <1>9, ReadKeepsRisk

(* What a call has detected is not changed by what it does later. *)
LEMMA LaterReadKeepsRisk ==
  ASSUME SingleConsumer, RiskInv, NEW w \in Workers, NEW from, NEW to, NEW locals,
         Executed(w, from, to, locals),
         UNCHANGED <<windows, anomalies, settled>>,
         from \in InSync \cup {"active", "weights", "index"},
         to \in InSync \cup {"history", "weights", "index", "idle"},
         to = "history" <=> from = "active",
         to \in InSync => /\ from \in InSync
                          /\ locals.detected = call[w].detected
                          /\ locals.todo = call[w].todo
  PROVE  RiskNext
<1>1. Moves(w, from, to, locals)
  BY ExecutedMoves DEF RiskInv, TypeInv
<1>2. /\ stage[w] = from
      /\ to \in BeforeSync => from \in BeforeSync
      /\ to \notin {"moisture", "drive_load"}
  BY <1>1 DEF Moves, InSync, BeforeSync
<1>3. RiskAgrees(w)
  BY DEF RiskInv
<1>4. to \in InSync => /\ from \in InSync /\ locals.todo \subseteq call[w].todo
                       /\ CombinedRisk \in locals.detected => RiskIsSupported
  BY <1>2, <1>3 DEF RiskAgrees, RiskIsSupported
<1> QED
  BY <1>1, <1>2, <1>4, ReadKeepsRisk DEF RiskIsSupported

LEMMA LaterReadsKeepRisk ==
  ASSUME SingleConsumer, RiskInv, NEW w \in Workers,
         \/ LoadActiveAlerts(w) \/ LoadActiveAnomalies(w) \/ LoadQualityWeights(w)
         \/ SaveQualityIndex(w) \/ FindOpenAnomaly(w) \/ UpdateAnomalyMisses(w)
  PROVE  RiskNext
<1>1. /\ UNCHANGED <<windows, anomalies, settled>>
      /\ stage[w] # "idle"
  BY DEF LoadActiveAlerts, LoadActiveAnomalies, LoadQualityWeights,
         SaveQualityIndex,
         FindOpenAnomaly, UpdateAnomalyMisses, Executed
<1>2. call[w] \in CallRecord
  BY <1>1, RunningCall DEF RiskInv, RecordFits
<1>3. ASSUME NEW locals,
             \/ Executed(w, "active", "history", locals)
             \/ Executed(w, "sync", "weights", locals)
             \/ Executed(w, "weights", "index", locals)
             \/ Executed(w, "index", "idle", locals)
      PROVE  RiskNext
  <2>1. /\ "history" \notin InSync /\ "weights" \notin InSync
        /\ "index" \notin InSync /\ "idle" \notin InSync /\ "sync" \in InSync
    BY DEF InSync
  <2> QED
    BY <1>1, <1>3, <2>1, LaterReadKeepsRisk
<1>4. CASE \/ LoadActiveAlerts(w) \/ LoadActiveAnomalies(w) \/ LoadQualityWeights(w)
           \/ SaveQualityIndex(w)
  BY <1>3, <1>4 DEF LoadActiveAlerts, LoadActiveAnomalies, LoadQualityWeights,
                    SaveQualityIndex
<1>5. ASSUME NEW n \in Nat, NEW from \in InSync, NEW to \in InSync,
             Executed(w, from, to, [call[w] EXCEPT !.found = n])
      PROVE  RiskNext
  <2> DEFINE locals == [call[w] EXCEPT !.found = n]
  <2>1. locals.detected = call[w].detected /\ locals.todo = call[w].todo
    BY <1>2, CallFound
  <2>2. Executed(w, from, to, locals)
    BY <1>5
  <2> HIDE DEF locals
  <2>3. from # "active" /\ to # "history"
    BY DEF InSync
  <2> QED
    BY <1>1, <2>1, <2>2, <2>3, LaterReadKeepsRisk
<1>6. "sync" \in InSync /\ "update anomaly" \in InSync /\ "create anomaly" \in InSync
  BY DEF InSync
<1>7. CASE UpdateAnomalyMisses(w)
  BY <1>5, <1>6, <1>7 DEF UpdateAnomalyMisses
<1>8. CASE FindOpenAnomaly(w)
  <2>1. \A i \in OpenAnomalies(anomalies, Key(w)) : i \in Nat
    BY DEF OpenAnomalies, RiskInv, TypeInv, TablesFit
  <2>2. ASSUME Executed(w, "sync", "create anomaly", call[w])
        PROVE  RiskNext
    BY <1>1, <1>6, <2>2, LaterReadKeepsRisk
  <2> QED
    BY <1>5, <1>6, <1>8, <2>1, <2>2 DEF FindOpenAnomaly
<1> QED
  BY <1>4, <1>7, <1>8

LEMMA AnomalyWriteKeepsRisk ==
  ASSUME SingleConsumer, RiskInv, NEW w \in Workers, NEW from,
         from \in {"sync", "update anomaly", "create anomaly"},
         Executed(w, from, "sync", NextKey(w)), Settle(w),
         windows' = windows,
         NEW key, key = Key(w),
         OpenAnomalies(anomalies', key) # {} => key \in call[w].detected,
         \A k : k # key => OpenAnomalies(anomalies', k) = OpenAnomalies(anomalies, k)
  PROVE  RiskNext
<1>1. stage[w] = from /\ from \in InSync /\ stage[w] # "idle"
  BY DEF Executed, InSync
<1>2. call[w] \in CallRecord
  BY <1>1, RunningCall DEF RiskInv, RecordFits
<1>3. RiskAgrees(w)
  BY DEF RiskInv
<1>4. CombinedRisk \in call[w].detected => RiskIsSupported
  BY <1>1, <1>3 DEF RiskAgrees, RiskIsSupported
<1>5. \A k : k \in settled' /\ k # key => k \in settled
  BY DEF Settle
<1>6. RiskFollows'
  <2>1. CASE key = CombinedRisk
    <3>1. RiskIsSupported' <=> RiskIsSupported
      BY SupportStays DEF RiskIsSupported
    <3> QED
      BY <1>4, <2>1, <3>1 DEF RiskFollows, CombinedRisk
  <2>2. CASE key # CombinedRisk
    BY <1>5, <2>2, RiskStays
  <2> QED
    BY <2>1, <2>2
<1> DEFINE locals == NextKey(w)
<1>7. locals.detected = call[w].detected /\ locals.todo = call[w].todo \ {key}
  <2>1. locals = WithoutKey(call[w], key)
    BY DEF NextKey, WithoutKey
  <2> HIDE DEF locals
  <2> QED
    BY <1>2, <2>1, CallTodo
<1>8. Moves(w, from, "sync", locals)
  BY ExecutedMoves DEF RiskInv, TypeInv
<1> HIDE DEF locals
<1>9. RiskAgrees(w)'
  <2>1. CASE stage'[w] = "idle"
    BY <2>1 DEF RiskAgrees, BeforeSync, InSync
  <2>2. CASE stage'[w] = "sync" /\ call'[w] = locals
    <3>1. CombinedRisk \notin call'[w].todo \cap settled'
      BY <1>1, <1>3, <1>5, <1>7, <2>2 DEF RiskAgrees
    <3>2. CombinedRisk \in call'[w].detected => RiskIsSupported
      BY <1>4, <1>7, <2>2
    <3>3. /\ Supported("pressure")' <=> Supported("pressure")
          /\ Supported("moisture")' <=> Supported("moisture")
          /\ Supported("drive_load")' <=> Supported("drive_load")
      BY SupportStays
    <3> QED
      BY <2>2, <3>1, <3>2, <3>3
         DEF RiskAgrees, RiskIsSupported, BeforeSync, CombinedRisk
  <2> QED
    BY <1>8, <2>1, <2>2 DEF Moves, Ends
<1> QED
  BY <1>6, <1>9 DEF RiskNext, SingleConsumer

LEMMA AnomalyWritesKeepRisk ==
  ASSUME SingleConsumer, RiskInv, NEW w \in Workers,
         UpdateAnomaly(w) \/ CreateAnomaly(w) \/ ResolveAnomaly(w)
  PROVE  RiskNext
<1>1. PICK key : key = Key(w)
  OBVIOUS
<1>2. CASE UpdateAnomaly(w)
  <2>1. /\ Executed(w, "update anomaly", "sync", NextKey(w)) /\ Settle(w)
        /\ windows' = windows /\ stage[w] = "update anomaly"
    BY <1>2 DEF UpdateAnomaly, Executed
  <2>2. key \in call[w].detected
    BY <1>1, <2>1, InHand DEF AnomalyInHand, RiskInv
  <2>3. \A k : OpenAnomalies(anomalies', k) = OpenAnomalies(anomalies, k)
    BY <1>2, UpdateOpensNothing DEF RiskInv
  <2> QED
    BY <1>1, <2>1, <2>2, <2>3, AnomalyWriteKeepsRisk
<1>3. CASE CreateAnomaly(w)
  <2>1. /\ Executed(w, "create anomaly", "sync", NextKey(w)) /\ Settle(w)
        /\ windows' = windows /\ stage[w] = "create anomaly"
    BY <1>3 DEF CreateAnomaly, Executed
  <2>2. key \in call[w].detected
    BY <1>1, <2>1, InHand DEF AnomalyInHand, RiskInv
  <2>3. \A k : k # key => OpenAnomalies(anomalies', k) = OpenAnomalies(anomalies, k)
    BY <1>1, <1>3, CreateOpensOne DEF RiskInv
  <2> QED
    BY <1>1, <2>1, <2>2, <2>3, AnomalyWriteKeepsRisk
<1>4. CASE ResolveAnomaly(w)
  <2>1. /\ Executed(w, "sync", "sync", NextKey(w)) /\ Settle(w)
        /\ windows' = windows
    BY <1>4 DEF ResolveAnomaly
  <2>2. /\ OpenAnomalies(anomalies', key) = {}
        /\ \A k : k # key =>
             OpenAnomalies(anomalies', k) = OpenAnomalies(anomalies, k)
    BY <1>1, <1>4, ResolveOpensNothing DEF RiskInv
  <2> QED
    BY <1>1, <2>1, <2>2, AnomalyWriteKeepsRisk
<1> QED
  BY <1>2, <1>3, <1>4

LEMMA ProcessStepKeepsRisk ==
  ASSUME SingleConsumer, RiskInv, NEW w \in Workers, ProcessStep(w)
  PROVE  RiskNext
<1>1. CASE \E newer \in 0..MaxNewer : SaveTelemetryReading(w, newer)
  BY <1>1, SaveKeepsRisk
<1>2. CASE AlertStatement(w) \/ LoadParameterHistory(w)
  BY <1>2, AlertStatementKeepsRisk, ParameterHistoryKeepsRisk
<1>3. CASE \/ LoadRiskHistory(w, "pressure", "moisture")
           \/ LoadRiskHistory(w, "moisture", "drive_load")
           \/ LoadRiskHistory(w, "drive_load", "sync")
  BY <1>3, RiskHistoryKeepsRisk
<1>4. CASE \/ LoadActiveAlerts(w) \/ LoadActiveAnomalies(w) \/ LoadQualityWeights(w)
           \/ SaveQualityIndex(w) \/ FindOpenAnomaly(w) \/ UpdateAnomalyMisses(w)
  BY <1>4, LaterReadsKeepRisk
<1>5. CASE UpdateAnomaly(w) \/ CreateAnomaly(w) \/ ResolveAnomaly(w)
  BY <1>5, AnomalyWritesKeepRisk
<1>6. CASE CreateAnomalyIsRefused(w) \/ WriteFails(w)
  <2>1. End(w) /\ UNCHANGED <<windows, anomalies, settled>>
    BY <1>6 DEF CreateAnomalyIsRefused, WriteFails, Fail
  <2>2. stage'[w] = "idle"
    BY <2>1, EndMoves DEF RiskInv, TypeInv
  <2> QED
    BY <2>1, <2>2, EndKeepsRisk
<1> QED
  BY <1>1, <1>2, <1>3, <1>4, <1>5, <1>6 DEF ProcessStep

LEMMA RiskInvIsKept ==
  ASSUME SingleConsumer, RiskInv, [ProcessNext]_allVars
  PROVE  RiskInv'
<1>1. TypeInv'
  BY ProcessNextFits DEF RiskInv
<1>2. ASSUME NEW w \in Workers, NEW p \in Parameters, NEW value \in Values[p],
             Validate(w, p, value)
      PROVE  RiskNext
  <2>1. /\ UNCHANGED <<windows, anomalies, settled>>
        /\ stage' = [stage EXCEPT ![w] = "save"]
    BY <1>2 DEF Validate
  <2>2. stage'[w] = "save"
    BY <2>1 DEF RiskInv, TypeInv, CallsAreJudged
  <2> QED
    BY <2>1, <2>2, EndKeepsRisk
<1>3. ASSUME NEW w \in Workers, ProcessStep(w)
      PROVE  RiskNext
  BY <1>3, ProcessStepKeepsRisk
<1>4. ASSUME UNCHANGED <<stage, call, windows, anomalies>>, settled' \subseteq settled
      PROVE  RiskNext
  BY <1>4, CallsStay, RiskStays DEF RiskNext
<1>5. ASSUME NEW user \in Users, NEW i \in DOMAIN alerts, OperatorActs(user, i)
      PROVE  RiskNext
  <2>1. settled' \subseteq settled /\ UNCHANGED <<stage, call, windows, anomalies>>
    BY <1>5 DEF OperatorActs
  <2> QED
    BY <1>4, <2>1
<1>6. ASSUME NEW p \in Parameters,
             \/ \E k \in DOMAIN Setpoints[p] : UpdateSetpoint(p, Setpoints[p][k])
             \/ \E k \in DOMAIN Weights[p] : UpdateWeight(p, Weights[p][k])
      PROVE  RiskNext
  BY <1>4, <1>6 DEF UpdateSetpoint, UpdateWeight
<1>7. ASSUME UNCHANGED allVars
      PROVE  RiskNext
  BY <1>4, <1>7 DEF allVars, processVars
<1>8. RiskNext
  BY <1>2, <1>3, <1>5, <1>6, <1>7 DEF ProcessNext
<1> QED
  BY <1>1, <1>8 DEF RiskInv, RiskNext

LEMMA InitRiskInv == ProcessInit => RiskInv
<1> SUFFICES ASSUME ProcessInit PROVE RiskInv
  OBVIOUS
<1>1. settled = {} /\ \A w \in Workers : stage[w] = "idle"
  BY DEF ProcessInit
<1>2. RiskFollows
  BY <1>1 DEF RiskFollows
<1>3. ASSUME NEW w \in Workers PROVE RiskAgrees(w)
  BY <1>1 DEF RiskAgrees, BeforeSync, InSync
<1> QED
  BY <1>2, <1>3, ProcessInitFits DEF RiskInv

(* What counts for the combined risk is a drift of moisture and of the     *)
(* drive load.                                                             *)
LEMMA SupportIsDrift ==
  ASSUME NEW p \in {"moisture", "drive_load"}, Supported(p)
  PROVE  p \in Parameters /\ DetectDrift(p, windows[p])
<1>1. PICK history : history = HistoryByParameter(p)
  OBVIOUS
<1>2. \/ p = "moisture" /\ Falls(history, 3)
      \/ p = "drive_load" /\ Rises(history, 10)
  BY <1>1 DEF Supported, SupportsRisk
<1>3. Len(history) >= DriftWindow
  BY <1>2 DEF Falls, Rises
<1>4. history # << >>
  BY <1>3 DEF DriftWindow
<1>5. p \in Parameters /\ history = windows[p]
  BY <1>1, <1>4 DEF HistoryByParameter
<1>6. DriftThreshold("moisture") = 3 /\ DriftThreshold("drive_load") = 10
  BY DEF DriftThreshold, Temperatures
<1> QED
  BY <1>2, <1>5, <1>6 DEF DetectDrift, RisingParameters

(* With one consumer, a combined risk that is open once a call has dealt   *)
(* with it is explained by the drifts of moisture and drive load, which    *)
(* are open too: the four histories are read one after the other, and      *)
(* detectCombinedRisk has thresholds of its own.                           *)
THEOREM CombinedRiskIsExplained ==
  ASSUME SingleConsumer
  PROVE  ProcessSpec => []CombinedRiskNeedsDrifts
<1>1. RiskInv /\ [ProcessNext]_allVars => RiskInv'
  BY RiskInvIsKept
<1>2. SingleWriter
  BY DEF SingleConsumer, SingleWriter
<1>3. EventsInv /\ RiskInv => CombinedRiskNeedsDrifts
  <2> SUFFICES ASSUME EventsInv, RiskInv,
                      CombinedRisk \in settled,
                      OpenAnomalies(anomalies, CombinedRisk) # {},
                      NEW p \in {"moisture", "drive_load"}, Drift(p) \in settled
               PROVE  OpenAnomalies(anomalies, Drift(p)) # {}
    BY DEF CombinedRiskNeedsDrifts
  <2>1. Supported(p)
    BY DEF RiskInv, RiskFollows, RiskIsSupported
  <2>2. p \in Parameters /\ DetectDrift(p, windows[p])
    BY <2>1, SupportIsDrift
  <2> QED
    BY <2>2 DEF EventsInv, Follows, DriftFollows
<1> QED
  BY <1>1, <1>2, <1>3, InitRiskInv, EventsInvHolds, PTL DEF ProcessSpec

=============================================================================
