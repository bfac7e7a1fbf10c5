--------------------------- MODULE ProcessProofs ----------------------------
(***************************************************************************)
(* The saved index and the anomalies: what a call has read of the tables   *)
(* when it writes, statement by statement, without a transaction; and how  *)
(* long a call is.                                                         *)
(***************************************************************************)
EXTENDS TelemetryProofs, FiniteSetTheorems

(***************************************************************************)
(* The saved index.                                                        *)
(***************************************************************************)

AfterAlerts ==
  { "history", "pressure", "moisture", "drive_load", "sync", "update anomaly",
    "create anomaly", "weights", "index" }

(* Until somebody else changes the tables, what a call has read of them is *)
(* what they hold; in any case it is finite.                               *)
ReadsAreCurrent(w) ==
  /\ w \notin overtaken =>
       /\ stage[w] \in AfterAlerts => call[w].alerts = ActiveAlerts(alerts)
       /\ stage[w] \in {"weights", "index"} =>
            call[w].anomalies = ActiveAnomalies(anomalies)
       /\ stage[w] = "index" => call[w].weights = weights
  /\ stage[w] \in AfterAlerts => IsFiniteSet(call[w].alerts)
  /\ stage[w] \in {"weights", "index"} => IsFiniteSet(call[w].anomalies)

IndexInv == TypeInv /\ \A w \in Workers : ReadsAreCurrent(w)

(* Who changes the tables overtakes the calls of the other workers. *)
OnlyOthersOvertaken(w) ==
  /\ \A v \in Workers \ {w} : v \notin overtaken' =>
       v \notin overtaken /\ UNCHANGED <<alerts, anomalies, weights>>
  /\ w \notin overtaken' => w \notin overtaken

(* An image of some of the rows of a table is finite. *)
LEMMA FiniteImage ==
  ASSUME NEW table, NEW S, table \in Seq(S), NEW I, I \subseteq DOMAIN table,
         NEW f, f = [i \in I |-> f[i]],
         NEW T, \A y \in T : \E i \in I : y = f[i], \A i \in I : f[i] \in T
  PROVE  IsFiniteSet(T)
<1>1. PICK n \in Nat : n = Len(table)
  OBVIOUS
<1>2. DOMAIN table = 1 .. n
  BY <1>1
<1>3. IsFiniteSet(I)
  BY <1>2, FS_Interval, FS_Subset
<1>4. f \in Surjection(I, T)
  BY DEF Surjection
<1> QED
  BY <1>3, <1>4, FS_Surjection

LEMMA ActiveAlertsAreFinite ==
  ASSUME TypeOK
  PROVE  IsFiniteSet(ActiveAlerts(alerts))
<1>I. PICK I : I = Active(alerts)
  OBVIOUS
<1>f. PICK f : f = [i \in I |-> [parameter |-> alerts[i].parameter,
                                 level |-> alerts[i].level]]
  OBVIOUS
<1>1. I \subseteq DOMAIN alerts /\ alerts \in Seq(AlertRow)
  BY <1>I DEF Active, LatestOpenAlert, OpenAlerts, TypeOK
<1>2. /\ \A y \in ActiveAlerts(alerts) : \E i \in I : y = f[i]
      /\ \A i \in I : f[i] \in ActiveAlerts(alerts)
  BY <1>I, <1>f DEF ActiveAlerts
<1>3. f = [i \in I |-> f[i]]
  BY <1>f
<1> QED
  BY <1>1, <1>2, <1>3, FiniteImage

LEMMA ActiveAnomaliesAreFinite ==
  ASSUME TablesFit
  PROVE  IsFiniteSet(ActiveAnomalies(anomalies))
<1>I. PICK I : I = {k \in DOMAIN anomalies : anomalies[k].status = "active"}
  OBVIOUS
<1>f. PICK f : f = [i \in I |-> anomalies[i].key]
  OBVIOUS
<1>1. I \subseteq DOMAIN anomalies /\ anomalies \in Seq(AnomalyRow)
  BY <1>I DEF TablesFit
<1>2. /\ \A y \in ActiveAnomalies(anomalies) : \E i \in I : y = f[i]
      /\ \A i \in I : f[i] \in ActiveAnomalies(anomalies)
  BY <1>I, <1>f DEF ActiveAnomalies
<1>3. f = [i \in I |-> f[i]]
  BY <1>f
<1> QED
  BY <1>1, <1>2, <1>3, FiniteImage

LEMMA OthersReadsStay ==
  ASSUME NEW v, ReadsAreCurrent(v), UNCHANGED <<stage[v], call[v]>>,
         v \notin overtaken' => /\ v \notin overtaken
                                /\ UNCHANGED <<alerts, anomalies, weights>>
  PROVE  ReadsAreCurrent(v)'
  BY DEF ReadsAreCurrent

(* A step that adds nothing to what the call has read. *)
LEMMA ReadsStay ==
  ASSUME IndexInv, NEW w \in Workers, NEW from, NEW to, NEW locals,
         Moves(w, from, to, locals),
         OnlyOthersOvertaken(w),
         to \in AfterAlerts =>
           from \in AfterAlerts /\ locals.alerts = call[w].alerts /\ alerts' = alerts,
         to \notin {"weights", "index"},
         NEW v \in Workers
  PROVE  ReadsAreCurrent(v)'
<1>1. CASE v # w
  BY <1>1, OthersReadsStay DEF IndexInv, Moves, OthersStay, OnlyOthersOvertaken
<1>2. CASE v = w
  BY <1>2
     DEF IndexInv, Moves, Ends, ReadsAreCurrent, AfterAlerts, OnlyOthersOvertaken
<1> QED
  BY <1>1, <1>2

(* A worker that is not, or no longer, past the alerts. *)
LEMMA EarlyReadsStay ==
  ASSUME IndexInv, NEW w \in Workers, OthersStay(w), stage'[w] \notin AfterAlerts,
         OnlyOthersOvertaken(w),
         NEW v \in Workers
  PROVE  ReadsAreCurrent(v)'
<1>1. CASE v # w
  BY <1>1, OthersReadsStay DEF IndexInv, OthersStay, OnlyOthersOvertaken
<1>2. CASE v = w
  BY <1>2 DEF ReadsAreCurrent, AfterAlerts
<1> QED
  BY <1>1, <1>2

LEMMA OvertakesOthers ==
  ASSUME NEW w \in Workers, Overtake(w), weights' = weights
  PROVE  OnlyOthersOvertaken(w)
  BY DEF Overtake, OnlyOthersOvertaken

LEMMA NothingOvertaken ==
  ASSUME UNCHANGED <<alerts, anomalies, weights, overtaken>>, NEW w
  PROVE  OnlyOthersOvertaken(w)
  BY DEF OnlyOthersOvertaken

LEMMA EarlyStepsKeepReads ==
  ASSUME IndexInv, NEW w \in Workers, NEW v \in Workers,
         \/ \E p \in Parameters : \E value \in Values[p] : Validate(w, p, value)
         \/ \E newer \in 0 .. MaxNewer : SaveTelemetryReading(w, newer)
         \/ AlertStatement(w)
         \/ CreateAnomalyIsRefused(w)
         \/ WriteFails(w)
  PROVE  ReadsAreCurrent(v)'
<1>0. CallsAreJudged
  BY DEF IndexInv, TypeInv
<1>1. ASSUME NEW p \in Parameters, NEW value \in Values[p], Validate(w, p, value)
      PROVE  ReadsAreCurrent(v)'
  <2>1. /\ stage' = [stage EXCEPT ![w] = "save"]
        /\ \E locals : call' = [call EXCEPT ![w] = locals]
        /\ UNCHANGED <<alerts, anomalies, weights, overtaken>>
    BY <1>1 DEF Validate, vars
  <2>2. stage'[w] = "save" /\ OthersStay(w)
    BY <1>0, <2>1, Moved
  <2> QED
    BY <2>1, <2>2, NothingOvertaken, EarlyReadsStay DEF AfterAlerts
<1>2. ASSUME NEW newer \in 0 .. MaxNewer, SaveTelemetryReading(w, newer)
      PROVE  ReadsAreCurrent(v)'
  <2>1. UNCHANGED <<alerts, anomalies, weights, overtaken>>
    BY <1>2 DEF SaveTelemetryReading, ProcessAlerts, vars
  <2>2. stage'[w] \notin AfterAlerts /\ OthersStay(w)
    <3>1. CASE Fail(w)
      BY <1>0, <3>1, FailMoves DEF Ends, AfterAlerts
    <3>2. CASE /\ stage' = [stage EXCEPT ![w] = "alerts"]
               /\ call' = [call EXCEPT ![w].reading = clock', ![w].newest = newer = 0]
      <4> DEFINE locals == AsSaved(call[w], clock', newer = 0)
      <4>1. /\ stage' = [stage EXCEPT ![w] = "alerts"]
            /\ call' = [call EXCEPT ![w] = locals]
        BY <1>0, <3>2 DEF AsSaved, CallsAreJudged
      <4> HIDE DEF locals
      <4>2. stage'[w] = "alerts" /\ OthersStay(w)
        BY <1>0, <4>1, Moved
      <4> QED
        BY <4>2 DEF AfterAlerts
    <3> QED
      BY <1>2, <3>1, <3>2 DEF SaveTelemetryReading
  <2> QED
    BY <2>1, <2>2, NothingOvertaken, EarlyReadsStay
<1>3. CASE AlertStatement(w)
  <2>1. Overtake(w) /\ weights' = weights /\ stage[w] = "alerts"
    BY <1>3 DEF AlertStatement
  <2>2. stage'[w] \notin AfterAlerts /\ OthersStay(w)
    <3>1. CASE UNCHANGED <<stage, call>>
      BY <2>1, <3>1 DEF OthersStay, AfterAlerts
    <3>2. CASE stage' = [stage EXCEPT ![w] = "active"] /\ UNCHANGED call
      BY <1>0, <3>2 DEF OthersStay, AfterAlerts, CallsAreJudged
    <3>3. CASE Fail(w)
      BY <1>0, <3>3, FailMoves DEF Ends, AfterAlerts
    <3> QED
      BY <1>3, <3>1, <3>2, <3>3 DEF AlertStatement
  <2> QED
    BY <2>1, <2>2, OvertakesOthers, EarlyReadsStay
<1>4. CASE CreateAnomalyIsRefused(w) \/ WriteFails(w)
  <2>1. End(w) /\ UNCHANGED <<alerts, anomalies, weights, overtaken>>
    BY <1>4 DEF CreateAnomalyIsRefused, WriteFails, Fail, vars
  <2>2. stage'[w] \notin AfterAlerts /\ OthersStay(w)
    BY <1>0, <2>1, EndMoves DEF AfterAlerts
  <2> QED
    BY <2>1, <2>2, NothingOvertaken, EarlyReadsStay
<1> QED
  BY <1>1, <1>2, <1>3, <1>4

LEMMA LoadActiveAlertsReads ==
  ASSUME IndexInv, NEW w \in Workers, LoadActiveAlerts(w), NEW v \in Workers
  PROVE  ReadsAreCurrent(v)'
<1> DEFINE locals == [call[w] EXCEPT !.alerts = ActiveAlerts(alerts)]
<1>1. /\ Executed(w, "active", "history", locals)
      /\ overtaken' = overtaken \ {w}
      /\ UNCHANGED <<alerts, anomalies, weights>>
  BY DEF LoadActiveAlerts, vars
<1>2. RecordFits(w, call[w])
  BY <1>1, RunningCall DEF Executed, IndexInv
<1>3. locals.alerts = ActiveAlerts(alerts)
  BY <1>2, ActiveAlertsType, CallAlerts DEF IndexInv, TypeInv, RecordFits
<1>0. IsFiniteSet(locals.alerts)
  BY <1>3, ActiveAlertsAreFinite DEF IndexInv, TypeInv
<1> HIDE DEF locals
<1>4. Moves(w, "active", "history", locals)
  BY <1>1, ExecutedMoves DEF IndexInv, TypeInv
<1>5. CASE v # w
  BY <1>1, <1>4, <1>5, OthersReadsStay DEF IndexInv, Moves, OthersStay
<1>6. CASE v = w
  BY <1>0, <1>1, <1>3, <1>4, <1>6 DEF Moves, Ends, ReadsAreCurrent, AfterAlerts
<1> QED
  BY <1>5, <1>6

LEMMA DetectionKeepsReads ==
  ASSUME IndexInv, NEW w \in Workers, NEW v \in Workers,
         \/ LoadParameterHistory(w)
         \/ LoadRiskHistory(w, "pressure", "moisture")
         \/ LoadRiskHistory(w, "moisture", "drive_load")
         \/ LoadRiskHistory(w, "drive_load", "sync")
  PROVE  ReadsAreCurrent(v)'
<1>1. CASE LoadParameterHistory(w)
  <2> DEFINE detected == DetectedIn(call[w].parameter, call[w].value,
                                    HistoryByParameter(call[w].parameter))
             locals == [call[w] EXCEPT !.detected = detected]
  <2>1. /\ Executed(w, "history", "pressure", locals)
        /\ UNCHANGED <<alerts, anomalies, weights, overtaken>>
    BY <1>1 DEF LoadParameterHistory, vars
  <2>2. /\ RecordFits(w, call[w])
        /\ Plan(call[w].parameter) \subseteq AnomalyKey
    BY <2>1, RunningCall DEF Executed, IndexInv
  <2>3. detected \in SUBSET AnomalyKey
    BY <2>2 DEF DetectedIn
  <2> HIDE DEF detected
  <2>4. locals.alerts = call[w].alerts
    BY <2>2, <2>3, CallDetectedOnly DEF RecordFits
  <2> HIDE DEF locals
  <2>5. Moves(w, "history", "pressure", locals)
    BY <2>1, ExecutedMoves DEF IndexInv, TypeInv
  <2>6. /\ "history" \in AfterAlerts /\ "pressure" \notin {"weights", "index"}
        /\ OnlyOthersOvertaken(w)
    BY <2>1, NothingOvertaken DEF AfterAlerts
  <2> QED
    BY <2>1, <2>4, <2>5, <2>6, ReadsStay
<1>2. ASSUME NEW p \in {"pressure", "moisture", "drive_load"},
             NEW next \in {"moisture", "drive_load", "sync"},
             LoadRiskHistory(w, p, next)
      PROVE  ReadsAreCurrent(v)'
  <2> DEFINE detected == IF SupportsRisk(p, HistoryByParameter(p))
                         THEN call[w].detected
                         ELSE call[w].detected \ {CombinedRisk}
             todo == IF next = "sync" THEN Plan(call[w].parameter) ELSE {}
             locals == WithPlan(call[w], detected, todo)
  <2>1. /\ Executed(w, p, next, locals)
        /\ UNCHANGED <<alerts, anomalies, weights, overtaken>>
    BY <1>2 DEF LoadRiskHistory, vars, WithPlan
  <2>2. /\ RecordFits(w, call[w])
        /\ Plan(call[w].parameter) \subseteq AnomalyKey
    BY <1>2, <2>1, RunningCall DEF Executed, IndexInv
  <2>3. detected \in SUBSET AnomalyKey /\ todo \in SUBSET AnomalyKey
    BY <2>2 DEF RecordFits
  <2> HIDE DEF detected, todo
  <2>4. locals.alerts = call[w].alerts
    BY <2>2, <2>3, CallPlan DEF RecordFits
  <2> HIDE DEF locals
  <2>5. Moves(w, p, next, locals)
    BY <2>1, ExecutedMoves DEF IndexInv, TypeInv
  <2>6. /\ p \in AfterAlerts /\ next \notin {"weights", "index"}
        /\ OnlyOthersOvertaken(w)
    BY <2>1, NothingOvertaken DEF AfterAlerts
  <2> QED
    BY <2>1, <2>4, <2>5, <2>6, ReadsStay
<1> QED
  BY <1>1, <1>2

LEMMA SyncKeepsReads ==
  ASSUME IndexInv, NEW w \in Workers, NEW v \in Workers,
         \/ FindOpenAnomaly(w) \/ UpdateAnomalyMisses(w)
         \/ UpdateAnomaly(w) \/ CreateAnomaly(w) \/ ResolveAnomaly(w)
  PROVE  ReadsAreCurrent(v)'
<1>1. stage[w] \in {"sync", "update anomaly", "create anomaly"}
  BY DEF FindOpenAnomaly, UpdateAnomalyMisses, UpdateAnomaly, CreateAnomaly,
         ResolveAnomaly, Executed
<1>2. RecordFits(w, call[w])
  BY <1>1, RunningCall DEF IndexInv
<1>3. ASSUME NEW n \in Nat
      PROVE  [call[w] EXCEPT !.found = n].alerts = call[w].alerts
  BY <1>2, CallFound DEF RecordFits
<1>4. NextKey(w).alerts = call[w].alerts
  <2>1. NextKey(w) = WithoutKey(call[w], Key(w))
    BY DEF NextKey, WithoutKey
  <2> QED
    BY <1>2, <2>1, CallTodo DEF RecordFits
<1>5. CASE UpdateAnomaly(w) \/ CreateAnomaly(w) \/ ResolveAnomaly(w)
  <2>1. /\ \E from \in {"sync", "update anomaly", "create anomaly"} :
             Executed(w, from, "sync", NextKey(w))
        /\ UNCHANGED <<alerts, weights>> /\ Overtake(w)
    BY <1>5 DEF UpdateAnomaly, CreateAnomaly, ResolveAnomaly, vars
  <2>2. PICK from \in {"sync", "update anomaly", "create anomaly"} :
          Moves(w, from, "sync", NextKey(w))
    BY <2>1, ExecutedMoves DEF IndexInv, TypeInv
  <2>3. /\ from \in AfterAlerts /\ "sync" \notin {"weights", "index"}
        /\ OnlyOthersOvertaken(w)
    BY <2>1, OvertakesOthers DEF AfterAlerts
  <2> QED
    BY <1>4, <2>1, <2>2, <2>3, ReadsStay
<1>6. CASE UpdateAnomalyMisses(w)
  <2> DEFINE locals == [call[w] EXCEPT !.found = 0]
  <2>1. /\ Executed(w, "update anomaly", "create anomaly", locals)
        /\ UNCHANGED <<alerts, anomalies, weights, overtaken>>
    BY <1>6 DEF UpdateAnomalyMisses, vars
  <2>2. locals.alerts = call[w].alerts
    BY <1>3
  <2> HIDE DEF locals
  <2>3. Moves(w, "update anomaly", "create anomaly", locals)
    BY <2>1, ExecutedMoves DEF IndexInv, TypeInv
  <2>4. /\ "update anomaly" \in AfterAlerts
        /\ "create anomaly" \notin {"weights", "index"}
        /\ OnlyOthersOvertaken(w)
    BY <2>1, NothingOvertaken DEF AfterAlerts
  <2> QED
    BY <2>1, <2>2, <2>3, <2>4, ReadsStay
<1>7. CASE FindOpenAnomaly(w)
  <2>1. UNCHANGED <<alerts, anomalies, weights, overtaken>>
    BY <1>7 DEF FindOpenAnomaly, vars
  <2>2. ASSUME NEW i \in OpenAnomalies(anomalies, Key(w)),
               Executed(w, "sync", "update anomaly", [call[w] EXCEPT !.found = i])
        PROVE  ReadsAreCurrent(v)'
    <3> DEFINE locals == [call[w] EXCEPT !.found = i]
    <3>1. i \in Nat
      BY DEF OpenAnomalies, IndexInv, TypeInv, TablesFit
    <3>2. locals.alerts = call[w].alerts
      BY <1>3, <3>1
    <3>3. Moves(w, "sync", "update anomaly", locals)
      BY <2>2, ExecutedMoves DEF IndexInv, TypeInv
    <3> HIDE DEF locals
    <3>4. /\ "sync" \in AfterAlerts
          /\ "update anomaly" \notin {"weights", "index"}
          /\ OnlyOthersOvertaken(w)
      BY <2>1, NothingOvertaken DEF AfterAlerts
    <3> QED
      BY <2>1, <3>2, <3>3, <3>4, ReadsStay
  <2>3. ASSUME Executed(w, "sync", "create anomaly", call[w])
        PROVE  ReadsAreCurrent(v)'
    <3>1. Moves(w, "sync", "create anomaly", call[w])
      BY <2>3, ExecutedMoves DEF IndexInv, TypeInv
    <3>2. /\ "sync" \in AfterAlerts
          /\ "create anomaly" \notin {"weights", "index"}
          /\ OnlyOthersOvertaken(w)
      BY <2>1, NothingOvertaken DEF AfterAlerts
    <3> QED
      BY <2>1, <3>1, <3>2, ReadsStay
  <2> QED
    BY <1>7, <2>2, <2>3 DEF FindOpenAnomaly
<1> QED
  BY <1>5, <1>6, <1>7

LEMMA LoadActiveAnomaliesReads ==
  ASSUME IndexInv, NEW w \in Workers, LoadActiveAnomalies(w), NEW v \in Workers
  PROVE  ReadsAreCurrent(v)'
<1> DEFINE locals == [call[w] EXCEPT !.anomalies = ActiveAnomalies(anomalies)]
<1>1. /\ Executed(w, "sync", "weights", locals)
      /\ UNCHANGED <<alerts, anomalies, weights, overtaken>>
  BY DEF LoadActiveAnomalies, vars
<1>2. RecordFits(w, call[w])
  BY <1>1, RunningCall DEF Executed, IndexInv
<1>3. /\ locals.alerts = call[w].alerts
      /\ locals.anomalies = ActiveAnomalies(anomalies)
  BY <1>2, ActiveAnomaliesType, CallAnomalies DEF IndexInv, TypeInv, RecordFits
<1>0. IsFiniteSet(locals.anomalies)
  BY <1>3, ActiveAnomaliesAreFinite DEF IndexInv, TypeInv
<1> HIDE DEF locals
<1>4. Moves(w, "sync", "weights", locals)
  BY <1>1, ExecutedMoves DEF IndexInv, TypeInv
<1>5. CASE v # w
  BY <1>1, <1>4, <1>5, OthersReadsStay DEF IndexInv, Moves, OthersStay
<1>6. CASE v = w
  BY <1>0, <1>1, <1>3, <1>4, <1>6 DEF IndexInv, Moves, Ends, ReadsAreCurrent, AfterAlerts
<1> QED
  BY <1>5, <1>6

LEMMA LoadQualityWeightsReads ==
  ASSUME IndexInv, NEW w \in Workers, LoadQualityWeights(w), NEW v \in Workers
  PROVE  ReadsAreCurrent(v)'
<1> DEFINE locals == [call[w] EXCEPT !.weights = weights]
<1>1. /\ Executed(w, "weights", "index", locals)
      /\ UNCHANGED <<alerts, anomalies, weights, overtaken>>
  BY DEF LoadQualityWeights, vars
<1>2. RecordFits(w, call[w])
  BY <1>1, RunningCall DEF Executed, IndexInv
<1>3. /\ locals.alerts = call[w].alerts
      /\ locals.anomalies = call[w].anomalies
      /\ locals.weights = weights
  BY <1>2, CallWeights DEF IndexInv, TypeInv, TablesFit, RecordFits
<1> HIDE DEF locals
<1>4. Moves(w, "weights", "index", locals)
  BY <1>1, ExecutedMoves DEF IndexInv, TypeInv
<1>5. CASE v # w
  BY <1>1, <1>4, <1>5, OthersReadsStay DEF IndexInv, Moves, OthersStay
<1>6. CASE v = w
  BY <1>1, <1>3, <1>4, <1>6 DEF IndexInv, Moves, Ends, ReadsAreCurrent, AfterAlerts
<1> QED
  BY <1>5, <1>6

LEMMA SaveQualityIndexReads ==
  ASSUME IndexInv, NEW w \in Workers, SaveQualityIndex(w), NEW v \in Workers
  PROVE  ReadsAreCurrent(v)'
<1>1. /\ Executed(w, "index", "idle", NoCall)
      /\ UNCHANGED <<alerts, anomalies, weights, overtaken>>
  BY DEF SaveQualityIndex, vars
<1>2. Moves(w, "index", "idle", NoCall)
  BY <1>1, ExecutedMoves DEF IndexInv, TypeInv
<1>3. stage'[w] \notin AfterAlerts /\ OthersStay(w) /\ OnlyOthersOvertaken(w)
  BY <1>1, <1>2, NothingOvertaken DEF Moves, Ends, AfterAlerts
<1> QED
  BY <1>3, EarlyReadsStay

LEMMA IndexNext ==
  ASSUME IndexInv, [ProcessNext]_allVars
  PROVE  IndexInv'
<1>1. TypeInv'
  BY ProcessNextFits DEF IndexInv
<1> SUFFICES ASSUME NEW v \in Workers PROVE ReadsAreCurrent(v)'
  BY <1>1 DEF IndexInv
<1>2. ASSUME NEW w \in Workers, ProcessStep(w)
      PROVE  ReadsAreCurrent(v)'
  BY <1>2, EarlyStepsKeepReads, LoadActiveAlertsReads, DetectionKeepsReads,
     SyncKeepsReads, LoadActiveAnomaliesReads, LoadQualityWeightsReads,
     SaveQualityIndexReads DEF ProcessStep
<1>3. ASSUME NEW w \in Workers, NEW p \in Parameters, NEW value \in Values[p],
             Validate(w, p, value)
      PROVE  ReadsAreCurrent(v)'
  BY <1>3, EarlyStepsKeepReads
<1>4. ASSUME \/ \E user \in Users, i \in DOMAIN alerts : OperatorActs(user, i)
             \/ \E p \in Parameters : \E k \in DOMAIN Weights[p] :
                  UpdateWeight(p, Weights[p][k])
      PROVE  ReadsAreCurrent(v)'
  BY <1>4 DEF OperatorActs, UpdateWeight, ReadsAreCurrent, IndexInv
<1>5. ASSUME NEW p \in Parameters, NEW k \in DOMAIN Setpoints[p],
             UpdateSetpoint(p, Setpoints[p][k])
      PROVE  ReadsAreCurrent(v)'
  BY <1>5, OthersReadsStay DEF UpdateSetpoint, vars, IndexInv
<1>6. ASSUME UNCHANGED allVars
      PROVE  ReadsAreCurrent(v)'
  BY <1>6, OthersReadsStay DEF allVars, processVars, vars, IndexInv
<1> QED
  BY <1>2, <1>3, <1>4, <1>5, <1>6 DEF ProcessNext

LEMMA ReadsStayCurrent == ProcessSpec => []IndexInv
<1>1. ProcessInit => IndexInv
  <2> SUFFICES ASSUME ProcessInit PROVE IndexInv
    OBVIOUS
  <2>1. \A w \in Workers : ReadsAreCurrent(w)
    BY DEF ProcessInit, ReadsAreCurrent, AfterAlerts
  <2> QED
    BY <2>1, ProcessInitFits DEF IndexInv
<1> QED
  BY <1>1, IndexNext, PTL DEF ProcessSpec

(* A step of a worker leaves the calls of the other workers alone.         *)
LEMMA ProcessStepFrame ==
  ASSUME CallsAreJudged, NEW w \in Workers, ProcessStep(w)
  PROVE  OthersStay(w)
<1>1. CASE \E newer \in 0 .. MaxNewer : SaveTelemetryReading(w, newer)
  BY <1>1 DEF SaveTelemetryReading, Fail, End, CallsAreJudged, OthersStay
<1>2. CASE AlertStatement(w) \/ CreateAnomalyIsRefused(w) \/ WriteFails(w)
  BY <1>2 DEF AlertStatement, CreateAnomalyIsRefused, WriteFails, Fail, End,
              CallsAreJudged, OthersStay
<1>3. ASSUME NEW from, NEW to, NEW locals, Executed(w, from, to, locals)
      PROVE  OthersStay(w)
  BY <1>3, ExecutedMoves DEF Moves
<1>4. CASE \/ LoadActiveAlerts(w) \/ LoadParameterHistory(w)
           \/ LoadRiskHistory(w, "pressure", "moisture")
           \/ LoadRiskHistory(w, "moisture", "drive_load")
           \/ LoadRiskHistory(w, "drive_load", "sync")
  BY <1>3, <1>4 DEF LoadActiveAlerts, LoadParameterHistory, LoadRiskHistory
<1>5. CASE \/ FindOpenAnomaly(w) \/ UpdateAnomaly(w) \/ UpdateAnomalyMisses(w)
           \/ CreateAnomaly(w) \/ ResolveAnomaly(w)
  BY <1>3, <1>5 DEF FindOpenAnomaly, UpdateAnomaly, UpdateAnomalyMisses,
                    CreateAnomaly, ResolveAnomaly
<1>6. CASE LoadActiveAnomalies(w) \/ LoadQualityWeights(w) \/ SaveQualityIndex(w)
  BY <1>3, <1>6 DEF LoadActiveAnomalies, LoadQualityWeights, SaveQualityIndex
<1> QED
  BY <1>1, <1>2, <1>4, <1>5, <1>6 DEF ProcessStep

(* A running call is moved on by its own worker only.                      *)
LEMMA OneWorkerSteps ==
  ASSUME CallsAreJudged, [ProcessNext]_allVars, NEW w \in Workers,
         stage[w] # "idle", stage'[w] # stage[w]
  PROVE  ProcessStep(w)
<1>1. ASSUME NEW v \in Workers, NEW p \in Parameters, NEW value \in Values[p],
             Validate(v, p, value)
      PROVE  FALSE
  BY <1>1 DEF Validate, CallsAreJudged
<1>2. ASSUME NEW v \in Workers \ {w}, ProcessStep(v)
      PROVE  FALSE
  BY <1>2, ProcessStepFrame DEF OthersStay
<1>3. CASE \/ \E user \in Users, i \in DOMAIN alerts : OperatorActs(user, i)
           \/ \E p \in Parameters :
                \/ \E k \in DOMAIN Setpoints[p] : UpdateSetpoint(p, Setpoints[p][k])
                \/ \E k \in DOMAIN Weights[p] : UpdateWeight(p, Weights[p][k])
           \/ UNCHANGED allVars
  BY <1>3 DEF OperatorActs, UpdateSetpoint, UpdateWeight, allVars, processVars
<1> QED
  BY <1>1, <1>2, <1>3 DEF ProcessNext

LEMMA SavedIndex ==
  ASSUME IndexInv, [ProcessNext]_allVars, NEW w \in Workers,
         stage[w] = "index", stage'[w] = "idle", failures' = failures,
         w \notin overtaken
  PROVE  index' = CalculateIndex(ActiveAlerts(alerts), weights,
                                 ActiveAnomalies(anomalies))
<1>1. failures \in Nat
  BY DEF IndexInv, TypeInv, TablesFit
<1>2. ProcessStep(w)
  BY OneWorkerSteps DEF IndexInv, TypeInv
<1>3. ~ Fail(w)
  BY <1>1 DEF Fail
<1>4. SaveQualityIndex(w)
  BY <1>2, <1>3 DEF ProcessStep, SaveTelemetryReading, AlertStatement,
     LoadActiveAlerts, LoadParameterHistory, LoadRiskHistory, FindOpenAnomaly,
     UpdateAnomaly, UpdateAnomalyMisses, CreateAnomaly, CreateAnomalyIsRefused,
     ResolveAnomaly, LoadActiveAnomalies, LoadQualityWeights, WriteFails, Executed
<1> QED
  BY <1>4 DEF SaveQualityIndex, IndexInv, ReadsAreCurrent, AfterAlerts

(* calculateQualityIndex reads the alerts, the anomalies and the weights   *)
(* one after the other: the index it saves is the index of the tables at   *)
(* that moment, unless somebody else changed them since.  For any number   *)
(* of workers, and whatever fails.                                         *)
THEOREM SavedIndexReflectsEvents == ProcessSpec => IndexReflectsEvents
<1>1. IndexInv /\ [ProcessNext]_allVars =>
        [\A w \in Workers :
           /\ stage[w] = "index" /\ stage'[w] = "idle" /\ failures' = failures
           /\ w \notin overtaken
           => index' = CalculateIndex(ActiveAlerts(alerts), weights,
                                      ActiveAnomalies(anomalies))]_allVars
  BY SavedIndex
<1> QED
  BY <1>1, ReadsStayCurrent, PTL DEF ProcessSpec, IndexReflectsEvents

-----------------------------------------------------------------------------
(***************************************************************************)
(* The sum in CalculateIndex.  Induction over the sets it runs through is  *)
(* a search for a smallest counterexample: a set of naturals that is not   *)
(* empty has a least element.                                              *)
(***************************************************************************)

LEMMA SmallerPair ==
  ASSUME NEW m \in Nat, NEW n \in Nat, m < n
  PROVE  <<m, n>> \in OpToRel(<, Nat)
<1>1. <<m, n>> \in {q \in Nat \X Nat : q[1] < q[2]}
  OBVIOUS
<1> QED BY <1>1 DEF OpToRel

LEMMA LeastNat ==
  ASSUME NEW T, T \subseteq Nat, T # {}
  PROVE  \E n \in T : \A m \in T : n <= m
<1>1. \E n \in T : \A m \in T : ~ (<<m, n>> \in OpToRel(<, Nat))
  BY NatLessThanWellFounded, WFMin
<1>2. PICK n \in T : \A m \in T : ~ (<<m, n>> \in OpToRel(<, Nat))
  BY <1>1
<1>3. \A m \in T : n <= m
  <2> SUFFICES ASSUME NEW m \in T, m < n
               PROVE  FALSE
    OBVIOUS
  <2> QED BY <1>2, SmallerPair
<1> QED
  BY <1>2, <1>3

(* Some element; how MapThenSumSet takes its sum apart. *)
Some(s) == CHOOSE x \in s : TRUE

SumStep(f, g, s) == IF s = {} THEN 0 ELSE f[Some(s)] + g[s \ {Some(s)}]

(* g holds the sum of f over every subset of S; over those of at most k    *)
(* elements.                                                               *)
SumsOver(f, S, g) == \A s \in SUBSET S : g[s] = SumStep(f, g, s)

IsSum(f, S, g) == g = [s \in SUBSET S |-> SumStep(f, g, s)]

SumsUpTo(f, S, g, k) ==
  \A s \in SUBSET S : Cardinality(s) <= k => g[s] = SumStep(f, g, s)

LEMMA OneLess ==
  ASSUME NEW S, IsFiniteSet(S), NEW s \in SUBSET S, NEW x \in s
  PROVE  /\ s \ {x} \in SUBSET S
         /\ Cardinality(s) \in Nat
         /\ Cardinality(s \ {x}) \in Nat
         /\ Cardinality(s \ {x}) = Cardinality(s) - 1
<1>1. IsFiniteSet(s)
  BY FS_Subset
<1> QED
  BY <1>1, FS_RemoveElement, FS_CardinalityType

LEMMA SomeIsIn ==
  ASSUME NEW s, s # {}
  PROVE  Some(s) \in s
  BY DEF Some

LEMMA SumsReachFurther ==
  ASSUME NEW S, IsFiniteSet(S), NEW f, NEW g, NEW k \in Nat, SumsUpTo(f, S, g, k)
  PROVE  \E h : SumsUpTo(f, S, h, k + 1)
<1> DEFINE h == [s \in SUBSET S |->
                   IF Cardinality(s) <= k THEN g[s] ELSE SumStep(f, g, s)]
<1>1. ASSUME NEW s \in SUBSET S, Cardinality(s) <= k + 1
      PROVE  h[s] = SumStep(f, h, s)
  <2>1. h[s] = SumStep(f, g, s)
    BY DEF SumsUpTo
  <2>2. CASE s = {}
    BY <2>1, <2>2 DEF SumStep
  <2>3. CASE s # {}
    <3>1. Some(s) \in s
      BY <2>3, SomeIsIn
    <3>2. /\ s \ {Some(s)} \in SUBSET S
          /\ Cardinality(s) \in Nat
          /\ Cardinality(s \ {Some(s)}) \in Nat
          /\ Cardinality(s \ {Some(s)}) = Cardinality(s) - 1
      BY <3>1, OneLess
    <3>3. h[s \ {Some(s)}] = g[s \ {Some(s)}]
      BY <1>1, <3>2
    <3> HIDE DEF h
    <3> QED
      BY <2>1, <2>3, <3>3 DEF SumStep
  <2> QED
    BY <2>2, <2>3
<1> HIDE DEF h
<1> QED
  BY <1>1 DEF SumsUpTo

LEMMA SumsExist ==
  ASSUME NEW S, IsFiniteSet(S), NEW f, NEW k \in Nat
  PROVE  \E g : SumsUpTo(f, S, g, k)
<1> DEFINE T == {n \in Nat : ~ \E g : SumsUpTo(f, S, g, n)}
<1> SUFFICES ASSUME T # {}
             PROVE  FALSE
  OBVIOUS
<1>1. PICK n \in T : \A m \in T : n <= m
  BY LeastNat
<1>2. CASE n = 0
  <2> DEFINE none == [s \in SUBSET S |-> 0]
  <2>1. ASSUME NEW s \in SUBSET S, Cardinality(s) <= 0
        PROVE  none[s] = SumStep(f, none, s)
    <3>1. IsFiniteSet(s) /\ Cardinality(s) \in Nat
      BY FS_Subset, FS_CardinalityType
    <3>2. s = {}
      BY <2>1, <3>1, FS_EmptySet
    <3> QED
      BY <3>2 DEF SumStep
  <2> HIDE DEF none
  <2>2. SumsUpTo(f, S, none, 0)
    BY <2>1 DEF SumsUpTo
  <2> QED
    BY <1>2, <2>2
<1>3. CASE n # 0
  <2>1. n - 1 \in Nat /\ ~ (n <= n - 1) /\ (n - 1) + 1 = n
    BY <1>3
  <2>2. PICK g : SumsUpTo(f, S, g, n - 1)
    BY <1>1, <2>1
  <2>3. \E h : SumsUpTo(f, S, h, (n - 1) + 1)
    BY <2>1, <2>2, SumsReachFurther
  <2> QED
    BY <2>1, <2>3
<1> QED
  BY <1>2, <1>3

LEMMA SumsAreDefined ==
  ASSUME NEW S, IsFiniteSet(S), NEW f
  PROVE  \E g : IsSum(f, S, g)
<1>1. Cardinality(S) \in Nat
  BY FS_CardinalityType
<1>2. PICK g : SumsUpTo(f, S, g, Cardinality(S))
  BY <1>1, SumsExist
<1> DEFINE h == [s \in SUBSET S |-> SumStep(f, g, s)]
<1>3. ASSUME NEW s \in SUBSET S
      PROVE  g[s] = SumStep(f, g, s) /\ h[s] = g[s]
  <2>1. Cardinality(s) <= Cardinality(S)
    BY FS_Subset
  <2> QED
    BY <1>2, <2>1 DEF SumsUpTo
<1>4. ASSUME NEW s \in SUBSET S
      PROVE  SumStep(f, g, s) = SumStep(f, h, s)
  <2>1. CASE s = {}
    BY <2>1 DEF SumStep
  <2>2. CASE s # {}
    <3>1. s \ {Some(s)} \in SUBSET S
      OBVIOUS
    <3>2. h[s \ {Some(s)}] = g[s \ {Some(s)}]
      BY <1>3, <3>1
    <3> HIDE DEF h
    <3> QED
      BY <2>2, <3>2 DEF SumStep
  <2> QED
    BY <2>1, <2>2
<1>5. h = [s \in SUBSET S |-> SumStep(f, h, s)]
  BY <1>4
<1>6. IsSum(f, S, h)
  BY <1>5 DEF IsSum
<1> HIDE DEF h
<1> QED
  BY <1>6

LEMMA SumsAreNat ==
  ASSUME NEW S, IsFiniteSet(S), NEW f \in [S -> Nat],
         NEW g, SumsOver(f, S, g), NEW s \in SUBSET S
  PROVE  g[s] \in Nat
<1> DEFINE T == {n \in Nat : \E t \in SUBSET S : Cardinality(t) = n /\ g[t] \notin Nat}
<1>1. \A t \in SUBSET S : g[t] = SumStep(f, g, t)
  BY DEF SumsOver
<1>2. T = {}
  <2> SUFFICES ASSUME T # {}
               PROVE  FALSE
    OBVIOUS
  <2>1. PICK n \in T : \A m \in T : n <= m
    BY LeastNat
  <2>2. PICK t \in SUBSET S : Cardinality(t) = n /\ g[t] \notin Nat
    BY <2>1
  <2>3. t # {}
    <3> SUFFICES ASSUME t = {}
                 PROVE  g[t] = 0
      BY <2>2
    <3> QED
      BY <1>1 DEF SumStep
  <2>4. Some(t) \in t
    BY <2>3, SomeIsIn
  <2>5. /\ t \ {Some(t)} \in SUBSET S
        /\ Cardinality(t) \in Nat
        /\ Cardinality(t \ {Some(t)}) \in Nat
        /\ Cardinality(t \ {Some(t)}) = Cardinality(t) - 1
    BY <2>4, OneLess
  <2>6. g[t \ {Some(t)}] \in Nat
    BY <2>1, <2>2, <2>5
  <2>7. f[Some(t)] \in Nat
    BY <2>4
  <2>8. g[t] = f[Some(t)] + g[t \ {Some(t)}]
    BY <1>1, <2>3 DEF SumStep
  <2> QED
    BY <2>2, <2>6, <2>7, <2>8
<1>3. Cardinality(s) \in Nat
  BY FS_Subset, FS_CardinalityType
<1> QED
  BY <1>2, <1>3

LEMMA SumTakesAny ==
  ASSUME NEW S, IsFiniteSet(S), NEW f \in [S -> Nat],
         NEW g, SumsOver(f, S, g), NEW s \in SUBSET S, NEW x \in s
  PROVE  g[s] = f[x] + g[s \ {x}]
<1> DEFINE Holds(t) == \A y \in t : g[t] = f[y] + g[t \ {y}]
           T == {n \in Nat : \E t \in SUBSET S : Cardinality(t) = n /\ ~ Holds(t)}
<1>1. \A t \in SUBSET S : g[t] = SumStep(f, g, t)
  BY DEF SumsOver
<1>2. \A t \in SUBSET S : g[t] \in Nat
  BY SumsAreNat
<1>3. T = {}
  <2> SUFFICES ASSUME T # {}
               PROVE  FALSE
    OBVIOUS
  <2>1. PICK n \in T : \A m \in T : n <= m
    BY LeastNat
  <2>2. PICK t \in SUBSET S : Cardinality(t) = n /\ ~ Holds(t)
    BY <2>1
  <2>3. PICK y \in t : g[t] # f[y] + g[t \ {y}]
    BY <2>2
  <2> DEFINE c == Some(t)
  <2>4. c \in t
    BY SomeIsIn
  <2> HIDE DEF c
  <2>5. g[t] = f[c] + g[t \ {c}]
    BY <1>1 DEF SumStep, c
  <2>6. c # y
    BY <2>3, <2>5
  <2>7. /\ t \ {c} \in SUBSET S /\ t \ {y} \in SUBSET S
        /\ Cardinality(t \ {c}) \in Nat /\ Cardinality(t \ {c}) < n
        /\ Cardinality(t \ {y}) \in Nat /\ Cardinality(t \ {y}) < n
    <3>1. /\ t \ {c} \in SUBSET S
          /\ Cardinality(t) \in Nat /\ Cardinality(t \ {c}) \in Nat
          /\ Cardinality(t \ {c}) = Cardinality(t) - 1
      BY <2>4, OneLess
    <3>2. /\ t \ {y} \in SUBSET S
          /\ Cardinality(t \ {y}) \in Nat
          /\ Cardinality(t \ {y}) = Cardinality(t) - 1
      BY <2>3, OneLess
    <3> QED
      BY <2>2, <3>1, <3>2
  <2>8. Holds(t \ {c}) /\ Holds(t \ {y})
    <3>1. ASSUME NEW u \in SUBSET S, Cardinality(u) \in Nat, Cardinality(u) < n,
                 ~ Holds(u)
          PROVE  FALSE
      <4>1. Cardinality(u) \in T
        BY <3>1
      <4> QED
        BY <2>1, <3>1, <4>1
    <3> HIDE DEF Holds
    <3> QED
      BY <2>7, <3>1
  <2>9. /\ g[t \ {c}] = f[y] + g[(t \ {c}) \ {y}]
        /\ g[t \ {y}] = f[c] + g[(t \ {y}) \ {c}]
    BY <2>3, <2>4, <2>6, <2>8
  <2>10. (t \ {c}) \ {y} = (t \ {y}) \ {c}
    OBVIOUS
  <2> DEFINE rest == g[(t \ {c}) \ {y}]
  <2>11. rest \in Nat /\ f[c] \in Nat /\ f[y] \in Nat
    BY <1>2, <2>3, <2>4
  <2>12. g[t] = f[c] + (f[y] + rest) /\ g[t \ {y}] = f[c] + rest
    BY <2>5, <2>9, <2>10
  <2> HIDE DEF rest
  <2>13. f[c] + (f[y] + rest) = f[y] + (f[c] + rest)
    BY <2>11
  <2> QED
    BY <2>3, <2>12, <2>13
<1>4. Cardinality(s) \in Nat
  BY FS_Subset, FS_CardinalityType
<1>5. Holds(s)
  BY <1>3, <1>4
<1> QED
  BY <1>5

LEMMA LargerSetsSumToMore ==
  ASSUME NEW S, IsFiniteSet(S), NEW f \in [S -> Nat],
         NEW g, SumsOver(f, S, g), NEW s \in SUBSET S
  PROVE  g[s] <= g[S]
<1> DEFINE T == {n \in Nat : \E t \in SUBSET S :
                    s \subseteq t /\ Cardinality(t) = n /\ ~ (g[s] <= g[t])}
<1>1. ASSUME NEW t \in SUBSET S, NEW y \in t
      PROVE  g[t] = f[y] + g[t \ {y}]
  BY SumTakesAny
<1>2. \A t \in SUBSET S : g[t] \in Nat
  BY SumsAreNat
<1>3. T = {}
  <2> SUFFICES ASSUME T # {}
               PROVE  FALSE
    OBVIOUS
  <2>1. PICK n \in T : \A m \in T : n <= m
    BY LeastNat
  <2>2. PICK t \in SUBSET S : s \subseteq t /\ Cardinality(t) = n /\ ~ (g[s] <= g[t])
    BY <2>1
  <2>3. s # t
    BY <1>2, <2>2
  <2>4. PICK y \in t : y \notin s
    BY <2>2, <2>3
  <2>5. /\ t \ {y} \in SUBSET S /\ s \subseteq t \ {y}
        /\ Cardinality(t) \in Nat /\ Cardinality(t \ {y}) \in Nat
        /\ Cardinality(t \ {y}) = Cardinality(t) - 1
    BY <2>2, <2>4, OneLess
  <2>6. g[s] <= g[t \ {y}]
    BY <2>1, <2>2, <2>5
  <2>7. g[t] = f[y] + g[t \ {y}]
    BY <1>1, <2>4
  <2>8. f[y] \in Nat /\ g[t \ {y}] \in Nat /\ g[s] \in Nat
    BY <1>2, <2>4, <2>5
  <2> QED
    BY <2>2, <2>6, <2>7, <2>8
<1>4. Cardinality(S) \in Nat
  BY FS_CardinalityType
<1> QED
  BY <1>3, <1>4

LEMMA SumOfASubset ==
  ASSUME NEW S, IsFiniteSet(S), NEW f \in [S -> Nat], NEW R \in SUBSET S,
         NEW e, \A x \in R : e[x] = f[x],
         NEW g, SumsOver(f, S, g), NEW h, SumsOver(e, R, h), NEW s \in SUBSET R
  PROVE  h[s] = g[s]
<1> DEFINE T == {n \in Nat : \E t \in SUBSET R : Cardinality(t) = n /\ h[t] # g[t]}
<1>1. IsFiniteSet(R)
  BY FS_Subset
<1>2. \A t \in SUBSET R : g[t] = SumStep(f, g, t) /\ h[t] = SumStep(e, h, t)
  BY DEF SumsOver
<1>3. T = {}
  <2> SUFFICES ASSUME T # {}
               PROVE  FALSE
    OBVIOUS
  <2>1. PICK n \in T : \A m \in T : n <= m
    BY LeastNat
  <2>2. PICK t \in SUBSET R : Cardinality(t) = n /\ h[t] # g[t]
    BY <2>1
  <2>3. t # {}
    <3> SUFFICES ASSUME t = {}
                 PROVE  h[t] = g[t]
      BY <2>2
    <3> QED
      BY <1>2 DEF SumStep
  <2> DEFINE c == Some(t)
  <2>4. c \in t
    BY <2>3, SomeIsIn
  <2>5. h[t] = e[c] + h[t \ {c}] /\ g[t] = f[c] + g[t \ {c}]
    BY <1>2, <2>3 DEF SumStep
  <2> HIDE DEF c
  <2>6. /\ t \ {c} \in SUBSET R
        /\ Cardinality(t) \in Nat /\ Cardinality(t \ {c}) \in Nat
        /\ Cardinality(t \ {c}) = Cardinality(t) - 1
    BY <1>1, <2>4, OneLess
  <2>7. h[t \ {c}] = g[t \ {c}]
    BY <2>1, <2>2, <2>6
  <2>8. e[c] = f[c]
    BY <2>4
  <2> QED
    BY <2>2, <2>5, <2>7, <2>8
<1>4. Cardinality(s) \in Nat
  BY <1>1, FS_Subset, FS_CardinalityType
<1> QED
  BY <1>3, <1>4

LEMMA SumGrows ==
  ASSUME NEW S, IsFiniteSet(S), NEW f \in [S -> Nat],
         NEW R \in SUBSET S, NEW e, \A x \in R : e[x] = f[x],
         NEW g, SumsOver(f, S, g), NEW h, SumsOver(e, R, h)
  PROVE  h[R] <= g[S]
<1>1. h[R] = g[R]
  BY SumOfASubset
<1> QED
  BY <1>1, LargerSetsSumToMore

-----------------------------------------------------------------------------
AlertStep(ws, g, s) ==
  IF s = {} THEN 0 ELSE AlertPenalty(Some(s), ws) + g[s \ {Some(s)}]

AlertSum(S, ws) ==
  CHOOSE g : g = [s \in SUBSET S |-> AlertStep(ws, g, s)]

AnomalyStep(g, s) == IF s = {} THEN 0 ELSE AnomalyPenalty(Some(s)) + g[s \ {Some(s)}]

AnomalySum(S) == CHOOSE g : g = [s \in SUBSET S |-> AnomalyStep(g, s)]

LEMMA IndexBySums ==
  ASSUME NEW S, NEW ws, NEW A
  PROVE  CalculateIndex(S, ws, A).value =
           Clamp(BaseQualityIndex - AlertSum(S, ws)[S] - AnomalySum(A)[A])
<1>1. MapThenSumSet(LAMBDA alert : AlertPenalty(alert, ws), S) = AlertSum(S, ws)[S]
  BY Zenon DEF MapThenSumSet, MapThenFoldSet, AlertSum, AlertStep, Some
<1>2. MapThenSumSet(AnomalyPenalty, A) = AnomalySum(A)[A]
  BY Zenon DEF MapThenSumSet, MapThenFoldSet, AnomalySum, AnomalyStep, Some
<1> QED
  BY <1>1, <1>2 DEF CalculateIndex

LEMMA AlertSumsAreSums ==
  ASSUME NEW S, IsFiniteSet(S), NEW ws,
         NEW f, \A e \in S : f[e] = AlertPenalty(e, ws)
  PROVE  SumsOver(f, S, AlertSum(S, ws))
<1> DEFINE h == AlertSum(S, ws)
<1>1. ASSUME NEW g, NEW s \in SUBSET S
      PROVE  SumStep(f, g, s) = AlertStep(ws, g, s)
  <2>1. CASE s = {}
    BY <2>1 DEF SumStep, AlertStep
  <2>2. CASE s # {}
    <3>1. Some(s) \in S
      BY <2>2, SomeIsIn
    <3> QED
      BY <2>2, <3>1 DEF SumStep, AlertStep
  <2> QED
    BY <2>1, <2>2
<1>2. PICK g : IsSum(f, S, g)
  BY SumsAreDefined
<1>3. g = [s \in SUBSET S |-> AlertStep(ws, g, s)]
  BY <1>1, <1>2 DEF IsSum
<1>4. h = [s \in SUBSET S |-> AlertStep(ws, h, s)]
  BY <1>3, Zenon DEF AlertSum
<1> HIDE DEF h
<1>5. ASSUME NEW s \in SUBSET S
      PROVE  h[s] = SumStep(f, h, s)
  <2> DEFINE i == [t \in SUBSET S |-> AlertStep(ws, h, t)]
  <2>1. i[s] = AlertStep(ws, h, s)
    OBVIOUS
  <2>2. h = i
    BY <1>4
  <2> HIDE DEF i
  <2> QED
    BY <1>1, <2>1, <2>2
<1>6. SumsOver(f, S, h)
  BY <1>5 DEF SumsOver
<1> QED
  BY <1>6 DEF h

LEMMA AnomalySumsAreSums ==
  ASSUME NEW S, IsFiniteSet(S), NEW f, \A e \in S : f[e] = AnomalyPenalty(e)
  PROVE  SumsOver(f, S, AnomalySum(S))
<1> DEFINE h == AnomalySum(S)
<1>1. ASSUME NEW g, NEW s \in SUBSET S
      PROVE  SumStep(f, g, s) = AnomalyStep(g, s)
  <2>1. CASE s = {}
    BY <2>1 DEF SumStep, AnomalyStep
  <2>2. CASE s # {}
    <3>1. Some(s) \in S
      BY <2>2, SomeIsIn
    <3> QED
      BY <2>2, <3>1 DEF SumStep, AnomalyStep
  <2> QED
    BY <2>1, <2>2
<1>2. PICK g : IsSum(f, S, g)
  BY SumsAreDefined
<1>3. g = [s \in SUBSET S |-> AnomalyStep(g, s)]
  BY <1>1, <1>2 DEF IsSum
<1>4. h = [s \in SUBSET S |-> AnomalyStep(h, s)]
  BY <1>3, Zenon DEF AnomalySum
<1> HIDE DEF h
<1>5. ASSUME NEW s \in SUBSET S
      PROVE  h[s] = SumStep(f, h, s)
  <2> DEFINE i == [t \in SUBSET S |-> AnomalyStep(h, t)]
  <2>1. i[s] = AnomalyStep(h, s)
    OBVIOUS
  <2>2. h = i
    BY <1>4
  <2> HIDE DEF i
  <2> QED
    BY <1>1, <2>1, <2>2
<1>6. SumsOver(f, S, h)
  BY <1>5 DEF SumsOver
<1> QED
  BY <1>6 DEF h

(* What an alert, and what an anomaly, takes from the index. *)
LEMMA PenaltyOfAlert ==
  ASSUME NEW ws \in [Parameters -> Nat] \cup {<< >>},
         NEW e \in [parameter : Parameters, level : AlertLevels]
  PROVE  AlertPenalty(e, ws) \in Nat
<1>1. PICK n \in Nat : n = WeightFor(ws, e.parameter)
  BY DEF WeightFor, DefaultWeight
<1>2. n * 30 \in Nat /\ n * 15 \in Nat
  OBVIOUS
<1> QED
  BY <1>1, <1>2 DEF AlertPenalty, CriticalAlertPenalty, WarningAlertPenalty

LEMMA PenaltyOfAnomaly ==
  ASSUME NEW e \in AnomalyKey
  PROVE  AnomalyPenalty(e) \in Nat
  BY DEF AnomalyPenalty, AnomalyKey, AnomalyTypes

LEMMA ClampStaysOnScale ==
  ASSUME NEW v \in Int
  PROVE  Clamp(v) \in 0 .. BaseQualityIndex
<1>1. BaseQualityIndex \in Nat
  BY DEF BaseQualityIndex
<1> QED
  BY <1>1 DEF Clamp

LEMMA ClampIsMonotonic ==
  ASSUME NEW v \in Int, NEW u \in Int, v <= u
  PROVE  Clamp(v) <= Clamp(u)
  BY DEF Clamp, BaseQualityIndex

(* The penalties, as sums of functions. *)
PenaltiesAre(S, f, ws, A, d) ==
  /\ \A e \in S : f[e] = AlertPenalty(e, ws)
  /\ \A e \in A : d[e] = AnomalyPenalty(e)
  /\ SumsOver(f, S, AlertSum(S, ws))
  /\ SumsOver(d, A, AnomalySum(A))

LEMMA PenaltySums ==
  ASSUME NEW S \in SUBSET [parameter : Parameters, level : AlertLevels],
         IsFiniteSet(S),
         NEW ws \in [Parameters -> Nat] \cup {<< >>},
         NEW A \in SUBSET AnomalyKey, IsFiniteSet(A)
  PROVE  \E f \in [S -> Nat], d \in [A -> Nat] : PenaltiesAre(S, f, ws, A, d)
<1> DEFINE f == [e \in S |-> AlertPenalty(e, ws)]
           d == [e \in A |-> AnomalyPenalty(e)]
<1>1. f \in [S -> Nat] /\ d \in [A -> Nat]
  BY PenaltyOfAlert, PenaltyOfAnomaly
<1>2. /\ \A e \in S : f[e] = AlertPenalty(e, ws)
      /\ \A e \in A : d[e] = AnomalyPenalty(e)
  OBVIOUS
<1> HIDE DEF f, d
<1>3. SumsOver(f, S, AlertSum(S, ws))
  BY <1>2, AlertSumsAreSums
<1>4. SumsOver(d, A, AnomalySum(A))
  BY <1>2, AnomalySumsAreSums
<1> QED
  BY <1>1, <1>2, <1>3, <1>4 DEF PenaltiesAre

LEMMA IndexIsOnScale ==
  ASSUME NEW S \in SUBSET [parameter : Parameters, level : AlertLevels],
         IsFiniteSet(S),
         NEW ws \in [Parameters -> Nat] \cup {<< >>},
         NEW A \in SUBSET AnomalyKey, IsFiniteSet(A)
  PROVE  CalculateIndex(S, ws, A).value \in 0 .. BaseQualityIndex
<1>1. PICK f \in [S -> Nat], d \in [A -> Nat] : PenaltiesAre(S, f, ws, A, d)
  BY PenaltySums
<1>2. PICK m \in Nat : m = AlertSum(S, ws)[S]
  BY <1>1, SumsAreNat DEF PenaltiesAre
<1>3. PICK n \in Nat : n = AnomalySum(A)[A]
  BY <1>1, SumsAreNat DEF PenaltiesAre
<1>4. BaseQualityIndex - m - n \in Int
  BY DEF BaseQualityIndex
<1> QED
  BY <1>2, <1>3, <1>4, IndexBySums, ClampStaysOnScale

(* CalculateIndex: an event more, whatever its kind, never raises the      *)
(* index.  For any number of open events and any weights.                  *)
THEOREM EventsNeverRaiseTheIndex ==
  ASSUME NEW S \in SUBSET [parameter : Parameters, level : AlertLevels],
         IsFiniteSet(S), NEW R \in SUBSET S,
         NEW ws \in [Parameters -> Nat],
         NEW A \in SUBSET AnomalyKey, IsFiniteSet(A), NEW B \in SUBSET A
  PROVE  CalculateIndex(S, ws, A).value <= CalculateIndex(R, ws, B).value
<1>1. IsFiniteSet(R) /\ IsFiniteSet(B)
  BY FS_Subset
<1>2. PICK f \in [S -> Nat], d \in [A -> Nat] : PenaltiesAre(S, f, ws, A, d)
  BY PenaltySums
<1>3. PICK g \in [R -> Nat], c \in [B -> Nat] : PenaltiesAre(R, g, ws, B, c)
  <2>1. /\ R \in SUBSET [parameter : Parameters, level : AlertLevels]
        /\ B \in SUBSET AnomalyKey
    OBVIOUS
  <2> QED
    BY <1>1, <2>1, PenaltySums
<1>4. PICK m \in Nat, n \in Nat : m = AlertSum(S, ws)[S] /\ n = AnomalySum(A)[A]
  BY <1>2, SumsAreNat DEF PenaltiesAre
<1>5. PICK k \in Nat, l \in Nat : k = AlertSum(R, ws)[R] /\ l = AnomalySum(B)[B]
  BY <1>1, <1>3, SumsAreNat DEF PenaltiesAre
<1>6. k <= m /\ l <= n
  <2>1. \A e \in R : g[e] = f[e]
    BY <1>2, <1>3 DEF PenaltiesAre
  <2>2. \A e \in B : c[e] = d[e]
    BY <1>2, <1>3 DEF PenaltiesAre
  <2>3. AlertSum(R, ws)[R] <= AlertSum(S, ws)[S]
    BY <1>2, <1>3, <2>1, SumGrows DEF PenaltiesAre
  <2>4. AnomalySum(B)[B] <= AnomalySum(A)[A]
    BY <1>2, <1>3, <2>2, SumGrows DEF PenaltiesAre
  <2> QED
    BY <1>4, <1>5, <2>3, <2>4
<1>7. /\ BaseQualityIndex - m - n \in Int /\ BaseQualityIndex - k - l \in Int
      /\ BaseQualityIndex - m - n <= BaseQualityIndex - k - l
  BY <1>6 DEF BaseQualityIndex
<1>8. Clamp(BaseQualityIndex - m - n) <= Clamp(BaseQualityIndex - k - l)
  BY <1>7, ClampIsMonotonic
<1> QED
  BY <1>4, <1>5, <1>8, IndexBySums

LEMMA ScaleNext ==
  ASSUME IndexInv, IndexStaysOnScale, [ProcessNext]_allVars
  PROVE  IndexStaysOnScale'
<1>1. ASSUME NEW w \in Workers, SaveQualityIndex(w)
      PROVE  IndexStaysOnScale'
  <2>1. stage[w] = "index"
    BY <1>1 DEF SaveQualityIndex, Executed
  <2>2. call[w] \in CallRecord
    BY <2>1, RunningCall DEF IndexInv, RecordFits
  <2>3. PICK S \in SUBSET [parameter : Parameters, level : AlertLevels],
             ws \in [Parameters -> Nat] \cup {<< >>}, A \in SUBSET AnomalyKey :
          S = call[w].alerts /\ ws = call[w].weights /\ A = call[w].anomalies
    BY <2>2 DEF CallRecord, AnomalyKey
  <2>4. IsFiniteSet(S) /\ IsFiniteSet(A)
    BY <2>1, <2>3 DEF IndexInv, ReadsAreCurrent, AfterAlerts
  <2>5. index' = CalculateIndex(S, ws, A)
    BY <1>1, <2>3 DEF SaveQualityIndex
  <2> QED
    BY <2>4, <2>5, IndexIsOnScale DEF IndexStaysOnScale
<1>2. ASSUME NEW w \in Workers, ProcessStep(w), ~ SaveQualityIndex(w)
      PROVE  index' = index
  BY <1>2 DEF ProcessStep, SaveTelemetryReading, AlertStatement, LoadActiveAlerts,
     LoadParameterHistory, LoadRiskHistory, FindOpenAnomaly, UpdateAnomaly,
     UpdateAnomalyMisses, CreateAnomaly, CreateAnomalyIsRefused, ResolveAnomaly,
     LoadActiveAnomalies, LoadQualityWeights, WriteFails
<1>3. ASSUME \/ \E w \in Workers : \E p \in Parameters : \E value \in Values[p] :
                  Validate(w, p, value)
             \/ \E user \in Users, i \in DOMAIN alerts : OperatorActs(user, i)
             \/ \E p \in Parameters :
                  \/ \E k \in DOMAIN Setpoints[p] : UpdateSetpoint(p, Setpoints[p][k])
                  \/ \E k \in DOMAIN Weights[p] : UpdateWeight(p, Weights[p][k])
             \/ UNCHANGED allVars
      PROVE  index' = index
  BY <1>3 DEF Validate, OperatorActs, UpdateSetpoint, UpdateWeight, allVars,
     processVars
<1> QED
  BY <1>1, <1>2, <1>3 DEF ProcessNext, IndexStaysOnScale

(* calculateQualityIndex: however many events are open, in whatever tables *)
(* the reads of a call found them, the index it saves stays on its scale.  *)
THEOREM IndexOnScale == ProcessSpec => []IndexStaysOnScale
<1>1. ProcessInit => IndexStaysOnScale
  <2> SUFFICES ASSUME ProcessInit PROVE IndexStaysOnScale
    OBVIOUS
  <2>1. weights \in [Parameters -> Nat]
    BY ProcessInitFits DEF TypeInv, TablesFit
  <2>2. index = CalculateIndex({}, weights, {})
    BY DEF ProcessInit
  <2>3. CalculateIndex({}, weights, {}).value \in 0 .. BaseQualityIndex
    BY <2>1, IndexIsOnScale, FS_EmptySet
  <2> QED
    BY <2>2, <2>3 DEF IndexStaysOnScale
<1>2. IndexInv /\ IndexStaysOnScale /\ [ProcessNext]_allVars => IndexStaysOnScale'
  BY ScaleNext
<1> QED
  BY <1>1, <1>2, ReadsStayCurrent, PTL DEF ProcessSpec

-----------------------------------------------------------------------------
(***************************************************************************)
(* The anomalies.  The search of a call is still valid when it writes, if  *)
(* the calls of no other worker meet on the anomaly.                       *)
(***************************************************************************)

(* All readings go through one worker: a server that is fed by Kafka only. *)
SingleConsumer == \A v, w \in Workers : v = w

(* The anomalies that the calls of a worker store or resolve. *)
Syncs(w) == UNION {Plan(p) : p \in Handles[w]}

(* No two workers meet on this anomaly. *)
Exclusive(key) ==
  \A v, w \in Workers : key \in Syncs(v) /\ key \in Syncs(w) => v = w

HandStages == {"update anomaly", "create anomaly"}

(* What a call learnt from its search still holds when it writes. *)
HandIsCurrent(w) ==
  Exclusive(Key(w)) =>
    /\ stage[w] = "update anomaly" =>
         OpenAnomalies(anomalies, Key(w)) \subseteq {call[w].found}
    /\ stage[w] = "create anomaly" => OpenAnomalies(anomalies, Key(w)) = {}

OneRow(key) == \A i, j \in OpenAnomalies(anomalies, key) : i = j

ExclusiveAnomaliesAreUnique ==
  \A key \in AnomalyKey : Exclusive(key) => OneRow(key)

AnomalyInv ==
  /\ TypeInv
  /\ ExclusiveAnomaliesAreUnique
  /\ \A w \in Workers : HandIsCurrent(w)

NoNewAnomaly ==
  \A key : OpenAnomalies(anomalies', key) \subseteq OpenAnomalies(anomalies, key)

LEMMA UniqueStaysUnique ==
  ASSUME ExclusiveAnomaliesAreUnique, NoNewAnomaly
  PROVE  ExclusiveAnomaliesAreUnique'
  BY DEF ExclusiveAnomaliesAreUnique, NoNewAnomaly, OneRow, Exclusive, Syncs, Plan

LEMMA OthersHandsStay ==
  ASSUME NEW v, HandIsCurrent(v), NoNewAnomaly, UNCHANGED <<stage[v], call[v]>>
  PROVE  HandIsCurrent(v)'
<1>1. Key(v)' = Key(v)
  BY DEF Key
<1> QED
  BY <1>1 DEF HandIsCurrent, NoNewAnomaly, Exclusive, Syncs

LEMMA EmptyHand ==
  ASSUME AnomalyInv, NEW w \in Workers, OthersStay(w), NoNewAnomaly,
         stage'[w] \notin HandStages
  PROVE  /\ ExclusiveAnomaliesAreUnique'
         /\ \A v \in Workers : HandIsCurrent(v)'
<1>1. ASSUME NEW v \in Workers PROVE HandIsCurrent(v)'
  <2>1. CASE v = w
    BY <2>1 DEF HandIsCurrent, HandStages
  <2>2. CASE v # w
    BY <2>2, OthersHandsStay DEF OthersStay, AnomalyInv
  <2> QED
    BY <2>1, <2>2
<1> QED
  BY <1>1, UniqueStaysUnique DEF AnomalyInv

LEMMA OnlySearchesTakeInHand ==
  ASSUME CallsAreJudged, NEW w \in Workers, ProcessStep(w),
         ~ FindOpenAnomaly(w), ~ UpdateAnomalyMisses(w)
  PROVE  stage'[w] \notin HandStages
<1>1. CASE \E newer \in 0 .. MaxNewer : SaveTelemetryReading(w, newer)
  BY <1>1 DEF SaveTelemetryReading, Fail, End, CallsAreJudged, HandStages
<1>2. CASE AlertStatement(w) \/ CreateAnomalyIsRefused(w) \/ WriteFails(w)
  BY <1>2 DEF AlertStatement, CreateAnomalyIsRefused, WriteFails, Fail, End,
              CallsAreJudged, HandStages
<1>3. ASSUME NEW from, NEW to, NEW locals, Executed(w, from, to, locals),
             to \notin HandStages
      PROVE  stage'[w] \notin HandStages
  BY <1>3, ExecutedMoves DEF Moves, Ends, HandStages
<1>4. /\ "history" \notin HandStages /\ "pressure" \notin HandStages
      /\ "moisture" \notin HandStages /\ "drive_load" \notin HandStages
      /\ "sync" \notin HandStages /\ "weights" \notin HandStages
      /\ "index" \notin HandStages /\ "idle" \notin HandStages
  BY DEF HandStages
<1>5. CASE \/ LoadActiveAlerts(w) \/ LoadParameterHistory(w)
           \/ LoadRiskHistory(w, "pressure", "moisture")
           \/ LoadRiskHistory(w, "moisture", "drive_load")
           \/ LoadRiskHistory(w, "drive_load", "sync")
  BY <1>3, <1>4, <1>5 DEF LoadActiveAlerts, LoadParameterHistory, LoadRiskHistory
<1>6. CASE UpdateAnomaly(w) \/ CreateAnomaly(w) \/ ResolveAnomaly(w)
  BY <1>3, <1>4, <1>6 DEF UpdateAnomaly, CreateAnomaly, ResolveAnomaly
<1>7. CASE LoadActiveAnomalies(w) \/ LoadQualityWeights(w) \/ SaveQualityIndex(w)
  BY <1>3, <1>4, <1>7 DEF LoadActiveAnomalies, LoadQualityWeights, SaveQualityIndex
<1> QED
  BY <1>1, <1>2, <1>5, <1>6, <1>7 DEF ProcessStep

LEMMA OnlyWritesChangeAnomalies ==
  ASSUME NEW w \in Workers, ProcessStep(w),
         ~ UpdateAnomaly(w), ~ CreateAnomaly(w), ~ ResolveAnomaly(w)
  PROVE  anomalies' = anomalies
  BY DEF ProcessStep, SaveTelemetryReading, AlertStatement, LoadActiveAlerts,
     LoadParameterHistory, LoadRiskHistory, FindOpenAnomaly, UpdateAnomalyMisses,
     CreateAnomalyIsRefused, LoadActiveAnomalies, LoadQualityWeights,
     SaveQualityIndex, WriteFails

LEMMA UpdateOpensNothing ==
  ASSUME TypeInv, NEW w \in Workers, UpdateAnomaly(w)
  PROVE  \A key : OpenAnomalies(anomalies', key) = OpenAnomalies(anomalies, key)
<1>1. stage[w] = "update anomaly"
  BY DEF UpdateAnomaly, Executed
<1>2. call[w].found \in DOMAIN anomalies /\ call[w].reading \in Nat
  BY <1>1, InHand DEF AnomalyInHand
<1>3. anomalies \in Seq(AnomalyRow)
  BY DEF TypeInv, TablesFit
<1>4. anomalies' = UpdateOpenAnomaly(anomalies, call[w].found, call[w].reading)
  BY DEF UpdateAnomaly
<1>5. /\ DOMAIN anomalies' = DOMAIN anomalies
      /\ \A k \in DOMAIN anomalies : /\ anomalies'[k].key = anomalies[k].key
                                     /\ anomalies'[k].status = anomalies[k].status
  BY <1>2, <1>3, <1>4, UpdateOpenAnomalyRows
<1> QED
  BY <1>5 DEF OpenAnomalies

LEMMA ResolveOpensNothing ==
  ASSUME TypeInv, NEW w \in Workers, ResolveAnomaly(w)
  PROVE  /\ OpenAnomalies(anomalies', Key(w)) = {}
         /\ \A key : key # Key(w) =>
              OpenAnomalies(anomalies', key) = OpenAnomalies(anomalies, key)
<1>1. /\ anomalies \in Seq(AnomalyRow)
      /\ anomalies' = ResolveOpenByTypeAndParameter(anomalies, Key(w))
  BY DEF ResolveAnomaly, TypeInv, TablesFit
<1>2. /\ DOMAIN anomalies' = DOMAIN anomalies
      /\ \A k \in DOMAIN anomalies :
           /\ anomalies'[k].key = anomalies[k].key
           /\ k \in OpenAnomalies(anomalies, Key(w)) =>
                anomalies'[k].status = "resolved"
           /\ k \notin OpenAnomalies(anomalies, Key(w)) =>
                anomalies'[k] = anomalies[k]
  BY <1>1, ResolveAnomalyRows
<1> QED
  BY <1>2 DEF OpenAnomalies

LEMMA CreateOpensOne ==
  ASSUME TypeInv, NEW w \in Workers, CreateAnomaly(w)
  PROVE  \E id : /\ OpenAnomalies(anomalies', Key(w)) =
                      OpenAnomalies(anomalies, Key(w)) \cup {id}
                 /\ \A key : key # Key(w) =>
                      OpenAnomalies(anomalies', key) = OpenAnomalies(anomalies, key)
<1>1. stage[w] = "create anomaly"
  BY DEF CreateAnomaly, Executed
<1>2. PICK key \in AnomalyKey : key = Key(w)
  BY <1>1, InHand
<1>3. PICK n \in Nat : n = call[w].reading
  BY <1>1, InHand
<1>4. anomalies' = CreateAnomalyRow(anomalies, key, n)
  BY <1>2, <1>3 DEF CreateAnomaly
<1>5. anomalies \in Seq(AnomalyRow)
  BY DEF TypeInv, TablesFit
<1> DEFINE new == CreateAnomalyRow(anomalies, key, n)
<1>6. /\ DOMAIN new = DOMAIN anomalies \cup {Len(anomalies) + 1}
      /\ Len(anomalies) + 1 \notin DOMAIN anomalies
      /\ \A k \in DOMAIN anomalies : new[k] = anomalies[k]
      /\ new[Len(anomalies) + 1].key = key
      /\ new[Len(anomalies) + 1].status = "active"
  <2>1. /\ DOMAIN new = DOMAIN anomalies \cup {Len(anomalies) + 1}
        /\ Len(anomalies) + 1 \notin DOMAIN anomalies
    BY <1>5, CreateAnomalyRows
  <2>2. \A k \in DOMAIN anomalies : new[k] = anomalies[k]
    BY <1>5, CreateAnomalyRows
  <2>3. /\ new[Len(anomalies) + 1].key = key
        /\ new[Len(anomalies) + 1].status = "active"
    BY <1>5, CreateAnomalyRows
  <2> QED
    BY <2>1, <2>2, <2>3
<1>7. PICK id : id = Len(anomalies) + 1
  OBVIOUS
<1> HIDE DEF new
<1>8. /\ DOMAIN anomalies' = DOMAIN anomalies \cup {id}
      /\ id \notin DOMAIN anomalies
      /\ \A k \in DOMAIN anomalies : anomalies'[k] = anomalies[k]
      /\ anomalies'[id].key = key
      /\ anomalies'[id].status = "active"
  BY <1>6, <1>4, <1>7 DEF new
<1>9. OpenAnomalies(anomalies', key) = OpenAnomalies(anomalies, key) \cup {id}
  BY <1>8 DEF OpenAnomalies
<1>10. ASSUME NEW k, k # key
      PROVE  OpenAnomalies(anomalies', k) = OpenAnomalies(anomalies, k)
  BY <1>8, <1>10 DEF OpenAnomalies
<1> QED
  BY <1>2, <1>9, <1>10

(* A key that a call has in hand is one of its worker's. *)
LEMMA HandIsOwn ==
  ASSUME TypeInv, NEW w \in Workers, stage[w] \in HandStages
  PROVE  Key(w) \in Syncs(w) /\ Key(w) \in AnomalyKey
<1>1. Key(w) \in call[w].todo /\ RecordFits(w, call[w]) /\ Key(w) \in AnomalyKey
  BY InHand DEF HandStages
<1> QED
  BY <1>1 DEF RecordFits, Syncs

LEMMA CreateKeepsUnique ==
  ASSUME AnomalyInv, NEW w \in Workers, CreateAnomaly(w)
  PROVE  /\ ExclusiveAnomaliesAreUnique'
         /\ \A v \in Workers : HandIsCurrent(v)'
<1>1. stage[w] = "create anomaly" /\ OthersStay(w) /\ stage'[w] \notin HandStages
  <2>1. Moves(w, "create anomaly", "sync", NextKey(w))
    BY ExecutedMoves DEF CreateAnomaly, AnomalyInv, TypeInv
  <2> QED
    BY <2>1 DEF Moves, Ends, HandStages
<1>2. PICK key : key = Key(w)
  OBVIOUS
<1>3. PICK id : /\ OpenAnomalies(anomalies', key) =
                     OpenAnomalies(anomalies, key) \cup {id}
                /\ \A k : k # key =>
                     OpenAnomalies(anomalies', k) = OpenAnomalies(anomalies, k)
  BY <1>2, CreateOpensOne DEF AnomalyInv
<1>4. Exclusive(key) => OpenAnomalies(anomalies, key) = {}
  BY <1>1, <1>2 DEF AnomalyInv, HandIsCurrent
<1>5. key \in Syncs(w)
  BY <1>1, <1>2, HandIsOwn DEF AnomalyInv, HandStages
<1>6. ExclusiveAnomaliesAreUnique'
  <2> SUFFICES ASSUME NEW k \in AnomalyKey, Exclusive(k),
                      NEW i \in OpenAnomalies(anomalies', k),
                      NEW j \in OpenAnomalies(anomalies', k)
               PROVE  i = j
    BY DEF ExclusiveAnomaliesAreUnique, OneRow, Exclusive, AnomalyKey, Syncs, Plan
  <2> QED
    BY <1>3, <1>4 DEF AnomalyInv, ExclusiveAnomaliesAreUnique, OneRow
<1>7. ASSUME NEW v \in Workers PROVE HandIsCurrent(v)'
  <2>1. CASE v = w \/ stage[v] \notin HandStages
    BY <1>1, <2>1 DEF HandIsCurrent, HandStages, OthersStay
  <2>2. CASE v # w /\ stage[v] \in HandStages
    <3>1. stage'[v] = stage[v] /\ call'[v] = call[v]
      BY <1>1, <2>2 DEF OthersStay
    <3>2. Key(v)' = Key(v)
      BY <3>1 DEF Key
    <3>3. Exclusive(Key(v)) => Key(v) # key
      BY <1>5, <2>2, HandIsOwn DEF AnomalyInv, Exclusive
    <3>4. HandIsCurrent(v)
      BY DEF AnomalyInv
    <3> QED
      BY <1>3, <3>1, <3>2, <3>3, <3>4 DEF HandIsCurrent, Exclusive, Syncs
  <2> QED
    BY <2>1, <2>2
<1> QED
  BY <1>6, <1>7

LEMMA SearchIsCurrent ==
  ASSUME AnomalyInv, NEW w \in Workers, FindOpenAnomaly(w) \/ UpdateAnomalyMisses(w)
  PROVE  /\ ExclusiveAnomaliesAreUnique'
         /\ \A v \in Workers : HandIsCurrent(v)'
<1>1. NoNewAnomaly /\ anomalies' = anomalies
  BY DEF FindOpenAnomaly, UpdateAnomalyMisses, NoNewAnomaly
<1>2. OthersStay(w)
  BY ProcessStepFrame DEF ProcessStep, AnomalyInv, TypeInv
<1>3. ExclusiveAnomaliesAreUnique'
  BY <1>1, UniqueStaysUnique DEF AnomalyInv
<1>4. RecordFits(w, call[w]) /\ Plan(call[w].parameter) \subseteq AnomalyKey
  BY RunningCall DEF FindOpenAnomaly, UpdateAnomalyMisses, Executed, AnomalyInv
<1>5. Key(w) \in AnomalyKey
  <2>1. CASE FindOpenAnomaly(w)
    BY <1>4, <2>1, KeyIsPlanned DEF FindOpenAnomaly, RecordFits
  <2>2. CASE UpdateAnomalyMisses(w)
    BY <2>2, HandIsOwn DEF UpdateAnomalyMisses, Executed, AnomalyInv, HandStages
  <2> QED
    BY <2>1, <2>2
<1>6. ASSUME NEW n \in Nat
      PROVE  LET d == [call[w] EXCEPT !.found = n]
             IN  /\ d.found = n /\ d.parameter = call[w].parameter
                 /\ d.detected = call[w].detected /\ d.todo = call[w].todo
  BY <1>4, CallFound DEF RecordFits, SameReading
<1>7. HandIsCurrent(w)'
  <2>1. ASSUME FindOpenAnomaly(w),
               NEW i \in OpenAnomalies(anomalies, Key(w)),
               Executed(w, "sync", "update anomaly", [call[w] EXCEPT !.found = i])
        PROVE  HandIsCurrent(w)'
    <3> DEFINE locals == [call[w] EXCEPT !.found = i]
    <3>1. i \in Nat
      BY DEF OpenAnomalies, AnomalyInv, TypeInv, TablesFit
    <3>2. /\ locals.found = i /\ locals.parameter = call[w].parameter
          /\ locals.detected = call[w].detected /\ locals.todo = call[w].todo
      BY <1>6, <3>1
    <3>3. Moves(w, "sync", "update anomaly", locals)
      BY <2>1, ExecutedMoves DEF AnomalyInv, TypeInv
    <3> HIDE DEF locals
    <3>4. Exclusive(Key(w)) => OpenAnomalies(anomalies, Key(w)) \subseteq {i}
      BY <1>5 DEF AnomalyInv, ExclusiveAnomaliesAreUnique, OneRow
    <3>5. CASE Ends(w)
      BY <3>5 DEF Ends, HandIsCurrent
    <3>6. CASE stage'[w] = "update anomaly" /\ call'[w] = locals
      <4>1. Key(w)' = Key(w)
        BY <3>2, <3>6 DEF Key
      <4> QED
        BY <1>1, <3>2, <3>4, <3>6, <4>1 DEF HandIsCurrent, Exclusive, Syncs
    <3> QED
      BY <3>3, <3>5, <3>6 DEF Moves
  <2>2. ASSUME NEW locals, NEW from, Executed(w, from, "create anomaly", locals),
               locals.parameter = call[w].parameter,
               locals.detected = call[w].detected, locals.todo = call[w].todo,
               Exclusive(Key(w)) => OpenAnomalies(anomalies, Key(w)) = {}
        PROVE  HandIsCurrent(w)'
    <3>1. Moves(w, from, "create anomaly", locals)
      BY <2>2, ExecutedMoves DEF AnomalyInv, TypeInv
    <3>2. CASE Ends(w)
      BY <3>2 DEF Ends, HandIsCurrent
    <3>3. CASE stage'[w] = "create anomaly" /\ call'[w] = locals
      <4>1. Key(w)' = Key(w)
        BY <2>2, <3>3 DEF Key
      <4> QED
        BY <1>1, <2>2, <3>3, <4>1 DEF HandIsCurrent, Exclusive, Syncs
    <3> QED
      BY <3>1, <3>2, <3>3 DEF Moves
  <2>3. CASE UpdateAnomalyMisses(w)
    <3> DEFINE locals == [call[w] EXCEPT !.found = 0]
    <3>1. /\ Executed(w, "update anomaly", "create anomaly", locals)
          /\ stage[w] = "update anomaly"
          /\ anomalies[call[w].found].status # "active"
      BY <2>3 DEF UpdateAnomalyMisses, Executed, UpdateOpenAnomalyHits
    <3>2. /\ locals.parameter = call[w].parameter
          /\ locals.detected = call[w].detected /\ locals.todo = call[w].todo
      BY <1>6
    <3> HIDE DEF locals
    <3>3. Exclusive(Key(w)) => OpenAnomalies(anomalies, Key(w)) = {}
      BY <3>1 DEF AnomalyInv, HandIsCurrent, OpenAnomalies
    <3> QED
      BY <2>2, <3>1, <3>2, <3>3
  <2>4. CASE FindOpenAnomaly(w)
    <3>1. CASE /\ OpenAnomalies(anomalies, Key(w)) = {}
               /\ Executed(w, "sync", "create anomaly", call[w])
      BY <2>2, <3>1
    <3> QED
      BY <2>1, <2>4, <3>1 DEF FindOpenAnomaly
  <2> QED
    BY <2>3, <2>4
<1>8. ASSUME NEW v \in Workers \ {w} PROVE HandIsCurrent(v)'
  BY <1>1, <1>2, OthersHandsStay DEF OthersStay, AnomalyInv
<1> QED
  BY <1>3, <1>7, <1>8

UniqueNext ==
  /\ ExclusiveAnomaliesAreUnique'
  /\ \A v \in Workers : HandIsCurrent(v)'

LEMMA AnomalyNext ==
  ASSUME AnomalyInv, [ProcessNext]_allVars
  PROVE  AnomalyInv'
<1>1. TypeInv'
  BY ProcessNextFits DEF AnomalyInv
<1>2. CallsAreJudged
  BY DEF AnomalyInv, TypeInv
<1>3. ASSUME NEW w \in Workers, ProcessStep(w)
      PROVE  UniqueNext
  <2>1. OthersStay(w)
    BY <1>2, <1>3, ProcessStepFrame
  <2>2. CASE FindOpenAnomaly(w) \/ UpdateAnomalyMisses(w)
    BY <2>2, SearchIsCurrent DEF UniqueNext
  <2>3. CASE CreateAnomaly(w)
    BY <2>3, CreateKeepsUnique DEF UniqueNext
  <2>4. CASE ~ (FindOpenAnomaly(w) \/ UpdateAnomalyMisses(w) \/ CreateAnomaly(w))
    <3>1. stage'[w] \notin HandStages
      BY <1>2, <1>3, <2>4, OnlySearchesTakeInHand
    <3>2. NoNewAnomaly
      <4>1. CASE UpdateAnomaly(w) \/ ResolveAnomaly(w)
        BY <4>1, UpdateOpensNothing, ResolveOpensNothing
           DEF AnomalyInv, NoNewAnomaly
      <4>2. CASE ~ (UpdateAnomaly(w) \/ ResolveAnomaly(w))
        <5>1. anomalies' = anomalies
          BY <1>3, <2>4, <4>2, OnlyWritesChangeAnomalies
        <5> QED
          BY <5>1 DEF NoNewAnomaly
      <4> QED
        BY <4>1, <4>2
    <3> QED
      BY <2>1, <3>1, <3>2, EmptyHand DEF UniqueNext
  <2> QED
    BY <2>2, <2>3, <2>4
<1>4. ASSUME NEW w \in Workers, NEW p \in Parameters, NEW value \in Values[p],
             Validate(w, p, value)
      PROVE  UniqueNext
  <2>1. /\ NoNewAnomaly
        /\ stage'[w] = "save"
        /\ \A v \in Workers \ {w} : stage'[v] = stage[v] /\ call'[v] = call[v]
    BY <1>2, <1>4 DEF Validate, NoNewAnomaly, CallsAreJudged
  <2> QED
    BY <2>1, EmptyHand DEF OthersStay, HandStages, UniqueNext
<1>5. ASSUME UNCHANGED <<stage, call, anomalies>>
      PROVE  UniqueNext
  <2>1. NoNewAnomaly
    BY <1>5 DEF NoNewAnomaly
  <2> QED
    BY <1>5, <2>1, UniqueStaysUnique, OthersHandsStay DEF AnomalyInv, UniqueNext
<1>6. ASSUME \/ \E user \in Users, i \in DOMAIN alerts : OperatorActs(user, i)
             \/ \E p \in Parameters :
                  \/ \E k \in DOMAIN Setpoints[p] : UpdateSetpoint(p, Setpoints[p][k])
                  \/ \E k \in DOMAIN Weights[p] : UpdateWeight(p, Weights[p][k])
             \/ UNCHANGED allVars
      PROVE  UniqueNext
  <2>1. UNCHANGED <<stage, call, anomalies>>
    BY <1>6 DEF OperatorActs, UpdateSetpoint, UpdateWeight, allVars, processVars
  <2> QED
    BY <1>5, <2>1
<1>7. UniqueNext
  BY <1>3, <1>4, <1>6 DEF ProcessNext
<1> QED
  BY <1>1, <1>7 DEF AnomalyInv, UniqueNext

LEMMA AnomaliesStayUnique == ProcessSpec => []AnomalyInv
<1>1. ProcessInit => AnomalyInv
  <2> SUFFICES ASSUME ProcessInit PROVE AnomalyInv
    OBVIOUS
  <2>1. \A key : OpenAnomalies(anomalies, key) = {}
    BY DEF ProcessInit, OpenAnomalies
  <2>2. ExclusiveAnomaliesAreUnique
    BY <2>1 DEF ExclusiveAnomaliesAreUnique, OneRow
  <2>3. \A w \in Workers : HandIsCurrent(w)
    BY <2>1 DEF HandIsCurrent
  <2> QED
    BY <2>2, <2>3, ProcessInitFits DEF AnomalyInv
<1> QED
  BY <1>1, AnomalyNext, PTL DEF ProcessSpec

(* createOrUpdateOpenAnomaly searches and then writes, without a lock or a *)
(* transaction: while all readings go through one consumer, no anomaly has *)
(* two open rows, whatever fails and wherever a call ends.                 *)
THEOREM OneConsumerKeepsOneAnomaly ==
  ASSUME SingleConsumer
  PROVE  ProcessSpec => []AtMostOneOpenAnomaly
<1>1. AnomalyInv => AtMostOneOpenAnomaly
  <2> SUFFICES ASSUME AnomalyInv, NEW i \in DOMAIN anomalies,
                      NEW j \in DOMAIN anomalies,
                      anomalies[i].status = "active", anomalies[j].status = "active",
                      anomalies[i].key = anomalies[j].key
               PROVE  i = j
    BY DEF AtMostOneOpenAnomaly
  <2>1. anomalies[i].key \in AnomalyKey
    <3>1. anomalies[i] \in AnomalyRow
      BY DEF AnomalyInv, TypeInv, TablesFit
    <3> QED
      BY <3>1 DEF AnomalyRow
  <2>2. OneRow(anomalies[i].key)
    BY <2>1 DEF SingleConsumer, AnomalyInv, ExclusiveAnomaliesAreUnique, Exclusive
  <2> QED
    BY <2>2 DEF OneRow, OpenAnomalies
<1> QED
  BY <1>1, AnomaliesStayUnique, PTL

OwnAnomaliesAreUnique ==
  \A p \in Parameters : OneRow(Jump(p)) /\ OneRow(Drift(p))

(* Of createOrUpdateOpenAnomaly again, when each parameter has one writer: *)
(* no jump and no drift has two open rows.  Only the combined risk may, as *)
(* the calls of all parameters store it.                                   *)
THEOREM SingleWriterKeepsOwnAnomaliesUnique ==
  ASSUME SingleWriter
  PROVE  ProcessSpec => []OwnAnomaliesAreUnique
<1>1. ASSUME NEW p \in Parameters
      PROVE  /\ Exclusive(Jump(p)) /\ Exclusive(Drift(p))
             /\ Jump(p) \in AnomalyKey /\ Drift(p) \in AnomalyKey
  <2>1. ASSUME NEW q, Jump(p) \in Plan(q) \/ Drift(p) \in Plan(q)
        PROVE  q = p
    BY <2>1 DEF Plan, Jump, Drift, CombinedRisk
  <2>2. ASSUME NEW w \in Workers, Jump(p) \in Syncs(w) \/ Drift(p) \in Syncs(w)
        PROVE  p \in Handles[w]
    BY <2>1, <2>2 DEF Syncs
  <2> QED
    BY <2>1, <2>2, PlanType DEF Exclusive, SingleWriter, Plan
<1>2. AnomalyInv => OwnAnomaliesAreUnique
  BY <1>1 DEF AnomalyInv, ExclusiveAnomaliesAreUnique, OwnAnomaliesAreUnique
<1> QED
  BY <1>2, AnomaliesStayUnique, PTL

-----------------------------------------------------------------------------
(***************************************************************************)
(* How many rows of an anomaly are open, when workers meet on it.  A call  *)
(* that is about to insert a row, or will be as the row it found has been  *)
(* closed, owes the anomaly a row; open and owed rows together are never   *)
(* more than the writers.                                                  *)
(***************************************************************************)

Owes(w) ==
  \/ stage[w] = "create anomaly"
  \/ stage[w] = "update anomaly" /\ anomalies[call[w].found].status # "active"

Owing(key) == {w \in Workers : Owes(w) /\ Key(w) = key}

RoomLeft(key) ==
  Cardinality(OpenAnomalies(anomalies, key)) + Cardinality(Owing(key))
    <= Cardinality(Writers(key))

RoomInv == TypeInv /\ \A key \in AnomalyKey : RoomLeft(key)

WritersOwe == \A key \in AnomalyKey : Owing(key) \subseteq Writers(key)

LEMMA OnlyWritersOwe == TypeInv => WritersOwe
<1> SUFFICES ASSUME TypeInv, NEW key \in AnomalyKey, NEW w \in Owing(key)
             PROVE  w \in Writers(key)
  BY DEF WritersOwe
<1>1. w \in Workers /\ stage[w] \in HandStages /\ Key(w) = key
  BY DEF Owing, Owes, HandStages
<1> QED
  BY <1>1, HandIsOwn DEF Writers, Syncs

LEMMA FiniteWriters ==
  ASSUME IsFiniteSet(Workers), NEW key
  PROVE  IsFiniteSet(Writers(key)) /\ Cardinality(Writers(key)) \in Nat
  BY FS_Subset, FS_CardinalityType DEF Writers

LEMMA FiniteOpen ==
  ASSUME TablesFit, NEW key
  PROVE  /\ IsFiniteSet(OpenAnomalies(anomalies, key))
         /\ Cardinality(OpenAnomalies(anomalies, key)) \in Nat
<1>1. PICK n \in Nat : n = Len(anomalies) /\ DOMAIN anomalies = 1 .. n
  BY DEF TablesFit
<1>2. OpenAnomalies(anomalies, key) \in SUBSET (1 .. n)
  BY <1>1 DEF OpenAnomalies
<1> QED
  <2>1. IsFiniteSet(1 .. n)
    BY FS_Interval
  <2>2. IsFiniteSet(OpenAnomalies(anomalies, key))
    BY <1>2, <2>1, FS_Subset
  <2> QED
    BY <2>2, FS_CardinalityType

(* The arithmetic of one step: a set of open rows and one of owing workers *)
(* within the bound; what they may become.                                 *)
LEMMA NothingAdded ==
  ASSUME NEW O, IsFiniteSet(O), NEW D, IsFiniteSet(D), NEW n \in Nat,
         Cardinality(O) + Cardinality(D) <= n,
         NEW P \in SUBSET O, NEW E \in SUBSET D
  PROVE  Cardinality(P) + Cardinality(E) <= n
<1>1. PICK o \in Nat, d \in Nat : o = Cardinality(O) /\ d = Cardinality(D)
  BY FS_CardinalityType
<1>2. PICK p \in Nat, e \in Nat :
        p = Cardinality(P) /\ e = Cardinality(E) /\ p <= o /\ e <= d
  BY <1>1, FS_Subset, FS_CardinalityType
<1> QED
  BY <1>1, <1>2

LEMMA OneIsPaid ==
  ASSUME NEW O, IsFiniteSet(O), NEW D, IsFiniteSet(D), NEW n \in Nat,
         Cardinality(O) + Cardinality(D) <= n,
         NEW id, NEW w \in D, NEW E \in SUBSET (D \ {w})
  PROVE  Cardinality(O \cup {id}) + Cardinality(E) <= n
<1>1. PICK o \in Nat, d \in Nat : o = Cardinality(O) /\ d = Cardinality(D)
  BY FS_CardinalityType
<1>2. PICK c \in Nat : c = Cardinality(D \ {w}) /\ c = d - 1 /\ IsFiniteSet(D \ {w})
  BY <1>1, FS_RemoveElement, FS_CardinalityType
<1>3. PICK e \in Nat : e = Cardinality(E) /\ e <= c
  BY <1>2, FS_Subset, FS_CardinalityType
<1>4. PICK p \in Nat : p = Cardinality(O \cup {id}) /\ p <= o + 1
  BY <1>1, FS_AddElement, FS_CardinalityType
<1> QED
  BY <1>1, <1>2, <1>3, <1>4

LEMMA NoneOpen ==
  ASSUME NEW W, IsFiniteSet(W), NEW E \in SUBSET W
  PROVE  Cardinality({}) + Cardinality(E) <= Cardinality(W)
<1>1. PICK n \in Nat, e \in Nat : n = Cardinality(W) /\ e = Cardinality(E) /\ e <= n
  BY FS_Subset, FS_CardinalityType
<1>2. Cardinality({}) = 0
  BY FS_EmptySet
<1> QED
  BY <1>1, <1>2

(* A worker that did not step owes an anomaly no row that it did not owe,  *)
(* unless rows of the anomaly were closed.                                 *)
LEMMA OthersOwe ==
  ASSUME TypeInv, NEW key,
         OpenAnomalies(anomalies, key) \subseteq OpenAnomalies(anomalies', key),
         NEW v \in Workers, UNCHANGED <<stage[v], call[v]>>, v \in Owing(key)'
  PROVE  v \in Owing(key)
<1>1. Key(v)' = Key(v)
  BY DEF Key
<1>2. Key(v) = key /\ Owes(v)'
  BY <1>1 DEF Owing
<1>3. CASE stage[v] = "create anomaly"
  BY <1>2, <1>3 DEF Owing, Owes
<1>4. CASE stage[v] = "update anomaly"
  <2>1. /\ call[v].found \in DOMAIN anomalies
        /\ anomalies[call[v].found].key = key
    BY <1>2, <1>4, InHand DEF AnomalyInHand
  <2>2. anomalies'[call[v].found].status # "active"
    BY <1>2, <1>4 DEF Owes
  <2>3. anomalies[call[v].found].status # "active"
    BY <2>1, <2>2 DEF OpenAnomalies
  <2> QED
    BY <1>2, <1>4, <2>3 DEF Owing, Owes
<1> QED
  BY <1>2, <1>3, <1>4 DEF Owes

RoomNext(key) == RoomLeft(key)'

(* The rows of the anomaly stay open, and w owes it none that it did not.  *)
LEMMA RoomStays ==
  ASSUME IsFiniteSet(Workers), RoomInv, NEW key \in AnomalyKey,
         NEW w \in Workers, OthersStay(w),
         OpenAnomalies(anomalies', key) = OpenAnomalies(anomalies, key),
         w \in Owing(key)' => w \in Owing(key)
  PROVE  RoomNext(key)
<1>1. Owing(key)' \subseteq Owing(key)
  <2> SUFFICES ASSUME NEW v \in Workers, v \in Owing(key)' PROVE v \in Owing(key)
    BY DEF Owing
  <2>1. CASE v = w
    BY <2>1
  <2>2. CASE v # w
    BY <2>2, OthersOwe DEF RoomInv, OthersStay
  <2> QED
    BY <2>1, <2>2
<1>2. /\ IsFiniteSet(OpenAnomalies(anomalies, key)) /\ IsFiniteSet(Owing(key))
      /\ Cardinality(Writers(key)) \in Nat
  BY FiniteOpen, FiniteWriters, FS_Subset DEF RoomInv, TypeInv, Owing
<1>3. Cardinality(OpenAnomalies(anomalies, key)) + Cardinality(Owing(key))
        <= Cardinality(Writers(key))
  BY DEF RoomInv, RoomLeft
<1>4. Cardinality(OpenAnomalies(anomalies', key)) + Cardinality(Owing(key)')
        <= Cardinality(Writers(key))
  BY <1>1, <1>2, <1>3, NothingAdded
<1> QED
  BY <1>4 DEF RoomNext, RoomLeft, Writers, Plan

LEMMA RoomWhenClosed ==
  ASSUME IsFiniteSet(Workers), WritersOwe', NEW key \in AnomalyKey,
         OpenAnomalies(anomalies', key) = {}
  PROVE  RoomNext(key)
<1>1. Owing(key)' \subseteq Writers(key)
  BY DEF WritersOwe, Writers, AnomalyKey, Plan
<1>2. IsFiniteSet(Writers(key))
  BY FiniteWriters
<1>3. Cardinality({}) + Cardinality(Owing(key)') <= Cardinality(Writers(key))
  BY <1>1, <1>2, NoneOpen
<1> QED
  BY <1>3 DEF RoomNext, RoomLeft, Writers, Plan

LEMMA LeavesNothingOwed ==
  ASSUME NEW w, stage'[w] \notin HandStages, NEW key
  PROVE  w \notin Owing(key)'
  BY DEF Owing, Owes, HandStages

LEMMA CreateUsesRoom ==
  ASSUME IsFiniteSet(Workers), RoomInv, NEW w \in Workers, CreateAnomaly(w),
         NEW key \in AnomalyKey
  PROVE  RoomNext(key)
<1>1. stage[w] = "create anomaly" /\ OthersStay(w) /\ stage'[w] \notin HandStages
  <2>1. Moves(w, "create anomaly", "sync", NextKey(w))
    BY ExecutedMoves DEF CreateAnomaly, RoomInv, TypeInv
  <2> QED
    BY <2>1 DEF Moves, Ends, HandStages
<1>2. w \notin Owing(key)'
  BY <1>1, LeavesNothingOwed
<1>3. PICK id : /\ OpenAnomalies(anomalies', Key(w)) =
                     OpenAnomalies(anomalies, Key(w)) \cup {id}
                /\ \A k : k # Key(w) =>
                     OpenAnomalies(anomalies', k) = OpenAnomalies(anomalies, k)
  BY CreateOpensOne DEF RoomInv
<1>4. CASE key # Key(w)
  BY <1>1, <1>2, <1>3, <1>4, RoomStays
<1>5. CASE key = Key(w)
  <2>1. w \in Owing(key)
    BY <1>1, <1>5 DEF Owing, Owes
  <2>2. Owing(key)' \subseteq Owing(key) \ {w}
    <3> SUFFICES ASSUME NEW v \in Workers, v \in Owing(key)'
                 PROVE  v \in Owing(key) /\ v # w
      BY DEF Owing
    <3>1. v # w
      BY <1>2
    <3>2. OpenAnomalies(anomalies, key) \subseteq OpenAnomalies(anomalies', key)
      BY <1>3, <1>5
    <3> QED
      BY <1>1, <3>1, <3>2, OthersOwe DEF RoomInv, OthersStay
  <2>3. /\ IsFiniteSet(OpenAnomalies(anomalies, key)) /\ IsFiniteSet(Owing(key))
        /\ Cardinality(Writers(key)) \in Nat
    BY FiniteOpen, FiniteWriters, FS_Subset DEF RoomInv, TypeInv, Owing
  <2>4. Cardinality(OpenAnomalies(anomalies, key)) + Cardinality(Owing(key))
          <= Cardinality(Writers(key))
    BY DEF RoomInv, RoomLeft
  <2>5. Cardinality(OpenAnomalies(anomalies, key) \cup {id}) + Cardinality(Owing(key)')
          <= Cardinality(Writers(key))
    BY <2>1, <2>2, <2>3, <2>4, OneIsPaid
  <2> QED
    BY <1>3, <1>5, <2>5 DEF RoomNext, RoomLeft, Writers, Plan
<1> QED
  BY <1>4, <1>5

LEMMA ResolveMakesRoom ==
  ASSUME IsFiniteSet(Workers), RoomInv, WritersOwe', NEW w \in Workers,
         ResolveAnomaly(w), NEW key \in AnomalyKey
  PROVE  RoomNext(key)
<1>1. OthersStay(w) /\ stage'[w] \notin HandStages
  <2>1. Moves(w, "sync", "sync", NextKey(w))
    BY ExecutedMoves DEF ResolveAnomaly, RoomInv, TypeInv
  <2> QED
    BY <2>1 DEF Moves, Ends, HandStages
<1>2. w \notin Owing(key)'
  BY <1>1, LeavesNothingOwed
<1>3. /\ OpenAnomalies(anomalies', Key(w)) = {}
      /\ \A k : k # Key(w) =>
           OpenAnomalies(anomalies', k) = OpenAnomalies(anomalies, k)
  BY ResolveOpensNothing DEF RoomInv
<1>4. CASE key = Key(w)
  BY <1>3, <1>4, RoomWhenClosed
<1>5. CASE key # Key(w)
  BY <1>1, <1>2, <1>3, <1>5, RoomStays
<1> QED
  BY <1>4, <1>5

LEMMA SearchLeavesRoom ==
  ASSUME IsFiniteSet(Workers), RoomInv, WritersOwe', NEW w \in Workers,
         FindOpenAnomaly(w), NEW key \in AnomalyKey
  PROVE  RoomNext(key)
<1>1. anomalies' = anomalies /\ stage[w] = "sync"
  BY DEF FindOpenAnomaly
<1>2. RecordFits(w, call[w])
  BY <1>1, RunningCall DEF RoomInv
<1>3. CASE OpenAnomalies(anomalies, key) = {}
  BY <1>1, <1>3, RoomWhenClosed
<1>4. CASE OpenAnomalies(anomalies, key) # {}
  <2>1. ASSUME NEW i \in OpenAnomalies(anomalies, Key(w)),
               Executed(w, "sync", "update anomaly", [call[w] EXCEPT !.found = i])
        PROVE  RoomNext(key)
    <3> DEFINE locals == [call[w] EXCEPT !.found = i]
    <3>1. i \in Nat /\ anomalies[i].status = "active"
      BY DEF OpenAnomalies, RoomInv, TypeInv, TablesFit
    <3>2. locals.found = i
      BY <1>2, <3>1, CallFound DEF RecordFits
    <3>3. Moves(w, "sync", "update anomaly", locals)
      BY <2>1, ExecutedMoves DEF RoomInv, TypeInv
    <3> HIDE DEF locals
    <3>4. w \notin Owing(key)'
      BY <1>1, <3>1, <3>2, <3>3 DEF Moves, Ends, Owing, Owes
    <3> QED
      BY <1>1, <3>3, <3>4, RoomStays DEF Moves
  <2>2. ASSUME OpenAnomalies(anomalies, Key(w)) = {},
               Executed(w, "sync", "create anomaly", call[w])
        PROVE  RoomNext(key)
    <3>1. Moves(w, "sync", "create anomaly", call[w])
      BY <2>2, ExecutedMoves DEF RoomInv, TypeInv
    <3>2. Key(w) # key
      BY <1>4, <2>2
    <3>3. w \notin Owing(key)'
      <4>1. CASE Ends(w)
        BY <4>1 DEF Ends, Owing, Owes
      <4>2. CASE call'[w] = call[w]
        <5>1. Key(w)' = Key(w)
          BY <4>2 DEF Key
        <5> QED
          BY <3>2, <5>1 DEF Owing
      <4> QED
        BY <3>1, <4>1, <4>2 DEF Moves
    <3> QED
      BY <1>1, <3>1, <3>3, RoomStays DEF Moves
  <2> QED
    BY <2>1, <2>2 DEF FindOpenAnomaly
<1> QED
  BY <1>3, <1>4

LEMMA MissKeepsRoom ==
  ASSUME IsFiniteSet(Workers), RoomInv, NEW w \in Workers,
         UpdateAnomalyMisses(w), NEW key \in AnomalyKey
  PROVE  RoomNext(key)
<1> DEFINE locals == [call[w] EXCEPT !.found = 0]
<1>1. /\ anomalies' = anomalies
      /\ stage[w] = "update anomaly"
      /\ anomalies[call[w].found].status # "active"
      /\ Executed(w, "update anomaly", "create anomaly", locals)
  BY DEF UpdateAnomalyMisses, Executed, UpdateOpenAnomalyHits
<1>2. /\ locals.parameter = call[w].parameter
      /\ locals.detected = call[w].detected /\ locals.todo = call[w].todo
  <2>1. call[w] \in CallRecord /\ 0 \in Nat
    BY <1>1, InHand DEF RoomInv, RecordFits
  <2> QED
    BY <2>1, CallFound DEF SameReading
<1> HIDE DEF locals
<1>3. Moves(w, "update anomaly", "create anomaly", locals)
  BY <1>1, ExecutedMoves DEF RoomInv, TypeInv
<1>4. w \in Owing(key)' => w \in Owing(key)
  <2>1. CASE Ends(w)
    BY <2>1 DEF Ends, Owing, Owes
  <2>2. CASE call'[w] = locals
    <3>1. Key(w)' = Key(w)
      BY <1>2, <2>2 DEF Key
    <3> QED
      BY <1>1, <3>1 DEF Owing, Owes
  <2> QED
    BY <1>3, <2>1, <2>2 DEF Moves
<1> QED
  BY <1>1, <1>3, <1>4, RoomStays DEF Moves

LEMMA StepKeepsRoom ==
  ASSUME IsFiniteSet(Workers), RoomInv, WritersOwe', NEW w \in Workers,
         ProcessStep(w), NEW key \in AnomalyKey
  PROVE  RoomNext(key)
<1>1. CallsAreJudged
  BY DEF RoomInv, TypeInv
<1>2. OthersStay(w)
  BY <1>1, ProcessStepFrame
<1>3. CASE FindOpenAnomaly(w) \/ UpdateAnomalyMisses(w)
  BY <1>3, SearchLeavesRoom, MissKeepsRoom
<1>4. CASE CreateAnomaly(w) \/ ResolveAnomaly(w)
  BY <1>4, CreateUsesRoom, ResolveMakesRoom
<1>5. CASE ~ (\/ FindOpenAnomaly(w) \/ UpdateAnomalyMisses(w)
              \/ CreateAnomaly(w) \/ ResolveAnomaly(w))
  <2>1. w \notin Owing(key)'
    BY <1>1, <1>5, OnlySearchesTakeInHand, LeavesNothingOwed
  <2>2. OpenAnomalies(anomalies', key) = OpenAnomalies(anomalies, key)
    <3>1. CASE UpdateAnomaly(w)
      BY <3>1, UpdateOpensNothing DEF RoomInv
    <3>2. CASE ~ UpdateAnomaly(w)
      <4>1. anomalies' = anomalies
        BY <1>5, <3>2, OnlyWritesChangeAnomalies
      <4> QED
        BY <4>1
    <3> QED
      BY <3>1, <3>2
  <2> QED
    BY <1>2, <2>1, <2>2, RoomStays
<1> QED
  BY <1>3, <1>4, <1>5

LEMMA RoomNextStep ==
  ASSUME IsFiniteSet(Workers), RoomInv, WritersOwe', [ProcessNext]_allVars,
         NEW key \in AnomalyKey
  PROVE  RoomNext(key)
<1>1. CallsAreJudged
  BY DEF RoomInv, TypeInv
<1>2. ASSUME NEW w \in Workers, ProcessStep(w)
      PROVE  RoomNext(key)
  BY <1>2, StepKeepsRoom
<1>3. ASSUME NEW w \in Workers, NEW p \in Parameters, NEW value \in Values[p],
             Validate(w, p, value)
      PROVE  RoomNext(key)
  <2>1. /\ anomalies' = anomalies /\ stage'[w] = "save" /\ OthersStay(w)
    BY <1>1, <1>3 DEF Validate, CallsAreJudged, OthersStay
  <2>2. w \notin Owing(key)'
    BY <2>1, LeavesNothingOwed DEF HandStages
  <2> QED
    BY <2>1, <2>2, RoomStays
<1>4. ASSUME UNCHANGED <<stage, call, anomalies>>
      PROVE  RoomNext(key)
  <2>1. RoomLeft(key)' = RoomLeft(key)
    BY <1>4 DEF RoomLeft, Owing, Owes, Key, Writers, Plan
  <2> QED
    BY <2>1 DEF RoomInv, RoomNext
<1>5. ASSUME \/ \E user \in Users, i \in DOMAIN alerts : OperatorActs(user, i)
             \/ \E p \in Parameters :
                  \/ \E k \in DOMAIN Setpoints[p] : UpdateSetpoint(p, Setpoints[p][k])
                  \/ \E k \in DOMAIN Weights[p] : UpdateWeight(p, Weights[p][k])
             \/ UNCHANGED allVars
      PROVE  RoomNext(key)
  <2>1. UNCHANGED <<stage, call, anomalies>>
    BY <1>5 DEF OperatorActs, UpdateSetpoint, UpdateWeight, allVars, processVars
  <2> QED
    BY <1>4, <2>1
<1> QED
  BY <1>2, <1>3, <1>5 DEF ProcessNext

LEMMA RoomInvNext ==
  ASSUME IsFiniteSet(Workers), RoomInv, WritersOwe', [ProcessNext]_allVars
  PROVE  RoomInv'
<1>1. TypeInv'
  BY ProcessNextFits DEF RoomInv
<1>2. \A key \in AnomalyKey : RoomNext(key)
  BY RoomNextStep
<1> QED
  BY <1>1, <1>2 DEF RoomInv, RoomNext, AnomalyKey

LEMMA InitialRoom ==
  ASSUME IsFiniteSet(Workers), ProcessInit
  PROVE  RoomInv
<1>1. TypeInv
  BY ProcessInitFits
<1>2. ASSUME NEW key \in AnomalyKey PROVE RoomLeft(key)
  <2>0. OpenAnomalies(anomalies, key) = {}
    BY DEF ProcessInit, OpenAnomalies
  <2>1. Owing(key) = {}
    <3>1. \A w \in Workers : stage[w] = "idle"
      BY DEF ProcessInit
    <3> QED
      BY <3>1 DEF Owing, Owes
  <2>2. Cardinality(Writers(key)) \in Nat /\ Cardinality({}) = 0
    BY FiniteWriters, FS_EmptySet
  <2> QED
    BY <2>0, <2>1, <2>2 DEF RoomLeft
<1> QED
  BY <1>1, <1>2 DEF RoomInv

(* createOrUpdateOpenAnomaly, with any number of workers and of readings:  *)
(* duplicates of an anomaly come from workers that searched for it at the  *)
(* same time, and are never more than that, whatever statements fail.      *)
THEOREM DuplicatesAreBounded ==
  ASSUME IsFiniteSet(Workers)
  PROVE  ProcessSpec => []OpenAnomaliesAreBounded
<1>1. RoomInv => OpenAnomaliesAreBounded
  <2> SUFFICES ASSUME RoomInv, NEW i \in DOMAIN anomalies
               PROVE  Cardinality(OpenAnomalies(anomalies, anomalies[i].key)) <=
                        Cardinality(Writers(anomalies[i].key))
    BY DEF OpenAnomaliesAreBounded
  <2>1. anomalies[i] \in AnomalyRow
    BY DEF RoomInv, TypeInv, TablesFit
  <2>2. PICK key \in AnomalyKey : key = anomalies[i].key
    BY <2>1 DEF AnomalyRow
  <2>3. PICK o \in Nat : o = Cardinality(OpenAnomalies(anomalies, key))
    BY FiniteOpen DEF RoomInv, TypeInv
  <2>4. PICK d \in Nat : d = Cardinality(Owing(key))
    BY FS_Subset, FS_CardinalityType DEF Owing
  <2>5. PICK n \in Nat : n = Cardinality(Writers(key))
    BY FiniteWriters
  <2>6. o + d <= n
    BY <2>3, <2>4, <2>5 DEF RoomInv, RoomLeft
  <2>7. o <= n
    BY <2>6
  <2> QED
    BY <2>2, <2>3, <2>5, <2>7
<1>2. ProcessInit => RoomInv
  BY InitialRoom
<1>3. RoomInv /\ WritersOwe' /\ [ProcessNext]_allVars => RoomInv'
  BY RoomInvNext
<1>4. ProcessSpec => []WritersOwe
  BY CallsAlwaysFitted, OnlyWritersOwe, PTL
<1> QED
  BY <1>1, <1>2, <1>3, <1>4, PTL DEF ProcessSpec

-----------------------------------------------------------------------------
(***************************************************************************)
(* The length of a call.                                                   *)
(***************************************************************************)

LEMMA PlanCount ==
  ASSUME NEW p, NEW todo \in SUBSET Plan(p)
  PROVE  IsFiniteSet(todo) /\ Cardinality(todo) \in Nat
<1>1. Plan(p) = (({} \cup {Jump(p)}) \cup {Drift(p)}) \cup {CombinedRisk}
  BY DEF Plan
<1>2. IsFiniteSet(Plan(p))
  <2>1. IsFiniteSet({} \cup {Jump(p)})
    BY FS_EmptySet, FS_AddElement
  <2>2. IsFiniteSet(({} \cup {Jump(p)}) \cup {Drift(p)})
    BY <2>1, FS_AddElement
  <2> QED
    BY <1>1, <2>2, FS_AddElement
<1> QED
  BY <1>2, FS_Subset, FS_CardinalityType

LEMMA WholePlanCount ==
  ASSUME NEW p
  PROVE  Cardinality(Plan(p)) = 3
<1> DEFINE jump == {} \cup {Jump(p)}
           both == jump \cup {Drift(p)}
<1>1. IsFiniteSet(jump) /\ Cardinality(jump) = 1
  BY FS_EmptySet, FS_AddElement
<1>2. Drift(p) \notin jump
  BY DEF Jump, Drift
<1>3. CombinedRisk \notin both
  BY DEF Jump, Drift, CombinedRisk
<1>4. Plan(p) = both \cup {CombinedRisk}
  BY DEF Plan
<1> HIDE DEF jump
<1>5. IsFiniteSet(both) /\ Cardinality(both) = 2
  BY <1>1, <1>2, FS_AddElement
<1> HIDE DEF both
<1> QED
  BY <1>3, <1>4, <1>5, FS_AddElement

(* What is left of the plan of a running call. *)
LEMMA TodoCount ==
  ASSUME TypeInv, NEW w \in Workers, stage[w] # "idle"
  PROVE  /\ IsFiniteSet(call[w].todo)
         /\ Cardinality(call[w].todo) \in Nat
<1>1. RecordFits(w, call[w])
  BY RunningCall
<1> QED
  BY <1>1, PlanCount DEF RecordFits

(* StatementsLeft, stage by stage. *)
LeftBeforeSync(w) ==
  /\ stage[w] = "idle" => StatementsLeft(w) = 0
  /\ stage[w] = "save" => StatementsLeft(w) = 21
  /\ stage[w] = "alerts" /\ pc[w] = "find" => StatementsLeft(w) = 20
  /\ stage[w] = "alerts" /\ pc[w] = "update" => StatementsLeft(w) = 19
  /\ stage[w] = "alerts" /\ pc[w] \notin {"find", "update"} =>
       StatementsLeft(w) = 18
  /\ stage[w] = "active" => StatementsLeft(w) = 17
  /\ stage[w] = "history" => StatementsLeft(w) = 16
  /\ stage[w] = "pressure" => StatementsLeft(w) = 15
  /\ stage[w] = "moisture" => StatementsLeft(w) = 14
  /\ stage[w] = "drive_load" => StatementsLeft(w) = 13

LeftInSync(w) ==
  LET planned == 3 * Cardinality(call[w].todo) IN
  /\ stage[w] = "sync" => StatementsLeft(w) = 3 + planned
  /\ stage[w] = "update anomaly" => StatementsLeft(w) = 2 + planned
  /\ stage[w] = "create anomaly" => StatementsLeft(w) = 1 + planned
  /\ stage[w] = "weights" => StatementsLeft(w) = 2
  /\ stage[w] = "index" => StatementsLeft(w) = 1

LEMMA LeftByStage ==
  ASSUME NEW w
  PROVE  /\ LeftBeforeSync(w) /\ LeftInSync(w)
         /\ LeftBeforeSync(w)' /\ LeftInSync(w)'
<1>1. LeftBeforeSync(w)
  BY Zenon DEF StatementsLeft, LeftBeforeSync
<1>2. LeftInSync(w)
  BY Zenon DEF StatementsLeft, LeftInSync
<1>3. LeftBeforeSync(w)'
  BY Zenon DEF StatementsLeft, LeftBeforeSync
<1>4. LeftInSync(w)'
  BY Zenon DEF StatementsLeft, LeftInSync
<1> QED
  BY <1>1, <1>2, <1>3, <1>4

LEMMA PlanArithmetic ==
  ASSUME NEW n \in Nat
  PROVE  /\ 3 + 3 * (n - 1) = 3 * n
         /\ 3 * n < 1 + 3 * n /\ 1 + 3 * n < 2 + 3 * n
         /\ 2 + 3 * n < 3 + 3 * n /\ 1 + 3 * n < 3 + 3 * n
         /\ 3 * n < 2 + 3 * n /\ 3 * n < 3 + 3 * n
  OBVIOUS

LEMMA SomethingLeft ==
  ASSUME TypeInv, NEW w \in Workers, stage[w] # "idle"
  PROVE  StatementsLeft(w) \in Nat /\ StatementsLeft(w) > 0
<1>left. LeftBeforeSync(w) /\ LeftInSync(w)
  BY LeftByStage
<1>1. stage[w] \in Stages
  BY DEF TypeInv, CallFits
<1>2. PICK n \in Nat : Cardinality(call[w].todo) = n
  BY TodoCount
<1>3. CASE stage[w] = "alerts"
  BY <1>3, <1>left DEF LeftBeforeSync
<1>4. CASE stage[w] \in {"sync", "update anomaly", "create anomaly"}
  <2>1. StatementsLeft(w) \in {3 + 3 * n, 2 + 3 * n, 1 + 3 * n}
    BY <1>2, <1>4, <1>left DEF LeftInSync
  <2> QED
    BY <2>1
<1>5. CASE stage[w] \in {"save", "active", "history", "pressure", "moisture",
                         "drive_load"}
  BY <1>5, <1>left DEF LeftBeforeSync
<1>6. CASE stage[w] \in {"weights", "index"}
  <2>1. StatementsLeft(w) \in {2, 1}
    BY <1>6, <1>left DEF LeftInSync
  <2> QED
    BY <2>1
<1> QED
  BY <1>1, <1>3, <1>4, <1>5, <1>6 DEF Stages

LEMMA NothingLeft ==
  ASSUME NEW w, stage'[w] = "idle"
  PROVE  StatementsLeft(w)' = 0
  BY LeftByStage DEF LeftBeforeSync

Shortens(w) == StatementsLeft(w)' < StatementsLeft(w)

LEMMA EndShortens ==
  ASSUME TypeInv, NEW w \in Workers, stage[w] # "idle", stage'[w] = "idle"
  PROVE  Shortens(w)
  BY SomethingLeft, NothingLeft DEF Shortens

LEMMA AlertStatementShortens ==
  ASSUME TypeInv, NEW w \in Workers, AlertStatement(w)
  PROVE  Shortens(w)
<1>left. /\ LeftBeforeSync(w) /\ LeftInSync(w)
          /\ LeftBeforeSync(w)' /\ LeftInSync(w)'
  BY LeftByStage
<1>1. stage[w] = "alerts" /\ WorkerStep(w)
  BY DEF AlertStatement
<1>2. \/ pc'[w] # "idle" /\ stage' = stage
      \/ pc'[w] = "idle" /\ stage' = [stage EXCEPT ![w] = "active"]
      \/ Fail(w)
  BY DEF AlertStatement
<1>3. CASE pc'[w] # "idle" /\ stage' = stage
  <2>1. pc \in [Workers -> Statements \cup {"idle"}]
    BY DEF TypeInv, TypeOK
  <2>2. \/ pc[w] = "find" /\ pc'[w] \in {"update", "create"}
        \/ pc[w] = "update" /\ pc'[w] = "create"
    BY <1>1, <1>3, <2>1
       DEF WorkerStep, FindFinds, FindMisses, UpdateFindsOpen, UpdateMisses,
           CreateAlert, ResolveOpen, StatementFails, AnswerLost, Return, Goto
  <2>3. CASE pc[w] = "find"
    BY <1>1, <1>3, <2>2, <2>3, <1>left DEF Shortens, LeftBeforeSync
  <2>4. CASE pc[w] = "update"
    BY <1>1, <1>3, <2>2, <2>4, <1>left DEF Shortens, LeftBeforeSync
  <2> QED
    BY <2>2, <2>3, <2>4
<1>4. CASE pc'[w] = "idle" /\ stage' = [stage EXCEPT ![w] = "active"]
  <2>1. stage'[w] = "active"
    BY <1>4 DEF TypeInv, CallsAreJudged
  <2> QED
    BY <1>1, <2>1, <1>left DEF Shortens, LeftBeforeSync, LeftInSync
<1>5. CASE Fail(w)
  <2>1. stage'[w] = "idle"
    BY <1>5, FailMoves DEF TypeInv, Ends
  <2> QED
    BY <1>1, <2>1, EndShortens
<1> QED
  BY <1>2, <1>3, <1>4, <1>5

LEMMA SaveShortens ==
  ASSUME TypeInv, NEW w \in Workers, NEW newer, SaveTelemetryReading(w, newer)
  PROVE  Shortens(w)
<1>left. /\ LeftBeforeSync(w) /\ LeftInSync(w)
          /\ LeftBeforeSync(w)' /\ LeftInSync(w)'
  BY LeftByStage
<1>1. /\ stage[w] = "save"
      /\ Fail(w) \/ stage' = [stage EXCEPT ![w] = "alerts"]
  BY DEF SaveTelemetryReading
<1>2. CASE stage' = [stage EXCEPT ![w] = "alerts"]
  <2>1. stage'[w] = "alerts"
    BY <1>2 DEF TypeInv, CallsAreJudged
  <2> QED
    BY <1>1, <2>1, <1>left DEF Shortens, LeftBeforeSync, LeftInSync
<1>3. CASE Fail(w)
  <2>1. stage'[w] = "idle"
    BY <1>3, FailMoves DEF TypeInv, Ends
  <2> QED
    BY <1>1, <2>1, EndShortens
<1> QED
  BY <1>1, <1>2, <1>3

(* A statement whose place in the call does not depend on the plan. *)
LEMMA ReadShortens ==
  ASSUME TypeInv, NEW w \in Workers,
         NEW from, NEW to, NEW locals, Moves(w, from, to, locals),
         \/ from = "active" /\ to = "history"
         \/ from = "history" /\ to = "pressure"
         \/ from = "pressure" /\ to = "moisture"
         \/ from = "moisture" /\ to = "drive_load"
         \/ from = "sync" /\ to = "weights"
         \/ from = "weights" /\ to = "index"
         \/ from = "index" /\ to = "idle"
  PROVE  Shortens(w)
<1>left. /\ LeftBeforeSync(w) /\ LeftInSync(w)
          /\ LeftBeforeSync(w)' /\ LeftInSync(w)'
  BY LeftByStage
<1>1. stage[w] = from /\ from # "idle"
  BY DEF Moves
<1>2. CASE stage'[w] = "idle"
  BY <1>1, <1>2, EndShortens
<1>3. CASE stage'[w] = to
  <2>1. PICK n \in Nat : Cardinality(call[w].todo) = n
    BY <1>1, TodoCount
  <2>2. CASE from = "sync"
    <3>1. StatementsLeft(w) = 3 + 3 * n /\ StatementsLeft(w)' = 2
      BY <1>1, <1>3, <2>1, <2>2, <1>left DEF LeftInSync
    <3> QED
      BY <3>1 DEF Shortens
  <2>3. CASE from \in {"weights", "index"}
    <3>1. CASE from = "weights"
      BY <1>1, <1>3, <3>1, <1>left DEF Shortens, LeftInSync
    <3>2. CASE from = "index"
      <4>1. StatementsLeft(w) = 1 /\ StatementsLeft(w)' = 0
        BY <1>1, <1>3, <3>2, <1>left DEF LeftBeforeSync, LeftInSync
      <4> QED
        BY <4>1 DEF Shortens
    <3> QED
      BY <2>3, <3>1, <3>2
  <2>4. CASE from \in {"active", "history", "pressure", "moisture"}
    BY <1>1, <1>3, <2>4, <1>left DEF Shortens, LeftBeforeSync
  <2> QED
    BY <2>2, <2>3, <2>4
<1> QED
  BY <1>2, <1>3 DEF Moves, Ends

LEMMA LoadsShorten ==
  ASSUME TypeInv, NEW w \in Workers,
         \/ LoadActiveAlerts(w)
         \/ LoadParameterHistory(w)
         \/ LoadRiskHistory(w, "pressure", "moisture")
         \/ LoadRiskHistory(w, "moisture", "drive_load")
         \/ LoadActiveAnomalies(w)
         \/ LoadQualityWeights(w)
         \/ SaveQualityIndex(w)
  PROVE  Shortens(w)
<1>0. CallsAreJudged
  BY DEF TypeInv
<1>1. \/ \E locals : Executed(w, "active", "history", locals)
      \/ \E locals : Executed(w, "history", "pressure", locals)
      \/ \E locals : Executed(w, "pressure", "moisture", locals)
      \/ \E locals : Executed(w, "moisture", "drive_load", locals)
      \/ \E locals : Executed(w, "sync", "weights", locals)
      \/ \E locals : Executed(w, "weights", "index", locals)
      \/ \E locals : Executed(w, "index", "idle", locals)
  BY DEF LoadActiveAlerts, LoadParameterHistory, LoadRiskHistory,
         LoadActiveAnomalies, LoadQualityWeights, SaveQualityIndex
<1> QED
  BY <1>0, <1>1, ExecutedMoves, ReadShortens

(* The last history is loaded: the plan is made. *)
LEMMA PlanShortens ==
  ASSUME TypeInv, NEW w \in Workers, LoadRiskHistory(w, "drive_load", "sync")
  PROVE  Shortens(w)
<1>left. /\ LeftBeforeSync(w) /\ LeftInSync(w)
          /\ LeftBeforeSync(w)' /\ LeftInSync(w)'
  BY LeftByStage
<1> DEFINE detected == IF SupportsRisk("drive_load", HistoryByParameter("drive_load"))
                       THEN call[w].detected
                       ELSE call[w].detected \ {CombinedRisk}
           todo == Plan(call[w].parameter)
           locals == WithPlan(call[w], detected, todo)
<1>1. Executed(w, "drive_load", "sync", locals)
  BY DEF LoadRiskHistory, WithPlan
<1>2. stage[w] = "drive_load"
  BY <1>1 DEF Executed
<1>3. /\ RecordFits(w, call[w])
      /\ todo \subseteq AnomalyKey
  BY <1>2, RunningCall
<1>4. detected \in SUBSET AnomalyKey
  BY <1>3 DEF RecordFits
<1>5. Cardinality(todo) = 3
  BY WholePlanCount
<1> HIDE DEF detected, todo
<1>6. locals.todo = todo
  BY <1>3, <1>4, CallPlan DEF RecordFits
<1> HIDE DEF locals
<1>7. CASE stage'[w] = "sync" /\ call'[w] = locals
  BY <1>2, <1>5, <1>6, <1>7, <1>left DEF Shortens, LeftBeforeSync, LeftInSync
<1>8. CASE stage'[w] = "idle"
  BY <1>2, <1>8, EndShortens
<1> QED
  BY <1>1, <1>7, <1>8, ExecutedMoves DEF Moves, Ends, TypeInv

(* An anomaly of the plan has been dealt with. *)
LEMMA AnomalyShortens ==
  ASSUME TypeInv, NEW w \in Workers, NEW from,
         from \in {"sync", "update anomaly", "create anomaly"},
         Executed(w, from, "sync", NextKey(w)),
         Key(w) \in call[w].todo
  PROVE  Shortens(w)
<1>left. /\ LeftBeforeSync(w) /\ LeftInSync(w)
          /\ LeftBeforeSync(w)' /\ LeftInSync(w)'
  BY LeftByStage
<1>1. stage[w] = from
  BY DEF Executed
<1>2. RecordFits(w, call[w])
  BY <1>1, RunningCall
<1>3. NextKey(w).todo = call[w].todo \ {Key(w)}
  BY <1>2, CallTodo DEF RecordFits, NextKey, WithoutKey
<1>4. PICK n \in Nat : /\ Cardinality(call[w].todo) = n
                       /\ Cardinality(NextKey(w).todo) = n - 1
  <2>1. IsFiniteSet(call[w].todo) /\ Cardinality(call[w].todo) \in Nat
    BY <1>1, TodoCount
  <2>2. Cardinality(call[w].todo \ {Key(w)}) = Cardinality(call[w].todo) - 1
    BY <2>1, FS_RemoveElement
  <2> QED
    BY <1>3, <2>1, <2>2
<1>5. CASE stage'[w] = "sync" /\ call'[w] = NextKey(w)
  <2>1. StatementsLeft(w) \in {3 + 3 * n, 2 + 3 * n, 1 + 3 * n}
    BY <1>1, <1>4, <1>left DEF LeftInSync
  <2>2. StatementsLeft(w)' = 3 + 3 * (n - 1)
    BY <1>4, <1>5, <1>left DEF LeftInSync
  <2> QED
    BY <2>1, <2>2, PlanArithmetic DEF Shortens
<1>6. CASE stage'[w] = "idle"
  BY <1>1, <1>6, EndShortens
<1> QED
  BY <1>5, <1>6, ExecutedMoves DEF Moves, Ends, TypeInv

(* An anomaly of the plan is taken in hand, or an update has missed it. *)
LEMMA HandShortens ==
  ASSUME TypeInv, NEW w \in Workers, NEW from, NEW to, NEW locals,
         Executed(w, from, to, locals),
         \/ from = "sync" /\ to \in {"update anomaly", "create anomaly"}
         \/ from = "update anomaly" /\ to = "create anomaly",
         locals.todo = call[w].todo
  PROVE  Shortens(w)
<1>left. /\ LeftBeforeSync(w) /\ LeftInSync(w)
          /\ LeftBeforeSync(w)' /\ LeftInSync(w)'
  BY LeftByStage
<1>1. stage[w] = from
  BY DEF Executed
<1>2. PICK n \in Nat : Cardinality(call[w].todo) = n
  BY <1>1, TodoCount
<1>3. CASE stage'[w] = to /\ call'[w] = locals
  <2>1. Cardinality(call'[w].todo) = n
    BY <1>2, <1>3
  <2>2. \/ StatementsLeft(w) = 3 + 3 * n /\ StatementsLeft(w)' \in {2 + 3 * n, 1 + 3 * n}
        \/ StatementsLeft(w) = 2 + 3 * n /\ StatementsLeft(w)' = 1 + 3 * n
    BY <1>1, <1>2, <1>3, <2>1, <1>left DEF LeftInSync
  <2> QED
    BY <2>2, PlanArithmetic DEF Shortens
<1>4. CASE stage'[w] = "idle"
  BY <1>1, <1>4, EndShortens
<1> QED
  BY <1>3, <1>4, ExecutedMoves DEF Moves, Ends, TypeInv

LEMMA SyncShortens ==
  ASSUME TypeInv, NEW w \in Workers,
         \/ FindOpenAnomaly(w) \/ UpdateAnomalyMisses(w)
         \/ UpdateAnomaly(w) \/ CreateAnomaly(w) \/ ResolveAnomaly(w)
  PROVE  Shortens(w)
<1>1. stage[w] \in {"sync", "update anomaly", "create anomaly"}
  BY DEF FindOpenAnomaly, UpdateAnomalyMisses, UpdateAnomaly, CreateAnomaly,
         ResolveAnomaly, Executed
<1>2. RecordFits(w, call[w])
  BY <1>1, RunningCall
<1>3. ASSUME NEW n \in Nat
      PROVE  [call[w] EXCEPT !.found = n].todo = call[w].todo
  BY <1>2, CallFound DEF RecordFits
<1>4. CASE UpdateAnomaly(w) \/ CreateAnomaly(w) \/ ResolveAnomaly(w)
  <2>1. PICK from \in {"sync", "update anomaly", "create anomaly"} :
          Executed(w, from, "sync", NextKey(w))
    BY <1>4 DEF UpdateAnomaly, CreateAnomaly, ResolveAnomaly
  <2>2. Key(w) \in call[w].todo
    <3>1. CASE ResolveAnomaly(w)
      BY <1>2, <3>1, KeyIsPlanned DEF ResolveAnomaly, RecordFits
    <3>2. CASE UpdateAnomaly(w) \/ CreateAnomaly(w)
      BY <3>2, InHand DEF UpdateAnomaly, CreateAnomaly, Executed
    <3> QED
      BY <1>4, <3>1, <3>2
  <2> QED
    BY <2>1, <2>2, AnomalyShortens
<1>5. CASE UpdateAnomalyMisses(w)
  <2> DEFINE locals == [call[w] EXCEPT !.found = 0]
  <2>1. Executed(w, "update anomaly", "create anomaly", locals)
    BY <1>5 DEF UpdateAnomalyMisses
  <2>2. locals.todo = call[w].todo
    BY <1>3
  <2> HIDE DEF locals
  <2> QED
    BY <2>1, <2>2, HandShortens
<1>6. CASE FindOpenAnomaly(w)
  <2>1. ASSUME NEW i \in OpenAnomalies(anomalies, Key(w)),
               Executed(w, "sync", "update anomaly", [call[w] EXCEPT !.found = i])
        PROVE  Shortens(w)
    <3> DEFINE locals == [call[w] EXCEPT !.found = i]
    <3>1. i \in Nat
      BY DEF OpenAnomalies, TypeInv, TablesFit
    <3>2. locals.todo = call[w].todo
      BY <1>3, <3>1
    <3>3. Executed(w, "sync", "update anomaly", locals)
      BY <2>1
    <3> HIDE DEF locals
    <3> QED
      BY <3>2, <3>3, HandShortens
  <2>2. ASSUME Executed(w, "sync", "create anomaly", call[w])
        PROVE  Shortens(w)
    BY <2>2, HandShortens
  <2> QED
    BY <1>6, <2>1, <2>2 DEF FindOpenAnomaly
<1> QED
  BY <1>4, <1>5, <1>6

LEMMA EndingsShorten ==
  ASSUME TypeInv, NEW w \in Workers, CreateAnomalyIsRefused(w) \/ WriteFails(w)
  PROVE  Shortens(w)
<1>1. stage[w] # "idle" /\ End(w)
  BY DEF CreateAnomalyIsRefused, WriteFails, Fail
<1>2. stage'[w] = "idle"
  BY <1>1, EndMoves DEF TypeInv
<1> QED
  BY <1>1, <1>2, EndShortens

LEMMA StepShortens ==
  ASSUME TypeInv, NEW w \in Workers, ProcessStep(w)
  PROVE  StatementsLeft(w)' < StatementsLeft(w)
<1>1. Shortens(w)
  BY SaveShortens, AlertStatementShortens, LoadsShorten, PlanShortens, SyncShortens,
     EndingsShorten DEF ProcessStep
<1> QED
  BY <1>1 DEF Shortens

(* A call of Process executes at most 21 statements, and each of them      *)
(* brings it closer to its end, for any number of workers on the same rows *)
(* and whatever operators and technologists change in between.             *)
THEOREM CallsAreBounded == ProcessSpec => CallsMakeProgress
<1>1. TypeInv /\ [ProcessNext]_allVars =>
        [\A w \in Workers :
           ProcessStep(w) => StatementsLeft(w)' < StatementsLeft(w)]_allVars
  BY StepShortens
<1> QED
  BY <1>1, CallsAlwaysFitted, PTL DEF ProcessSpec, CallsMakeProgress

=============================================================================
