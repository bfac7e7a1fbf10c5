---------------------------- MODULE AlertsProofs ----------------------------
(***************************************************************************)
(* Proofs about Alerts: type correctness for every configuration, and the  *)
(* single-writer properties for every number of workers, parameters, users *)
(* and readings.                                                           *)
(***************************************************************************)
EXTENDS Alerts, SequenceTheorems, TLAPS

(***************************************************************************)
(* The statements keep the table a table and touch no row but theirs.      *)
(***************************************************************************)

(* UPDATE ... WHERE id = $1. *)
LEMMA ReplaceRow ==
  ASSUME NEW table \in Seq(AlertRow), NEW i \in DOMAIN table, NEW row \in AlertRow
  PROVE  /\ [table EXCEPT ![i] = row] \in Seq(AlertRow)
         /\ DOMAIN [table EXCEPT ![i] = row] = DOMAIN table
         /\ \A k \in DOMAIN table \ {i} : [table EXCEPT ![i] = row][k] = table[k]
         /\ [table EXCEPT ![i] = row][i] = row
  OBVIOUS

LEMMA RowsAreRows ==
  ASSUME NEW table \in Seq(AlertRow), NEW i \in DOMAIN table
  PROVE  table[i] \in AlertRow
  OBVIOUS

LEMMA AlertLevelType == \A state : AlertLevel(state) \in AlertLevels
  BY DEF AlertLevel, AlertLevels

(* The candidate alert built by createOrUpdateOpenAlert is a row. *)
LEMMA NewAlertIsRow ==
  ASSUME NEW p \in Parameters, NEW state, NEW n, n \in Nat
  PROVE  NewAlert(p, AlertLevel(state), n) \in AlertRow
  BY DEF NewAlert, AlertLevel, AlertRow, AlertLevels, AlertStatuses, Timestamps

LEMMA ResolvedRow ==
  ASSUME NEW row \in AlertRow
  PROVE  LET new == [row EXCEPT !.status = "resolved", !.resolvedAt = "set"]
         IN  /\ new \in AlertRow
             /\ new.parameter = row.parameter
             /\ new.createdAt = row.createdAt
             /\ new.reading = row.reading
             /\ new.level = row.level
             /\ new.status = "resolved"
             /\ new.resolvedAt = "set"
  BY DEF AlertRow, AlertStatuses, Timestamps

LEMMA AcknowledgedRow ==
  ASSUME NEW row \in AlertRow
  PROVE  LET new == [row EXCEPT !.status = "acknowledged",
                                !.acknowledgedAt = "set",
                                !.acknowledgedBy = NoUser]
         IN  /\ new \in AlertRow
             /\ new.parameter = row.parameter
             /\ new.createdAt = row.createdAt
             /\ new.reading = row.reading
             /\ new.level = row.level
             /\ new.status = "acknowledged"
             /\ new.resolvedAt = row.resolvedAt
  BY DEF AlertRow, AlertStatuses, Timestamps

(* The three statements that address one row by its id. *)
LEMMA UpdateOpenRows ==
  ASSUME NEW table \in Seq(AlertRow), NEW i \in DOMAIN table,
         NEW level \in AlertLevels, NEW n, n \in Nat
  PROVE  LET new == UpdateOpen(table, i, level, n)
         IN  /\ new \in Seq(AlertRow)
             /\ DOMAIN new = DOMAIN table
             /\ \A k \in DOMAIN table \ {i} : new[k] = table[k]
             /\ new[i].parameter = table[i].parameter
             /\ new[i].status = table[i].status
             /\ new[i].createdAt = table[i].createdAt
             /\ new[i].resolvedAt = table[i].resolvedAt
             /\ new[i].reading = n
             /\ new[i].level = level
<1> DEFINE row == [table[i] EXCEPT !.level = level, !.reading = n]
<1>0. table[i] \in AlertRow
  OBVIOUS
<1>1. /\ row \in AlertRow
      /\ row.parameter = table[i].parameter
      /\ row.status = table[i].status
      /\ row.createdAt = table[i].createdAt
      /\ row.resolvedAt = table[i].resolvedAt
      /\ row.reading = n
      /\ row.level = level
  BY <1>0 DEF AlertRow, AlertLevels
<1>2. UpdateOpen(table, i, level, n) = [table EXCEPT ![i] = row]
  BY DEF UpdateOpen
<1> HIDE DEF row
<1> QED
  BY <1>1, <1>2, ReplaceRow

LEMMA AcknowledgeRows ==
  ASSUME NEW table \in Seq(AlertRow), NEW i \in DOMAIN table
  PROVE  LET new == Acknowledge(table, i, NoUser)
         IN  /\ new \in Seq(AlertRow)
             /\ DOMAIN new = DOMAIN table
             /\ \A k \in DOMAIN table \ {i} : new[k] = table[k]
             /\ new[i].parameter = table[i].parameter
             /\ new[i].createdAt = table[i].createdAt
             /\ new[i].reading = table[i].reading
             /\ new[i].level = table[i].level
             /\ new[i].status = "acknowledged"
             /\ new[i].resolvedAt = table[i].resolvedAt
<1> DEFINE row == [table[i] EXCEPT !.status = "acknowledged",
                                   !.acknowledgedAt = "set",
                                   !.acknowledgedBy = NoUser]
<1>1. /\ row \in AlertRow
      /\ row.parameter = table[i].parameter
      /\ row.createdAt = table[i].createdAt
      /\ row.reading = table[i].reading
      /\ row.level = table[i].level
      /\ row.status = "acknowledged"
      /\ row.resolvedAt = table[i].resolvedAt
  BY RowsAreRows, AcknowledgedRow
<1>2. Acknowledge(table, i, NoUser) = [table EXCEPT ![i] = row]
  BY DEF Acknowledge
<1> HIDE DEF row
<1> QED
  BY <1>1, <1>2, ReplaceRow

LEMMA ResolveRows ==
  ASSUME NEW table \in Seq(AlertRow), NEW i \in DOMAIN table
  PROVE  LET new == Resolve(table, i)
         IN  /\ new \in Seq(AlertRow)
             /\ DOMAIN new = DOMAIN table
             /\ \A k \in DOMAIN table \ {i} : new[k] = table[k]
             /\ new[i].parameter = table[i].parameter
             /\ new[i].createdAt = table[i].createdAt
             /\ new[i].reading = table[i].reading
             /\ new[i].level = table[i].level
             /\ new[i].status = "resolved"
             /\ new[i].resolvedAt = "set"
<1> DEFINE row == [table[i] EXCEPT !.status = "resolved", !.resolvedAt = "set"]
<1>1. /\ row \in AlertRow
      /\ row.parameter = table[i].parameter
      /\ row.createdAt = table[i].createdAt
      /\ row.reading = table[i].reading
      /\ row.level = table[i].level
      /\ row.status = "resolved"
      /\ row.resolvedAt = "set"
  BY RowsAreRows, ResolvedRow
<1>2. Resolve(table, i) = [table EXCEPT ![i] = row]
  BY DEF Resolve
<1> HIDE DEF row
<1> QED
  BY <1>1, <1>2, ReplaceRow

(* The statement that addresses all open rows of a parameter. *)
LEMMA ResolveOpenRows ==
  ASSUME NEW table \in Seq(AlertRow), NEW p \in Parameters
  PROVE  LET new == ResolveOpenByParameter(table, p)
         IN  /\ new \in Seq(AlertRow)
             /\ DOMAIN new = DOMAIN table
             /\ \A i \in DOMAIN table :
                  /\ new[i].parameter = table[i].parameter
                  /\ new[i].createdAt = table[i].createdAt
                  /\ new[i].reading = table[i].reading
                  /\ new[i].level = table[i].level
                  /\ \/ /\ new[i].status = "resolved"
                        /\ new[i].resolvedAt = "set"
                     \/ /\ i \notin OpenAlerts(table, p)
                        /\ new[i] = table[i]
<1> DEFINE new == ResolveOpenByParameter(table, p)
           resolved(i) == [table[i] EXCEPT !.status = "resolved",
                                           !.resolvedAt = "set"]
<1>1. /\ Len(table) \in Nat
      /\ DOMAIN table = 1 .. Len(table)
  OBVIOUS
<1>2. /\ DOMAIN new = DOMAIN table
      /\ \A i \in DOMAIN table :
           new[i] = IF i \in OpenAlerts(table, p) THEN resolved(i) ELSE table[i]
  BY DEF ResolveOpenByParameter
<1>3. \A i \in DOMAIN table : resolved(i) \in AlertRow /\ table[i] \in AlertRow
  BY RowsAreRows, ResolvedRow
<1>4. new \in [1 .. Len(table) -> AlertRow]
  <2> HIDE DEF resolved
  <2> QED BY <1>1, <1>2, <1>3 DEF ResolveOpenByParameter
<1>5. new \in Seq(AlertRow)
  <2> HIDE DEF new
  <2> QED BY <1>1, <1>4, SeqDef
<1>6. \A i \in DOMAIN table :
        /\ resolved(i).parameter = table[i].parameter
        /\ resolved(i).createdAt = table[i].createdAt
        /\ resolved(i).reading = table[i].reading
        /\ resolved(i).level = table[i].level
        /\ resolved(i).status = "resolved"
        /\ resolved(i).resolvedAt = "set"
  BY RowsAreRows, ResolvedRow
<1> HIDE DEF resolved
<1>7. \A i \in DOMAIN table :
        \/ new[i] = resolved(i)
        \/ i \notin OpenAlerts(table, p) /\ new[i] = table[i]
  BY <1>2
<1> HIDE DEF new
<1> QED
  BY <1>2, <1>5, <1>6, <1>7 DEF new

(***************************************************************************)
(* Type correctness.                                                       *)
(***************************************************************************)

LEMMA InitTypeOK == Init => TypeOK
  BY EmptySeq DEF Init, TypeOK, NoAlert, Results

(* The end of a call keeps the types of the worker's variables. *)
LEMMA ReturnTypes ==
  ASSUME TypeOK, NEW w \in Workers, NEW outcome \in Results,
         Return(w, pc[w], outcome)
  PROVE  /\ pc' \in [Workers -> Statements \cup {"idle"}]
         /\ job' \in [Workers -> Job \cup {NoJob}]
         /\ found' \in [Workers -> Nat]
         /\ result' \in [Workers -> Results]
         /\ \A v \in Workers : pc'[v] # "idle" =>
              v # w /\ pc'[v] = pc[v] /\ job'[v] = job[v] /\ found'[v] = found[v]
  BY DEF TypeOK, Return, Goto, NoAlert

LEMMA ApplyType ==
  ASSUME TypeOK, NEW w \in Workers, pc[w] # "idle", Apply(w)
  PROVE  applied' \in [Parameters -> Nat]
  BY DEF TypeOK, Apply, Job

(* The three writes keep the table's type and all its rows. *)
LEMMA WriteTypes ==
  ASSUME TypeOK, NEW w \in Workers, pc[w] # "idle",
         \/ /\ pc[w] = "update"
            /\ alerts' = UpdateOpen(alerts, found[w],
                                    AlertLevel(job[w].state), job[w].reading)
         \/ alerts' = Create(alerts, NewAlert(job[w].parameter,
                                              AlertLevel(job[w].state),
                                              job[w].reading))
         \/ alerts' = ResolveOpenByParameter(alerts, job[w].parameter)
  PROVE  alerts' \in Seq(AlertRow) /\ DOMAIN alerts \subseteq DOMAIN alerts'
<1>1. /\ alerts \in Seq(AlertRow)
      /\ job[w].parameter \in Parameters
      /\ job[w].reading \in Nat
      /\ pc[w] = "update" => found[w] \in DOMAIN alerts
  BY DEF TypeOK, Job
<1>2. CASE /\ pc[w] = "update"
           /\ alerts' = UpdateOpen(alerts, found[w],
                                   AlertLevel(job[w].state), job[w].reading)
  <2>1. /\ found[w] \in DOMAIN alerts
        /\ AlertLevel(job[w].state) \in AlertLevels
        /\ job[w].reading \in Nat
        /\ alerts \in Seq(AlertRow)
    BY <1>1, <1>2, AlertLevelType
  <2> QED
    BY <1>2, <2>1, UpdateOpenRows
<1>3. CASE alerts' = Create(alerts, NewAlert(job[w].parameter,
                                             AlertLevel(job[w].state),
                                             job[w].reading))
  <2> DEFINE row == NewAlert(job[w].parameter, AlertLevel(job[w].state),
                             job[w].reading)
  <2>1. row \in AlertRow
    BY <1>1, NewAlertIsRow
  <2>2. alerts' = Create(alerts, row)
    BY <1>3
  <2> HIDE DEF row
  <2> QED
    BY <1>1, <2>1, <2>2 DEF Create
<1>4. CASE alerts' = ResolveOpenByParameter(alerts, job[w].parameter)
  BY <1>1, <1>4, ResolveOpenRows
<1> QED
  BY <1>2, <1>3, <1>4

LEMMA NextTypeOK == TypeOK /\ [Next]_vars => TypeOK'
<1> SUFFICES ASSUME TypeOK, [Next]_vars PROVE TypeOK'
  OBVIOUS
<1>1. ASSUME NEW w \in Workers, NEW p \in Parameters,
             NEW state \in ParameterStates, ProcessAlerts(w, p, state)
      PROVE  TypeOK'
  <2>1. pc' \in [Workers -> Statements \cup {"idle"}]
    BY <1>1 DEF TypeOK, ProcessAlerts, Goto, Statements
  <2>2. /\ job' \in [Workers -> Job \cup {NoJob}]
        /\ \A v \in Workers : pc'[v] # "idle" => job'[v] \in Job
    BY <1>1 DEF TypeOK, ProcessAlerts, Goto, Job
  <2>3. \A v \in Workers : pc'[v] = "update" => found'[v] \in DOMAIN alerts'
    BY <1>1 DEF TypeOK, ProcessAlerts, Goto
  <2> QED
    BY <1>1, <2>1, <2>2, <2>3 DEF TypeOK, ProcessAlerts, Results
<1>2. ASSUME NEW w \in Workers, FindFinds(w)
      PROVE  TypeOK'
  <2>1. LatestOpenAlert(alerts, job[w].parameter) \subseteq DOMAIN alerts
    BY DEF LatestOpenAlert, OpenAlerts
  <2>2. DOMAIN alerts \subseteq Nat
    BY DEF TypeOK
  <2> QED
    BY <1>2, <2>1, <2>2 DEF TypeOK, FindFinds, Goto, Statements
<1>3. ASSUME NEW w \in Workers, FindMisses(w)
      PROVE  TypeOK'
  BY <1>3 DEF TypeOK, FindMisses, Goto, Statements
<1>4. ASSUME NEW w \in Workers, UpdateMisses(w)
      PROVE  TypeOK'
  BY <1>4 DEF TypeOK, UpdateMisses, Goto, Statements, NoAlert
<1>5. ASSUME NEW w \in Workers,
             UpdateFindsOpen(w) \/ CreateAlert(w) \/ ResolveOpen(w) \/ AnswerLost(w)
      PROVE  TypeOK'
  <2>1. /\ pc[w] # "idle"
        /\ Apply(w)
        /\ clock' = clock
        /\ \E outcome \in Results : Return(w, pc[w], outcome)
    BY <1>5 DEF UpdateFindsOpen, CreateAlert, ResolveOpen, AnswerLost, Return,
                Goto, Results
  <2>2. alerts' \in Seq(AlertRow) /\ DOMAIN alerts \subseteq DOMAIN alerts'
    BY <1>5, <2>1, WriteTypes
       DEF UpdateFindsOpen, CreateAlert, ResolveOpen, AnswerLost, Return, Goto
  <2> QED
    BY <2>1, <2>2, ReturnTypes, ApplyType DEF TypeOK
<1>6. ASSUME NEW w \in Workers, StatementFails(w)
      PROVE  TypeOK'
  <2>1. Return(w, pc[w], "failed") /\ "failed" \in Results
    BY <1>6 DEF StatementFails, Results
  <2> QED
    BY <1>6, <2>1, ReturnTypes DEF TypeOK, StatementFails
<1>7. ASSUME NEW user \in Users, NEW i \in DOMAIN alerts,
             AcknowledgeEvent(user, i) \/ ResolveEvent(user, i)
      PROVE  TypeOK'
  <2>1. alerts' \in Seq(AlertRow) /\ DOMAIN alerts' = DOMAIN alerts
    BY <1>7, AcknowledgeRows, ResolveRows
       DEF TypeOK, AcknowledgeEvent, ResolveEvent
  <2> QED
    BY <1>7, <2>1 DEF TypeOK, AcknowledgeEvent, ResolveEvent
<1>8. CASE UNCHANGED vars
  BY <1>8 DEF TypeOK, vars
<1> QED
  BY <1>1, <1>2, <1>3, <1>4, <1>5, <1>6, <1>7, <1>8 DEF Next, WorkerStep

(* Every reachable state is well typed: in particular the alert that a     *)
(* worker is about to update exists, whatever happened since it was found. *)
THEOREM TypeCorrectness == Spec => []TypeOK
  BY InitTypeOK, NextTypeOK, PTL DEF Spec

(***************************************************************************)
(* What a single step may do, any number of workers on one parameter.      *)
(***************************************************************************)

(* What a step may do to row i; a call that is not the row's own changes   *)
(* neither its level nor its reading while it is resolved.                 *)
RowIsKept(i) ==
  /\ i \in DOMAIN alerts'
  /\ alerts'[i].parameter = alerts[i].parameter
  /\ alerts[i].status = "resolved" =>
       alerts'[i].reading = alerts[i].reading /\ alerts'[i].level = alerts[i].level

LEMMA WriteKeepsRows ==
  ASSUME TypeOK, NEW w \in Workers, pc[w] # "idle",
         \/ /\ pc[w] = "update"
            /\ UpdateOpenHits(alerts, found[w])
            /\ alerts' = UpdateOpen(alerts, found[w],
                                    AlertLevel(job[w].state), job[w].reading)
         \/ alerts' = Create(alerts, NewAlert(job[w].parameter,
                                              AlertLevel(job[w].state),
                                              job[w].reading))
         \/ alerts' = ResolveOpenByParameter(alerts, job[w].parameter),
         NEW i \in DOMAIN alerts
  PROVE  RowIsKept(i)
<1>1. /\ alerts \in Seq(AlertRow)
      /\ job[w].parameter \in Parameters
      /\ job[w].reading \in Nat
      /\ AlertLevel(job[w].state) \in AlertLevels
      /\ pc[w] = "update" => found[w] \in DOMAIN alerts
  BY AlertLevelType DEF TypeOK, Job
<1>2. CASE /\ pc[w] = "update"
           /\ UpdateOpenHits(alerts, found[w])
           /\ alerts' = UpdateOpen(alerts, found[w],
                                   AlertLevel(job[w].state), job[w].reading)
  <2>1. /\ DOMAIN alerts' = DOMAIN alerts
        /\ \A k \in DOMAIN alerts \ {found[w]} : alerts'[k] = alerts[k]
        /\ alerts'[found[w]].parameter = alerts[found[w]].parameter
    BY <1>1, <1>2, UpdateOpenRows
  <2>2. alerts[found[w]].status # "resolved"
    BY <1>2 DEF UpdateOpenHits, OpenStatuses
  <2> QED
    BY <2>1, <2>2 DEF RowIsKept
<1>3. CASE alerts' = Create(alerts, NewAlert(job[w].parameter,
                                             AlertLevel(job[w].state),
                                             job[w].reading))
  BY <1>1, <1>3 DEF Create, RowIsKept
<1>4. CASE alerts' = ResolveOpenByParameter(alerts, job[w].parameter)
  BY <1>1, <1>4, ResolveOpenRows DEF RowIsKept
<1> QED
  BY <1>2, <1>3, <1>4

LEMMA NextKeepsRows ==
  ASSUME TypeOK, [Next]_vars, NEW i \in DOMAIN alerts
  PROVE  RowIsKept(i)
<1>1. ASSUME NEW w \in Workers, WorkerStep(w)
      PROVE  RowIsKept(i)
  <2>1. CASE alerts' = alerts
    BY <2>1 DEF RowIsKept
  <2>2. CASE UpdateFindsOpen(w) \/ CreateAlert(w) \/ ResolveOpen(w) \/ AnswerLost(w)
    BY <2>2, WriteKeepsRows
       DEF UpdateFindsOpen, CreateAlert, ResolveOpen, AnswerLost, Return, Goto
  <2>3. FindFinds(w) \/ FindMisses(w) \/ UpdateMisses(w) \/ StatementFails(w)
          => alerts' = alerts
    BY DEF FindFinds, FindMisses, UpdateMisses, StatementFails
  <2> QED
    BY <1>1, <2>1, <2>2, <2>3 DEF WorkerStep
<1>2. ASSUME NEW user \in Users, NEW k \in DOMAIN alerts,
             AcknowledgeEvent(user, k) \/ ResolveEvent(user, k)
      PROVE  RowIsKept(i)
  <2>1. alerts \in Seq(AlertRow)
    BY DEF TypeOK
  <2>2. CASE AcknowledgeEvent(user, k)
    <3>1. /\ DOMAIN alerts' = DOMAIN alerts
          /\ \A j \in DOMAIN alerts \ {k} : alerts'[j] = alerts[j]
          /\ alerts'[k].parameter = alerts[k].parameter
          /\ alerts'[k].reading = alerts[k].reading
          /\ alerts'[k].level = alerts[k].level
      BY <2>1, <2>2, AcknowledgeRows DEF AcknowledgeEvent
    <3> QED
      BY <3>1 DEF RowIsKept
  <2>3. CASE ResolveEvent(user, k)
    <3>1. /\ DOMAIN alerts' = DOMAIN alerts
          /\ \A j \in DOMAIN alerts \ {k} : alerts'[j] = alerts[j]
          /\ alerts'[k].parameter = alerts[k].parameter
          /\ alerts'[k].reading = alerts[k].reading
          /\ alerts'[k].level = alerts[k].level
      BY <2>1, <2>3, ResolveRows DEF ResolveEvent
    <3> QED
      BY <3>1 DEF RowIsKept
  <2> QED
    BY <1>2, <2>2, <2>3
<1>3. CASE alerts' = alerts
  BY <1>3 DEF RowIsKept
<1> QED
  BY <1>1, <1>2, <1>3 DEF Next, ProcessAlerts, vars

(* Operators' and telemetry's steps never meet on a resolved row: no       *)
(* reading is written into an alert while it is resolved, also when the    *)
(* worker found it open (UpdateOpen's status condition).                   *)
THEOREM ResolvedAlertsAreLeftAlone == Spec => ResolvedAlertKeepsItsReading
<1>1. TypeOK /\ [Next]_vars =>
        [\A i \in DOMAIN alerts :
           alerts[i].status = "resolved" =>
             /\ alerts'[i].reading = alerts[i].reading
             /\ alerts'[i].level = alerts[i].level]_alerts
  BY NextKeepsRows DEF RowIsKept
<1> QED
  BY <1>1, TypeCorrectness, PTL DEF Spec, ResolvedAlertKeepsItsReading

(* A running call has no result yet; the search, the update and the insert *)
(* are made for an abnormal reading only, on an alert of its parameter;    *)
(* the resolve is made for a normal one.                                   *)
JobsFit ==
  \A w \in Workers :
    /\ pc[w] # "idle" => result[w] = "none"
    /\ pc[w] \in {"find", "update", "create"} => NeedsAlert(job[w].state)
    /\ pc[w] = "resolve" => ~ NeedsAlert(job[w].state)
    /\ pc[w] = "update" => alerts[found[w]].parameter = job[w].parameter

LEMMA StepKeepsJobsFit ==
  ASSUME TypeOK, JobsFit, [Next]_vars
  PROVE  JobsFit'
<1> SUFFICES ASSUME NEW v \in Workers
             PROVE  /\ pc'[v] # "idle" => result'[v] = "none"
                    /\ pc'[v] \in {"find", "update", "create"} =>
                         NeedsAlert(job'[v].state)
                    /\ pc'[v] = "resolve" => ~ NeedsAlert(job'[v].state)
                    /\ pc'[v] = "update" =>
                         alerts'[found'[v]].parameter = job'[v].parameter
  BY DEF JobsFit, NeedsAlert
<1>1. CASE UNCHANGED <<pc, job, found, result>>
  BY <1>1, NextKeepsRows DEF JobsFit, TypeOK, RowIsKept
<1>2. ASSUME NEW w \in Workers, v # w,
             \/ \E p \in Parameters, state \in ParameterStates :
                  ProcessAlerts(w, p, state)
             \/ WorkerStep(w)
      PROVE  UNCHANGED <<pc[v], job[v], found[v], result[v]>>
  BY <1>2 DEF TypeOK, ProcessAlerts, WorkerStep, FindFinds, FindMisses,
              UpdateFindsOpen, UpdateMisses, CreateAlert, ResolveOpen,
              StatementFails, AnswerLost, Return, Goto
<1>3. CASE UNCHANGED <<pc[v], job[v], found[v], result[v]>>
  <2>1. pc[v] = "update" => alerts'[found[v]].parameter = alerts[found[v]].parameter
    BY NextKeepsRows DEF TypeOK, RowIsKept
  <2> QED
    BY <1>3, <2>1 DEF JobsFit
<1>4. ASSUME NEW p \in Parameters, NEW state \in ParameterStates,
             ProcessAlerts(v, p, state)
      PROVE  /\ result'[v] = "none" /\ pc'[v] # "update"
             /\ pc'[v] \in {"find", "update", "create"} => NeedsAlert(job'[v].state)
             /\ pc'[v] = "resolve" => ~ NeedsAlert(job'[v].state)
  BY <1>4 DEF TypeOK, ProcessAlerts, Goto, NeedsAlert
<1>5. CASE FindFinds(v)
  BY <1>5 DEF TypeOK, JobsFit, FindFinds, Goto, LatestOpenAlert, OpenAlerts
<1>6. CASE FindMisses(v) \/ UpdateMisses(v)
  BY <1>6 DEF TypeOK, JobsFit, FindMisses, UpdateMisses, Goto
<1>7. CASE \/ UpdateFindsOpen(v) \/ CreateAlert(v) \/ ResolveOpen(v)
           \/ StatementFails(v) \/ AnswerLost(v)
  BY <1>7 DEF TypeOK, UpdateFindsOpen, CreateAlert, ResolveOpen, StatementFails,
              AnswerLost, Return, Goto
<1> QED
  BY <1>1, <1>2, <1>3, <1>4, <1>5, <1>6, <1>7
     DEF Next, WorkerStep, AcknowledgeEvent, ResolveEvent, vars

LEMMA JobsAlwaysFit == Spec => [](TypeOK /\ JobsFit)
<1>1. Init => JobsFit
  BY DEF Init, JobsFit
<1>2. TypeOK /\ JobsFit /\ [Next]_vars => JobsFit'
  BY StepKeepsJobsFit
<1> QED
  BY <1>1, <1>2, TypeCorrectness, PTL DEF Spec

(* The write of a successful call, at the moment of its answer.            *)
LEMMA SuccessIsRecorded ==
  ASSUME TypeOK, JobsFit, [Next]_vars, NEW w \in Workers, pc[w] # "idle",
         result'[w] \in {"created", "updated"}
  PROVE  \E i \in OpenAlerts(alerts', job[w].parameter) :
           /\ alerts'[i].reading = job[w].reading
           /\ alerts'[i].level = job[w].state
<1>1. result[w] = "none" /\ result \in [Workers -> Results]
  BY DEF JobsFit, TypeOK
<1>2. UpdateFindsOpen(w) \/ CreateAlert(w)
  <2>1. ASSUME NEW v \in Workers, NEW p \in Parameters, NEW state,
               ProcessAlerts(v, p, state)
        PROVE  FALSE
    BY <1>1, <2>1 DEF ProcessAlerts
  <2>2. ASSUME NEW v \in Workers, WorkerStep(v)
        PROVE  v = w /\ (UpdateFindsOpen(v) \/ CreateAlert(v))
    BY <1>1, <2>2 DEF WorkerStep, FindFinds, FindMisses, UpdateFindsOpen,
              UpdateMisses, CreateAlert, ResolveOpen, StatementFails, AnswerLost,
              Return
  <2>3. result' # result
    BY <1>1
  <2> QED
    BY <2>1, <2>2, <2>3 DEF Next, AcknowledgeEvent, ResolveEvent, vars
<1>3. /\ alerts \in Seq(AlertRow)
      /\ job[w].parameter \in Parameters
      /\ job[w].reading \in Nat
      /\ AlertLevel(job[w].state) \in AlertLevels
  BY AlertLevelType DEF TypeOK, Job
<1>4. CASE UpdateFindsOpen(w)
  <2>1. /\ pc[w] = "update"
        /\ alerts[found[w]].status \in OpenStatuses
        /\ found[w] \in DOMAIN alerts
        /\ alerts' = UpdateOpen(alerts, found[w], AlertLevel(job[w].state),
                                job[w].reading)
    BY <1>4 DEF UpdateFindsOpen, Return, Goto, UpdateOpenHits, TypeOK
  <2>2. /\ found[w] \in DOMAIN alerts'
        /\ alerts'[found[w]].parameter = job[w].parameter
        /\ alerts'[found[w]].status \in OpenStatuses
        /\ alerts'[found[w]].reading = job[w].reading
        /\ alerts'[found[w]].level = AlertLevel(job[w].state)
    BY <1>3, <2>1, UpdateOpenRows DEF JobsFit
  <2> QED
    BY <2>1, <2>2 DEF JobsFit, NeedsAlert, AlertLevel, OpenAlerts
<1>5. CASE CreateAlert(w)
  <2> DEFINE row == NewAlert(job[w].parameter, AlertLevel(job[w].state),
                             job[w].reading)
             new == Len(alerts) + 1
  <2>1. pc[w] = "create" /\ alerts' = Append(alerts, row)
    BY <1>5 DEF CreateAlert, Return, Goto, Create
  <2>2. /\ row.parameter = job[w].parameter
        /\ row.status \in OpenStatuses
        /\ row.reading = job[w].reading
        /\ row.level = AlertLevel(job[w].state)
    BY DEF NewAlert, OpenStatuses
  <2> HIDE DEF row
  <2>3. new \in DOMAIN alerts' /\ alerts'[new] = row
    BY <1>3, <2>1
  <2> QED
    BY <2>1, <2>2, <2>3 DEF JobsFit, NeedsAlert, AlertLevel, OpenAlerts
<1> QED
  BY <1>2, <1>4, <1>5

(* A call that answers Created or Updated has left its reading in an open  *)
(* alert of its parameter, also when the alert it had found was resolved   *)
(* under its hands and other workers write to the same parameter.          *)
THEOREM SuccessfulCallsAreRecorded == Spec => SuccessfulCallIsRecorded
<1>1. TypeOK /\ JobsFit /\ [Next]_vars =>
        [\A w \in Workers :
           /\ pc[w] # "idle"
           /\ result'[w] \in {"created", "updated"}
           => \E i \in OpenAlerts(alerts', job[w].parameter) :
                /\ alerts'[i].reading = job[w].reading
                /\ alerts'[i].level = job[w].state]_vars
  BY SuccessIsRecorded
<1> QED
  BY <1>1, JobsAlwaysFit, PTL DEF Spec, SuccessfulCallIsRecorded

(***************************************************************************)
(* The single-writer invariant.  Every write but an INSERT keeps the rows  *)
(* and can only take alerts out of the unresolved ones.                    *)
(***************************************************************************)

KeepsRows ==
  /\ DOMAIN alerts' = DOMAIN alerts
  /\ \A i \in DOMAIN alerts : /\ alerts'[i].parameter = alerts[i].parameter
                              /\ alerts'[i].createdAt = alerts[i].createdAt
  /\ \A p \in Parameters : Unresolved(p)' \subseteq Unresolved(p)

LEMMA UnresolvedSame ==
  ASSUME alerts' = alerts
  PROVE  KeepsRows /\ \A p \in Parameters : Unresolved(p)' = Unresolved(p)
  BY DEF KeepsRows, Unresolved, OpenAlerts

LEMMA UpdateOpenKeeps ==
  ASSUME TypeOK, NEW i \in DOMAIN alerts, NEW state, NEW n, n \in Nat,
         alerts' = UpdateOpen(alerts, i, AlertLevel(state), n)
  PROVE  /\ KeepsRows
         /\ ResolvedIsStamped => ResolvedIsStamped'
         /\ alerts'[i].reading = n
         /\ \A k \in DOMAIN alerts \ {i} : alerts'[k] = alerts[k]
<1>1. alerts \in Seq(AlertRow) /\ AlertLevel(state) \in AlertLevels
  BY AlertLevelType DEF TypeOK
<1>2. /\ DOMAIN alerts' = DOMAIN alerts
      /\ \A k \in DOMAIN alerts \ {i} : alerts'[k] = alerts[k]
      /\ alerts'[i].parameter = alerts[i].parameter
      /\ alerts'[i].status = alerts[i].status
      /\ alerts'[i].createdAt = alerts[i].createdAt
      /\ alerts'[i].resolvedAt = alerts[i].resolvedAt
      /\ alerts'[i].reading = n
  BY <1>1, UpdateOpenRows
<1> QED
  BY <1>2 DEF KeepsRows, ResolvedIsStamped, Unresolved, OpenAlerts

LEMMA ResolveOpenKeeps ==
  ASSUME TypeOK, NEW p \in Parameters, alerts' = ResolveOpenByParameter(alerts, p)
  PROVE  /\ KeepsRows
         /\ ResolvedIsStamped => ResolvedIsStamped'
         /\ Unresolved(p)' = {}
         /\ \A k \in DOMAIN alerts : alerts'[k].reading = alerts[k].reading
<1>1. alerts \in Seq(AlertRow)
  BY DEF TypeOK
<1>2. /\ DOMAIN alerts' = DOMAIN alerts
      /\ \A i \in DOMAIN alerts :
           /\ alerts'[i].parameter = alerts[i].parameter
           /\ alerts'[i].createdAt = alerts[i].createdAt
           /\ alerts'[i].reading = alerts[i].reading
           /\ \/ alerts'[i].status = "resolved" /\ alerts'[i].resolvedAt = "set"
              \/ i \notin OpenAlerts(alerts, p) /\ alerts'[i] = alerts[i]
  BY <1>1, ResolveOpenRows
<1> QED
  BY <1>2 DEF KeepsRows, ResolvedIsStamped, Unresolved, OpenAlerts, OpenStatuses

LEMMA OperatorKeeps ==
  ASSUME TypeOK, ResolvedIsStamped, NEW user \in Users, NEW i \in DOMAIN alerts,
         AcknowledgeEvent(user, i) \/ ResolveEvent(user, i)
  PROVE  /\ KeepsRows
         /\ ResolvedIsStamped'
         /\ \A k \in DOMAIN alerts : alerts'[k].reading = alerts[k].reading
<1>1. alerts \in Seq(AlertRow)
  BY DEF TypeOK
<1>2. /\ DOMAIN alerts' = DOMAIN alerts
      /\ \A k \in DOMAIN alerts \ {i} : alerts'[k] = alerts[k]
      /\ alerts'[i].parameter = alerts[i].parameter
      /\ alerts'[i].createdAt = alerts[i].createdAt
      /\ alerts'[i].reading = alerts[i].reading
      /\ \/ /\ alerts'[i].status = "acknowledged"
            /\ alerts'[i].resolvedAt = alerts[i].resolvedAt
         \/ /\ alerts'[i].status = "resolved"
            /\ alerts'[i].resolvedAt = "set"
  <2>1. CASE alerts' = Acknowledge(alerts, i, NoUser)
    BY <1>1, <2>1, AcknowledgeRows
  <2>2. CASE alerts' = Resolve(alerts, i)
    BY <1>1, <2>2, ResolveRows
  <2> QED
    BY <2>1, <2>2 DEF AcknowledgeEvent, ResolveEvent
<1>3. alerts[i].status \in AlertStatuses
  BY <1>1, RowsAreRows DEF AlertRow
<1> QED
  BY <1>2, <1>3 DEF KeepsRows, ResolvedIsStamped, Unresolved, OpenAlerts,
                    OpenStatuses, AlertStatuses

(* Under KeepsRows the parts that speak only of rows stay true.            *)
LEMMA KeptRowsKeepOrder ==
  ASSUME TypeOK, KeepsRows, UnresolvedIsListedFirst, ClockIsAhead,
         clock' \in Nat, clock' >= clock
  PROVE  UnresolvedIsListedFirst' /\ ClockIsAhead'
<1>1. ClockIsAhead'
  <2>1. \A i \in DOMAIN alerts : alerts[i].createdAt \in Nat
    BY RowsAreRows DEF TypeOK, AlertRow
  <2>2. clock \in Nat
    BY DEF TypeOK
  <2>3. ASSUME NEW i \in DOMAIN alerts'
        PROVE  alerts'[i].createdAt <= clock'
    <3>1. i \in DOMAIN alerts /\ alerts'[i].createdAt = alerts[i].createdAt
      BY DEF KeepsRows
    <3>2. alerts[i].createdAt <= clock /\ alerts[i].createdAt \in Nat
      BY <2>1, <3>1 DEF ClockIsAhead
    <3> QED
      BY <2>2, <3>1, <3>2
  <2> QED
    BY <2>3 DEF ClockIsAhead
<1>2. UnresolvedIsListedFirst'
  <2> SUFFICES ASSUME NEW p \in Parameters, NEW i \in Unresolved(p)',
                      NEW k \in DOMAIN alerts' \ {i}, alerts'[k].parameter = p
               PROVE  ListedBefore(alerts', i, k)
    BY DEF UnresolvedIsListedFirst
  <2>1. i \in Unresolved(p) /\ i \in DOMAIN alerts /\ k \in DOMAIN alerts \ {i}
    BY DEF KeepsRows, Unresolved, OpenAlerts
  <2>2. ListedBefore(alerts, i, k)
    BY <2>1 DEF KeepsRows, UnresolvedIsListedFirst
  <2> QED
    BY <2>1, <2>2 DEF KeepsRows, ListedBefore
<1> QED
  BY <1>1, <1>2

(* Two unresolved alerts of a parameter would each be listed before the    *)
(* other.                                                                  *)
LEMMA ListedFirstIsUnique ==
  ASSUME TypeOK, UnresolvedIsListedFirst
  PROVE  AtMostOneUnresolved
<1> SUFFICES ASSUME NEW p \in Parameters, NEW i \in Unresolved(p),
                    NEW j \in Unresolved(p), i # j
             PROVE  FALSE
  BY DEF AtMostOneUnresolved
<1>1. /\ i \in DOMAIN alerts /\ alerts[i].parameter = p
      /\ j \in DOMAIN alerts /\ alerts[j].parameter = p
  BY DEF Unresolved, OpenAlerts
<1>2. ListedBefore(alerts, i, j) /\ ListedBefore(alerts, j, i)
  BY <1>1 DEF UnresolvedIsListedFirst
<1>3. /\ alerts[i].createdAt \in Nat /\ alerts[j].createdAt \in Nat
      /\ i \in Nat /\ j \in Nat
  <2>1. alerts \in Seq(AlertRow)
    BY DEF TypeOK
  <2>2. alerts[i] \in AlertRow /\ alerts[j] \in AlertRow
    BY <1>1, <2>1, RowsAreRows
  <2>3. i \in Nat /\ j \in Nat
    BY <1>1, <2>1
  <2> QED
    BY <2>2, <2>3 DEF AlertRow
<1> QED
  BY <1>2, <1>3 DEF ListedBefore

(* No other busy worker holds a reading of a busy worker's parameter.      *)
LEMMA OthersWorkElsewhere ==
  ASSUME SingleWriter, JobsAreOwn, NEW v \in Workers, NEW w \in Workers,
         v # w, Busy(v), Busy(w)
  PROVE  job[v].parameter # job[w].parameter
  BY DEF SingleWriter, JobsAreOwn

IInv == TypeOK /\ AlertsInvariant

LEMMA InitAlertsInvariant == Init => AlertsInvariant
  BY DEF Init, AlertsInvariant, JobsAreOwn, ClockIsAhead, JobsAreNewest, Busy,
         ResolvedIsStamped, UnresolvedIsListedFirst, FoundIsCurrent,
         UnresolvedShowsNewestReading, Unresolved, OpenAlerts

LEMMA ProcessAlertsInvariant ==
  ASSUME IInv, SingleWriter, NEW w \in Workers, NEW p \in Parameters,
         NEW state \in ParameterStates, ProcessAlerts(w, p, state)
  PROVE  AlertsInvariant'
<1>1. /\ clock \in Nat /\ clock' = clock + 1
      /\ alerts' = alerts /\ found' = found /\ applied' = applied
      /\ p \in Handles[w]
      /\ job'[w] = [parameter |-> p, state |-> state, reading |-> clock + 1]
      /\ pc'[w] \in {"find", "resolve"}
      /\ \A v \in Workers \ {w} : job'[v] = job[v] /\ pc'[v] = pc[v]
  BY DEF IInv, TypeOK, ProcessAlerts, Goto
<1>2. \A i \in DOMAIN alerts : alerts[i].createdAt \in Nat
  BY RowsAreRows DEF IInv, TypeOK, AlertRow
<1>3. KeepsRows /\ \A q \in Parameters : Unresolved(q)' = Unresolved(q)
  BY <1>1, UnresolvedSame
<1>4. \A v \in Workers : Busy(v) => job[v].reading \in Nat
  BY DEF IInv, TypeOK, Busy, Job
<1>5. JobsAreOwn'
  BY <1>1, <1>4 DEF IInv, AlertsInvariant, JobsAreOwn, Busy
<1>6. JobsAreNewest'
  BY <1>1, <1>2 DEF IInv, AlertsInvariant, JobsAreNewest, Busy, ClockIsAhead
<1>7. ResolvedIsStamped'
  BY <1>1 DEF IInv, AlertsInvariant, ResolvedIsStamped
<1>8. UnresolvedIsListedFirst' /\ ClockIsAhead'
  BY <1>1, <1>3, KeptRowsKeepOrder DEF IInv, AlertsInvariant
<1>9. FoundIsCurrent'
  <2>1. \A v \in Workers : pc'[v] \in {"update", "create"} =>
          /\ v # w /\ pc'[v] = pc[v] /\ job'[v] = job[v]
          /\ job[v].parameter \in Parameters
    BY <1>1 DEF IInv, TypeOK, Job
  <2> QED
    BY <1>1, <1>3, <2>1 DEF IInv, AlertsInvariant, FoundIsCurrent
<1>10. UnresolvedShowsNewestReading'
  BY <1>1, <1>3 DEF IInv, AlertsInvariant, UnresolvedShowsNewestReading
<1> QED
  BY <1>5, <1>6, <1>7, <1>8, <1>9, <1>10 DEF AlertsInvariant

LEMMA QueryInvariant ==
  ASSUME IInv, NEW w \in Workers,
         FindFinds(w) \/ FindMisses(w) \/ UpdateMisses(w)
  PROVE  AlertsInvariant'
<1>1. /\ clock' = clock /\ clock \in Nat
      /\ alerts' = alerts /\ job' = job /\ applied' = applied
      /\ \A v \in Workers \ {w} : pc'[v] = pc[v] /\ found'[v] = found[v]
      /\ \A v \in Workers : Busy(v)' <=> Busy(v)
  BY DEF IInv, TypeOK, FindFinds, FindMisses, UpdateMisses, Goto, Busy
<1>2. job[w].parameter \in Parameters
  BY DEF IInv, TypeOK, Job, FindFinds, FindMisses, UpdateMisses, Goto
<1>3. KeepsRows /\ \A q \in Parameters : Unresolved(q)' = Unresolved(q)
  BY <1>1, UnresolvedSame
<1>4. JobsAreOwn' /\ JobsAreNewest' /\ ResolvedIsStamped'
  BY <1>1 DEF IInv, AlertsInvariant, JobsAreOwn, JobsAreNewest, ResolvedIsStamped
<1>5. UnresolvedIsListedFirst' /\ ClockIsAhead'
  BY <1>1, <1>3, KeptRowsKeepOrder DEF IInv, AlertsInvariant
<1>6. UnresolvedShowsNewestReading'
  BY <1>1, <1>3 DEF IInv, AlertsInvariant, UnresolvedShowsNewestReading
<1>7. /\ pc'[w] = "update" => /\ alerts'[found'[w]].parameter = job'[w].parameter
                              /\ Unresolved(job[w].parameter)' \subseteq {found'[w]}
      /\ pc'[w] = "create" => Unresolved(job[w].parameter)' = {}
  <2>1. CASE FindFinds(w)
    <3>1. PICK i \in LatestOpenAlert(alerts, job[w].parameter) :
            found' = [found EXCEPT ![w] = i]
      BY <2>1 DEF FindFinds
    <3>2. pc'[w] = "update" /\ found'[w] = i
      BY <2>1, <3>1 DEF IInv, TypeOK, FindFinds, Goto
    <3>3. alerts[i].parameter = job[w].parameter /\ i \in DOMAIN alerts
      BY DEF LatestOpenAlert, OpenAlerts
    <3>4. ASSUME NEW k \in Unresolved(job[w].parameter), k # i
          PROVE  FALSE
      <4>1. k \in OpenAlerts(alerts, job[w].parameter) /\ k \in DOMAIN alerts
        BY DEF Unresolved, OpenAlerts
      <4>2. ListedBefore(alerts, i, k)
        BY <3>4, <4>1 DEF LatestOpenAlert
      <4>3. ListedBefore(alerts, k, i)
        BY <1>2, <3>3, <3>4 DEF IInv, AlertsInvariant, UnresolvedIsListedFirst
      <4>4. alerts[i].createdAt \in Nat /\ alerts[k].createdAt \in Nat
        BY <3>3, <4>1, RowsAreRows DEF IInv, TypeOK, AlertRow
      <4>5. i \in Nat /\ k \in Nat
        BY <3>3, <4>1 DEF IInv, TypeOK
      <4> QED
        BY <4>2, <4>3, <4>4, <4>5 DEF ListedBefore
    <3>5. Unresolved(job[w].parameter)' \subseteq {i}
      <4>1. job'[w].parameter = job[w].parameter
        BY <1>1
      <4>2. Unresolved(job[w].parameter) \subseteq {i}
        BY <3>4
      <4> QED
        BY <1>2, <1>3, <4>1, <4>2
    <3>6. alerts'[i].parameter = job'[w].parameter
      BY <1>1, <3>3
    <3>7. /\ alerts'[found'[w]].parameter = job'[w].parameter
          /\ Unresolved(job[w].parameter)' \subseteq {found'[w]}
      BY <3>2, <3>5, <3>6
    <3> QED
      BY <3>2, <3>7
  <2>2. CASE FindMisses(w)
    BY <1>1, <1>2, <1>3, <2>2
       DEF IInv, TypeOK, FindMisses, Goto, Unresolved
  <2>3. CASE UpdateMisses(w)
    <3>1. /\ Unresolved(job[w].parameter) \subseteq {found[w]}
          /\ alerts[found[w]].status \notin OpenStatuses
          /\ pc'[w] = "create"
      BY <2>3 DEF IInv, TypeOK, AlertsInvariant, FoundIsCurrent, UpdateMisses,
                  UpdateOpenHits, Goto
    <3>2. Unresolved(job[w].parameter) = {}
      BY <3>1 DEF Unresolved, OpenAlerts
    <3>3. Unresolved(job[w].parameter)' = {}
      BY <1>1, <1>2, <1>3, <3>2 DEF Unresolved
    <3> QED
      BY <3>1, <3>3
  <2> QED
    BY <2>1, <2>2, <2>3
<1>8. FoundIsCurrent'
  <2>1. ASSUME NEW v \in Workers, v # w, pc'[v] \in {"update", "create"}
        PROVE  /\ pc[v] = pc'[v] /\ found'[v] = found[v] /\ job'[v] = job[v]
               /\ Unresolved(job[v].parameter)' = Unresolved(job[v].parameter)
    BY <1>1, <1>3, <2>1 DEF IInv, TypeOK, Job
  <2> QED
    BY <1>1, <1>7, <2>1 DEF IInv, AlertsInvariant, FoundIsCurrent
<1> QED
  BY <1>4, <1>5, <1>6, <1>8 DEF AlertsInvariant

LEMMA StatementFailsInvariant ==
  ASSUME IInv, NEW w \in Workers, StatementFails(w)
  PROVE  AlertsInvariant'
<1>1. /\ clock' = clock /\ clock \in Nat
      /\ alerts' = alerts /\ applied' = applied
      /\ \A v \in Workers : Busy(v)' => /\ Busy(v) /\ pc'[v] = pc[v]
                                        /\ job'[v] = job[v] /\ found'[v] = found[v]
                                        /\ job[v].parameter \in Parameters
  BY DEF IInv, TypeOK, StatementFails, Return, Goto, Busy, Job
<1>2. KeepsRows /\ \A q \in Parameters : Unresolved(q)' = Unresolved(q)
  BY <1>1, UnresolvedSame
<1>3. JobsAreOwn' /\ JobsAreNewest' /\ ResolvedIsStamped'
  BY <1>1 DEF IInv, AlertsInvariant, JobsAreOwn, JobsAreNewest, ResolvedIsStamped
<1>4. UnresolvedIsListedFirst' /\ ClockIsAhead'
  BY <1>1, <1>2, KeptRowsKeepOrder DEF IInv, AlertsInvariant
<1>5. FoundIsCurrent'
  BY <1>1, <1>2 DEF IInv, AlertsInvariant, FoundIsCurrent, Busy
<1>6. UnresolvedShowsNewestReading'
  BY <1>1, <1>2 DEF IInv, AlertsInvariant, UnresolvedShowsNewestReading
<1> QED
  BY <1>3, <1>4, <1>5, <1>6 DEF AlertsInvariant

LEMMA OperatorInvariant ==
  ASSUME IInv, NEW user \in Users, NEW i \in DOMAIN alerts,
         AcknowledgeEvent(user, i) \/ ResolveEvent(user, i)
  PROVE  AlertsInvariant'
<1>1. /\ clock' = clock /\ clock \in Nat
      /\ pc' = pc /\ job' = job /\ found' = found /\ applied' = applied
      /\ \A v \in Workers : Busy(v) => job[v].parameter \in Parameters
      /\ \A v \in Workers : pc[v] = "update" => found[v] \in DOMAIN alerts
  BY DEF IInv, TypeOK, AcknowledgeEvent, ResolveEvent, Busy, Job
<1>2. /\ KeepsRows
      /\ ResolvedIsStamped'
      /\ \A k \in DOMAIN alerts : alerts'[k].reading = alerts[k].reading
  BY OperatorKeeps DEF IInv, AlertsInvariant
<1>3. JobsAreOwn' /\ JobsAreNewest'
  BY <1>1, <1>2 DEF IInv, AlertsInvariant, JobsAreOwn, JobsAreNewest, KeepsRows, Busy
<1>4. UnresolvedIsListedFirst' /\ ClockIsAhead'
  BY <1>1, <1>2, KeptRowsKeepOrder DEF IInv, AlertsInvariant
<1>5. FoundIsCurrent'
  BY <1>1, <1>2 DEF IInv, AlertsInvariant, FoundIsCurrent, KeepsRows, Busy
<1>6. UnresolvedShowsNewestReading'
  <2>1. \A p \in Parameters : Unresolved(p) \subseteq DOMAIN alerts
    BY DEF Unresolved, OpenAlerts
  <2> QED
    BY <1>1, <1>2, <2>1 DEF IInv, AlertsInvariant, UnresolvedShowsNewestReading,
                            KeepsRows
<1> QED
  BY <1>2, <1>3, <1>4, <1>5, <1>6 DEF AlertsInvariant

(* What the end of worker w's call leaves of the other workers. *)
OthersContinue(w) ==
  \A v \in Workers : Busy(v)' =>
    /\ v # w /\ Busy(v) /\ pc'[v] = pc[v]
    /\ job'[v] = job[v] /\ found'[v] = found[v]
    /\ job[v].parameter \in Parameters
    /\ job[v].parameter # job[w].parameter

LEMMA ReturnFacts ==
  ASSUME IInv, SingleWriter, NEW w \in Workers, NEW from, NEW outcome,
         Busy(w), Return(w, from, outcome)
  PROVE  OthersContinue(w)
<1>1. \A v \in Workers : Busy(v)' =>
        /\ v # w /\ Busy(v) /\ pc'[v] = pc[v]
        /\ job'[v] = job[v] /\ found'[v] = found[v]
        /\ job[v].parameter \in Parameters
  BY DEF IInv, TypeOK, Return, Goto, Busy, Job
<1> QED
  BY <1>1, OthersWorkElsewhere DEF IInv, AlertsInvariant, OthersContinue

LEMMA ApplyFacts ==
  ASSUME IInv, NEW w \in Workers, Busy(w), Apply(w)
  PROVE  /\ job[w].parameter \in Parameters
         /\ job[w].reading \in Nat
         /\ applied'[job[w].parameter] = job[w].reading
         /\ \A p \in Parameters \ {job[w].parameter} : applied'[p] = applied[p]
  BY DEF IInv, TypeOK, Apply, Busy, Job

(* What the other workers found stays current when no alert is inserted.   *)
LEMMA FoundStaysCurrent ==
  ASSUME IInv, NEW w \in Workers, OthersContinue(w), KeepsRows
  PROVE  FoundIsCurrent'
<1> SUFFICES ASSUME NEW v \in Workers, pc'[v] \in {"update", "create"}
             PROVE  /\ pc'[v] = "update" =>
                         /\ alerts'[found'[v]].parameter = job'[v].parameter
                         /\ Unresolved(job[v].parameter)' \subseteq {found'[v]}
                    /\ pc'[v] = "create" => Unresolved(job[v].parameter)' = {}
  BY DEF FoundIsCurrent
<1>1. /\ pc[v] = pc'[v] /\ found'[v] = found[v] /\ job'[v] = job[v]
      /\ job[v].parameter \in Parameters
  BY DEF OthersContinue, Busy
<1>2. Unresolved(job[v].parameter)' \subseteq Unresolved(job[v].parameter)
  <2>1. PICK p \in Parameters : p = job[v].parameter /\ p = job'[v].parameter
    BY <1>1
  <2>2. Unresolved(p)' \subseteq Unresolved(p)
    BY DEF KeepsRows
  <2> QED
    BY <2>1, <2>2 DEF Unresolved
<1>3. pc[v] = "update" => alerts'[found[v]].parameter = alerts[found[v]].parameter
  BY DEF IInv, TypeOK, KeepsRows
<1> QED
  BY <1>1, <1>2, <1>3 DEF IInv, AlertsInvariant, FoundIsCurrent

LEMMA UpdateInvariant ==
  ASSUME IInv, SingleWriter, NEW w \in Workers, NEW outcome,
         Return(w, "update", outcome), Apply(w), clock' = clock,
         alerts' = UpdateOpen(alerts, found[w],
                              AlertLevel(job[w].state), job[w].reading)
  PROVE  AlertsInvariant'
<1>1. /\ pc[w] = "update" /\ Busy(w)
      /\ found[w] \in DOMAIN alerts
      /\ clock \in Nat
  BY DEF IInv, TypeOK, Return, Goto, Busy
<1>2. OthersContinue(w)
  BY <1>1, ReturnFacts
<1>3. /\ job[w].parameter \in Parameters
      /\ job[w].reading \in Nat
      /\ applied'[job[w].parameter] = job[w].reading
      /\ \A p \in Parameters \ {job[w].parameter} : applied'[p] = applied[p]
  BY <1>1, ApplyFacts
<1>4. /\ KeepsRows
      /\ ResolvedIsStamped'
      /\ alerts'[found[w]].reading = job[w].reading
      /\ \A k \in DOMAIN alerts \ {found[w]} : alerts'[k] = alerts[k]
  BY <1>1, <1>3, UpdateOpenKeeps DEF IInv, AlertsInvariant
<1>5. JobsAreOwn' /\ JobsAreNewest'
  BY <1>2, <1>4 DEF IInv, AlertsInvariant, JobsAreOwn, JobsAreNewest, KeepsRows,
                    OthersContinue
<1>6. UnresolvedIsListedFirst' /\ ClockIsAhead'
  BY <1>1, <1>4, KeptRowsKeepOrder DEF IInv, AlertsInvariant
<1>7. FoundIsCurrent'
  BY <1>2, <1>4, FoundStaysCurrent
<1>8. UnresolvedShowsNewestReading'
  <2> SUFFICES ASSUME NEW p \in Parameters, NEW i \in Unresolved(p)'
               PROVE  alerts'[i].reading = applied'[p]
    BY DEF UnresolvedShowsNewestReading
  <2>1. i \in Unresolved(p) /\ i \in DOMAIN alerts
    BY <1>4 DEF KeepsRows, Unresolved, OpenAlerts
  <2>2. alerts[i].reading = applied[p] /\ alerts[i].parameter = p
    BY <2>1 DEF IInv, AlertsInvariant, UnresolvedShowsNewestReading, Unresolved,
                OpenAlerts
  <2>3. alerts[found[w]].parameter = job[w].parameter
        /\ Unresolved(job[w].parameter) \subseteq {found[w]}
    BY <1>1 DEF IInv, AlertsInvariant, FoundIsCurrent
  <2>4. CASE p = job[w].parameter
    BY <1>3, <1>4, <2>1, <2>3, <2>4
  <2>5. CASE p # job[w].parameter
    <3>1. i # found[w]
      BY <2>2, <2>3, <2>5
    <3> QED
      BY <1>3, <1>4, <2>1, <2>2, <2>5, <3>1
  <2> QED
    BY <2>4, <2>5
<1> QED
  BY <1>4, <1>5, <1>6, <1>7, <1>8 DEF AlertsInvariant

LEMMA ResolveInvariant ==
  ASSUME IInv, SingleWriter, NEW w \in Workers, NEW outcome,
         Return(w, "resolve", outcome), Apply(w), clock' = clock,
         alerts' = ResolveOpenByParameter(alerts, job[w].parameter)
  PROVE  AlertsInvariant'
<1>1. Busy(w) /\ clock \in Nat
  BY DEF IInv, TypeOK, Return, Goto, Busy
<1>2. OthersContinue(w)
  BY <1>1, ReturnFacts
<1>3. PICK p \in Parameters : p = job[w].parameter
  BY <1>1, ApplyFacts
<1>4. /\ applied'[p] = job[w].reading
      /\ \A q \in Parameters \ {p} : applied'[q] = applied[q]
  BY <1>1, <1>3, ApplyFacts
<1>5. alerts' = ResolveOpenByParameter(alerts, p)
  BY <1>3
<1>6. /\ KeepsRows
      /\ ResolvedIsStamped'
      /\ Unresolved(p)' = {}
      /\ \A k \in DOMAIN alerts : alerts'[k].reading = alerts[k].reading
  BY <1>5, ResolveOpenKeeps DEF IInv, AlertsInvariant
<1>7. JobsAreOwn' /\ JobsAreNewest'
  BY <1>2, <1>6 DEF IInv, AlertsInvariant, JobsAreOwn, JobsAreNewest, KeepsRows,
                    OthersContinue
<1>8. UnresolvedIsListedFirst' /\ ClockIsAhead'
  BY <1>1, <1>6, KeptRowsKeepOrder DEF IInv, AlertsInvariant
<1>9. FoundIsCurrent'
  BY <1>2, <1>6, FoundStaysCurrent
<1>10. UnresolvedShowsNewestReading'
  <2> SUFFICES ASSUME NEW q \in Parameters, NEW i \in Unresolved(q)'
               PROVE  alerts'[i].reading = applied'[q]
    BY DEF UnresolvedShowsNewestReading
  <2>1. q # p /\ i \in Unresolved(q)
    BY <1>6 DEF KeepsRows
  <2>2. i \in DOMAIN alerts
    BY <2>1 DEF Unresolved, OpenAlerts
  <2> QED
    BY <1>4, <1>6, <2>1, <2>2 DEF IInv, AlertsInvariant, UnresolvedShowsNewestReading
<1> QED
  BY <1>6, <1>7, <1>8, <1>9, <1>10 DEF AlertsInvariant

LEMMA CreateInvariant ==
  ASSUME IInv, SingleWriter, NEW w \in Workers, NEW outcome,
         Return(w, "create", outcome), Apply(w), clock' = clock,
         alerts' = Create(alerts, NewAlert(job[w].parameter,
                                           AlertLevel(job[w].state),
                                           job[w].reading))
  PROVE  AlertsInvariant'
<1>1. Busy(w) /\ pc[w] = "create" /\ clock \in Nat /\ alerts \in Seq(AlertRow)
  BY DEF IInv, TypeOK, Return, Goto, Busy
<1>2. OthersContinue(w)
  BY <1>1, ReturnFacts
<1>3. PICK p \in Parameters : p = job[w].parameter
  BY <1>1, ApplyFacts
<1>4. PICK n \in Nat : n = job[w].reading
  BY <1>1, ApplyFacts
<1>5. /\ applied'[p] = n
      /\ \A q \in Parameters \ {p} : applied'[q] = applied[q]
  BY <1>1, <1>3, <1>4, ApplyFacts
<1> DEFINE new == Len(alerts) + 1
<1>6. /\ DOMAIN alerts' = DOMAIN alerts \cup {new}
      /\ new \notin DOMAIN alerts
      /\ DOMAIN alerts \subseteq Nat /\ new \in Nat
      /\ \A i \in DOMAIN alerts : alerts'[i] = alerts[i] /\ new > i
      /\ alerts'[new] = NewAlert(p, AlertLevel(job[w].state), n)
  BY <1>1, <1>3, <1>4 DEF Create
<1>7. /\ alerts'[new].parameter = p
      /\ alerts'[new].status = "active"
      /\ alerts'[new].reading = n
      /\ alerts'[new].createdAt = n
      /\ alerts'[new].resolvedAt = "null"
  BY <1>6 DEF NewAlert
<1> HIDE DEF new
<1>8. \A i \in DOMAIN alerts : alerts[i].createdAt \in Nat
  BY <1>1, RowsAreRows DEF AlertRow
<1>9. /\ n <= clock
      /\ \A i \in DOMAIN alerts : alerts[i].parameter = p => alerts[i].createdAt < n
      /\ Unresolved(p) = {}
  BY <1>1, <1>3, <1>4 DEF IInv, AlertsInvariant, JobsAreOwn, JobsAreNewest,
                          FoundIsCurrent
<1>10. /\ Unresolved(p)' = {new}
       /\ \A q \in Parameters \ {p} : Unresolved(q)' = Unresolved(q)
  <2>1. Unresolved(p)' = Unresolved(p) \cup {new}
    BY <1>6, <1>7 DEF Unresolved, OpenAlerts, OpenStatuses
  <2>2. ASSUME NEW q \in Parameters \ {p}
        PROVE  Unresolved(q)' = Unresolved(q)
    BY <1>6, <1>7 DEF Unresolved, OpenAlerts
  <2> QED
    BY <1>9, <2>1, <2>2
<1>11. JobsAreOwn' /\ ClockIsAhead' /\ ResolvedIsStamped'
  BY <1>2, <1>6, <1>7, <1>9 DEF IInv, AlertsInvariant, JobsAreOwn, ClockIsAhead,
                                ResolvedIsStamped, OthersContinue
<1>12. JobsAreNewest'
  BY <1>2, <1>3, <1>6, <1>7 DEF IInv, AlertsInvariant, JobsAreNewest, OthersContinue
<1>13. UnresolvedIsListedFirst'
  <2> SUFFICES ASSUME NEW q \in Parameters, NEW i \in Unresolved(q)',
                      NEW k \in DOMAIN alerts' \ {i}, alerts'[k].parameter = q
               PROVE  ListedBefore(alerts', i, k)
    BY DEF UnresolvedIsListedFirst
  <2>1. CASE q = p
    BY <1>6, <1>7, <1>8, <1>9, <1>10, <2>1 DEF ListedBefore
  <2>2. CASE q # p
    <3>1. /\ i \in Unresolved(q) /\ i \in DOMAIN alerts
          /\ k \in DOMAIN alerts \ {i} /\ alerts[k].parameter = q
      BY <1>6, <1>7, <1>10, <2>2 DEF Unresolved, OpenAlerts
    <3>2. ListedBefore(alerts, i, k)
      BY <3>1 DEF IInv, AlertsInvariant, UnresolvedIsListedFirst
    <3> QED
      BY <1>6, <3>1, <3>2 DEF ListedBefore
  <2> QED
    BY <2>1, <2>2
<1>14. FoundIsCurrent'
  <2> SUFFICES ASSUME NEW v \in Workers, pc'[v] \in {"update", "create"}
               PROVE  /\ pc'[v] = "update" =>
                           /\ alerts'[found'[v]].parameter = job'[v].parameter
                           /\ Unresolved(job[v].parameter)' \subseteq {found'[v]}
                      /\ pc'[v] = "create" => Unresolved(job[v].parameter)' = {}
    BY DEF FoundIsCurrent
  <2>1. /\ pc[v] = pc'[v] /\ found'[v] = found[v] /\ job'[v] = job[v]
        /\ job[v].parameter \in Parameters \ {p}
    BY <1>2, <1>3 DEF OthersContinue, Busy
  <2>2. Unresolved(job[v].parameter)' = Unresolved(job[v].parameter)
    <3>1. PICK q \in Parameters \ {p} : q = job[v].parameter /\ q = job'[v].parameter
      BY <2>1
    <3>2. Unresolved(q)' = Unresolved(q)
      BY <1>10
    <3> QED
      BY <3>1, <3>2 DEF Unresolved
  <2>3. pc[v] = "update" => alerts'[found[v]] = alerts[found[v]]
    BY <1>6 DEF IInv, TypeOK
  <2> QED
    BY <2>1, <2>2, <2>3 DEF IInv, AlertsInvariant, FoundIsCurrent
<1>15. UnresolvedShowsNewestReading'
  <2> SUFFICES ASSUME NEW q \in Parameters, NEW i \in Unresolved(q)'
               PROVE  alerts'[i].reading = applied'[q]
    BY DEF UnresolvedShowsNewestReading
  <2>1. CASE q = p
    BY <1>5, <1>7, <1>10, <2>1
  <2>2. CASE q # p
    <3>1. i \in Unresolved(q) /\ i \in DOMAIN alerts
      BY <1>10, <2>2 DEF Unresolved, OpenAlerts
    <3> QED
      BY <1>5, <1>6, <2>2, <3>1
         DEF IInv, AlertsInvariant, UnresolvedShowsNewestReading
  <2> QED
    BY <2>1, <2>2
<1> QED
  BY <1>11, <1>12, <1>13, <1>14, <1>15 DEF AlertsInvariant

LEMMA AnswerLostInvariant ==
  ASSUME IInv, SingleWriter, NEW w \in Workers, AnswerLost(w)
  PROVE  AlertsInvariant'
<1>1. Return(w, pc[w], "failed") /\ Apply(w) /\ clock' = clock
  BY DEF AnswerLost
<1>2. CASE /\ pc[w] = "update"
           /\ alerts' = UpdateOpen(alerts, found[w],
                                   AlertLevel(job[w].state), job[w].reading)
  BY <1>1, <1>2, UpdateInvariant
<1>3. CASE /\ pc[w] = "create"
           /\ alerts' = Create(alerts, NewAlert(job[w].parameter,
                                                AlertLevel(job[w].state),
                                                job[w].reading))
  BY <1>1, <1>3, CreateInvariant
<1>4. CASE /\ pc[w] = "resolve"
           /\ alerts' = ResolveOpenByParameter(alerts, job[w].parameter)
  BY <1>1, <1>4, ResolveInvariant
<1> QED
  BY <1>2, <1>3, <1>4 DEF AnswerLost

LEMMA NextAlertsInvariant ==
  ASSUME SingleWriter
  PROVE  IInv /\ [Next]_vars => IInv'
<1> SUFFICES ASSUME IInv, [Next]_vars PROVE IInv'
  OBVIOUS
<1>1. TypeOK'
  BY NextTypeOK DEF IInv
<1>2. ASSUME NEW w \in Workers, NEW p \in Parameters,
             NEW state \in ParameterStates, ProcessAlerts(w, p, state)
      PROVE  AlertsInvariant'
  BY <1>2, ProcessAlertsInvariant
<1>3. ASSUME NEW w \in Workers, FindFinds(w) \/ FindMisses(w) \/ UpdateMisses(w)
      PROVE  AlertsInvariant'
  BY <1>3, QueryInvariant
<1>4. ASSUME NEW w \in Workers, UpdateFindsOpen(w)
      PROVE  AlertsInvariant'
  BY <1>4, UpdateInvariant DEF UpdateFindsOpen
<1>5. ASSUME NEW w \in Workers, CreateAlert(w)
      PROVE  AlertsInvariant'
  BY <1>5, CreateInvariant DEF CreateAlert
<1>6. ASSUME NEW w \in Workers, ResolveOpen(w)
      PROVE  AlertsInvariant'
  BY <1>6, ResolveInvariant DEF ResolveOpen
<1>7. ASSUME NEW w \in Workers, StatementFails(w)
      PROVE  AlertsInvariant'
  BY <1>7, StatementFailsInvariant
<1>8. ASSUME NEW w \in Workers, AnswerLost(w)
      PROVE  AlertsInvariant'
  BY <1>8, AnswerLostInvariant
<1>9. ASSUME NEW user \in Users, NEW i \in DOMAIN alerts,
             AcknowledgeEvent(user, i) \/ ResolveEvent(user, i)
      PROVE  AlertsInvariant'
  BY <1>9, OperatorInvariant
<1>10. ASSUME UNCHANGED vars
       PROVE  AlertsInvariant'
  BY <1>10 DEF vars, IInv, AlertsInvariant, JobsAreOwn, ClockIsAhead, JobsAreNewest,
               Busy, ResolvedIsStamped, UnresolvedIsListedFirst, FoundIsCurrent,
               UnresolvedShowsNewestReading, Unresolved
<1>11. AlertsInvariant'
  BY <1>2, <1>3, <1>4, <1>5, <1>6, <1>7, <1>8, <1>9, <1>10 DEF Next, WorkerStep
<1> QED
  BY <1>1, <1>11 DEF IInv

LEMMA InvariantIsKept ==
  ASSUME SingleWriter
  PROVE  Spec => []IInv
<1>1. Init => IInv
  BY InitTypeOK, InitAlertsInvariant DEF IInv
<1>2. IInv /\ [Next]_vars => IInv'
  BY NextAlertsInvariant
<1> QED
  BY <1>1, <1>2, PTL DEF Spec

(* With one writer per parameter, the alerts of a parameter stay in the    *)
(* order of their readings, and a running processAlerts stays ahead of     *)
(* them, whatever operators and failing statements do.                     *)
THEOREM AlertsInvariantHolds ==
  ASSUME SingleWriter
  PROVE  Spec => []AlertsInvariant
<1>1. IInv => AlertsInvariant
  BY DEF IInv
<1> QED
  BY <1>1, InvariantIsKept, PTL

(* "It also prevents duplicate active alerts for the same parameter"       *)
(* (process.go:12): with one writer per parameter, and for alerts nobody   *)
(* resolved, it does, whatever operators and failing statements do.        *)
THEOREM NoDuplicateUnresolvedAlerts ==
  ASSUME SingleWriter
  PROVE  Spec => []AtMostOneUnresolved
<1>1. IInv => AtMostOneUnresolved
  BY ListedFirstIsUnique DEF IInv, AlertsInvariant
<1> QED
  BY <1>1, InvariantIsKept, PTL

(* The unresolved alert of a parameter shows its newest applied reading.   *)
THEOREM UnresolvedAlertIsFresh ==
  ASSUME SingleWriter
  PROVE  Spec => []UnresolvedShowsNewestReading
<1>1. IInv => UnresolvedShowsNewestReading
  BY DEF IInv, AlertsInvariant
<1> QED
  BY <1>1, InvariantIsKept, PTL

=============================================================================
