-------------------------- MODULE AlarmPanelProofs --------------------------
(***************************************************************************)
(* With one writer per parameter, Alerts implements AlarmPanel: the proof  *)
(* of the refinement, for every number of workers, parameters, users and   *)
(* readings.                                                               *)
(***************************************************************************)
EXTENDS AlertsProofs

(***************************************************************************)
(* How the alarm of one parameter follows its unresolved alerts.           *)
(***************************************************************************)

LEMMA AlarmOfNone ==
  ASSUME NEW p \in Parameters, Unresolved(p) = {}
  PROVE  AlarmOf(p) = [status |-> "none", level |-> "none"]
  BY DEF AlarmOf

LEMMA AlarmOfOne ==
  ASSUME NEW p \in Parameters, NEW i, Unresolved(p) = {i}
  PROVE  AlarmOf(p) = [status |-> alerts[i].status, level |-> alerts[i].level]
<1>1. (CHOOSE k \in Unresolved(p) : TRUE) = i
  OBVIOUS
<1>2. Unresolved(p) # {}
  OBVIOUS
<1> QED
  BY <1>1, <1>2 DEF AlarmOf

LEMMA AlarmSame ==
  ASSUME NEW p \in Parameters, Unresolved(p)' = Unresolved(p),
         \A i \in Unresolved(p) : alerts'[i] = alerts[i]
  PROVE  AlarmOf(p)' = AlarmOf(p)
<1>1. CASE Unresolved(p) = {}
  BY <1>1 DEF AlarmOf
<1>2. CASE Unresolved(p) # {}
  <2>1. PICK i : i = (CHOOSE k \in Unresolved(p) : TRUE)
    OBVIOUS
  <2>2. i \in Unresolved(p) /\ i = (CHOOSE k \in Unresolved(p)' : TRUE)
    BY <1>2, <2>1
  <2>3. AlarmOf(p) = [status |-> alerts[i].status, level |-> alerts[i].level]
    BY <1>2, <2>1 DEF AlarmOf
  <2>4. AlarmOf(p)' = [status |-> alerts'[i].status, level |-> alerts'[i].level]
    BY <1>2, <2>2 DEF AlarmOf
  <2> QED
    BY <2>2, <2>3, <2>4
<1> QED
  BY <1>1, <1>2

(* A raised alarm is one unresolved alert. *)
LEMMA UnresolvedIsSingleton ==
  ASSUME IInv, NEW p \in Parameters, NEW i \in Unresolved(p)
  PROVE  /\ Unresolved(p) = {i}
         /\ i \in DOMAIN alerts
         /\ alerts[i].parameter = p
         /\ alerts[i].status \in OpenStatuses
         /\ AlarmOf(p) # [status |-> "none", level |-> "none"]
<1>1. /\ i \in DOMAIN alerts /\ alerts[i].parameter = p
      /\ alerts[i].status \in OpenStatuses
  BY DEF Unresolved, OpenAlerts
<1>2. Unresolved(p) = {i}
  BY ListedFirstIsUnique DEF IInv, AlertsInvariant, AtMostOneUnresolved
<1>3. AlarmOf(p).status = alerts[i].status
  BY <1>2, AlarmOfOne
<1> QED
  BY <1>1, <1>2, <1>3 DEF OpenStatuses

LEMMA OnlyOneAlarmChanges ==
  ASSUME NEW p \in Parameters,
         \A q \in Parameters \ {p} : AlarmOf(q)' = AlarmOf(q)
  PROVE  PanelAlarm' = [PanelAlarm EXCEPT ![p] = AlarmOf(p)']
  BY DEF PanelAlarm

LEMMA NoAlarmChanges ==
  ASSUME \A q \in Parameters : AlarmOf(q)' = AlarmOf(q)
  PROVE  PanelAlarm' = PanelAlarm
  BY DEF PanelAlarm

(* The same two facts about the next state. *)
LEMMA AlarmOfNoneNext ==
  ASSUME NEW p \in Parameters, Unresolved(p)' = {}
  PROVE  AlarmOf(p)' = [status |-> "none", level |-> "none"]
  BY DEF AlarmOf

LEMMA AlarmOfOneNext ==
  ASSUME NEW p \in Parameters, NEW i, Unresolved(p)' = {i}
  PROVE  AlarmOf(p)' = [status |-> alerts'[i].status, level |-> alerts'[i].level]
<1>1. (CHOOSE k \in Unresolved(p)' : TRUE) = i
  OBVIOUS
<1>2. Unresolved(p)' # {}
  OBVIOUS
<1> QED
  BY <1>1, <1>2 DEF AlarmOf

LEMMA AlertsUnchangedStutters ==
  ASSUME alerts' = alerts
  PROVE  PanelAlarm' = PanelAlarm
  BY UnresolvedSame, AlarmSame, NoAlarmChanges

(***************************************************************************)
(* One step of the panel per effect on an unresolved alert.                *)
(***************************************************************************)

(* Everything a statement does to alerts of other parameters is invisible. *)
OthersKeepAlarm(p) == \A q \in Parameters \ {p} : AlarmOf(q)' = AlarmOf(q)

LEMMA RaiseStep ==
  ASSUME NEW p \in Parameters, NEW level \in AlertLevels, OthersKeepAlarm(p),
         AlarmOf(p) = [status |-> "none", level |-> "none"],
         AlarmOf(p)' = [status |-> "active", level |-> level]
  PROVE  Panel!Next
<1>1. PanelAlarm[p] = Panel!NoAlarm
  BY DEF PanelAlarm, Panel!NoAlarm
<1>2. Panel!Raise(p, level)
  BY <1>1, OnlyOneAlarmChanges DEF OthersKeepAlarm, Panel!Raise
<1> QED
  BY <1>2 DEF Panel!Next, Panel!Levels, AlertLevels

LEMMA ReassessStep ==
  ASSUME NEW p \in Parameters, NEW level \in AlertLevels, OthersKeepAlarm(p),
         AlarmOf(p) # [status |-> "none", level |-> "none"],
         AlarmOf(p)' = [AlarmOf(p) EXCEPT !.level = level]
  PROVE  Panel!Next
<1>1. PanelAlarm[p] = AlarmOf(p) /\ PanelAlarm[p] # Panel!NoAlarm
  BY DEF PanelAlarm, Panel!NoAlarm
<1>2. Panel!Reassess(p, level)
  BY <1>1, OnlyOneAlarmChanges DEF OthersKeepAlarm, Panel!Reassess
<1> QED
  BY <1>2 DEF Panel!Next, Panel!Levels, AlertLevels

LEMMA ClearStep ==
  ASSUME NEW p \in Parameters, OthersKeepAlarm(p),
         AlarmOf(p) # [status |-> "none", level |-> "none"],
         AlarmOf(p)' = [status |-> "none", level |-> "none"]
  PROVE  Panel!Next
<1>1. PanelAlarm[p] # Panel!NoAlarm
  BY DEF PanelAlarm, Panel!NoAlarm
<1>2. Panel!Clear(p)
  BY <1>1, OnlyOneAlarmChanges DEF OthersKeepAlarm, Panel!Clear, Panel!NoAlarm
<1> QED
  BY <1>2 DEF Panel!Next

LEMMA AcknowledgeStep ==
  ASSUME NEW p \in Parameters, OthersKeepAlarm(p),
         AlarmOf(p) # [status |-> "none", level |-> "none"],
         AlarmOf(p)' = [AlarmOf(p) EXCEPT !.status = "acknowledged"]
  PROVE  Panel!Next
<1>1. PanelAlarm[p] = AlarmOf(p) /\ PanelAlarm[p] # Panel!NoAlarm
  BY DEF PanelAlarm, Panel!NoAlarm
<1>2. Panel!AcknowledgeAlarm(p)
  BY <1>1, OnlyOneAlarmChanges DEF OthersKeepAlarm, Panel!AcknowledgeAlarm
<1> QED
  BY <1>2 DEF Panel!Next

(***************************************************************************)
(* What each statement means on the panel.                                 *)
(***************************************************************************)

(* A statement with WHERE id = $1 can change the alarm of one parameter.   *)
LEMMA OneRowOneAlarm ==
  ASSUME NEW i \in DOMAIN alerts, NEW p, p = alerts[i].parameter,
         DOMAIN alerts' = DOMAIN alerts,
         \A k \in DOMAIN alerts \ {i} : alerts'[k] = alerts[k],
         alerts'[i].parameter = p
  PROVE  /\ OthersKeepAlarm(p)
         /\ Unresolved(p) \ {i} = Unresolved(p)' \ {i}
<1>1. ASSUME NEW q \in Parameters \ {p}
      PROVE  AlarmOf(q)' = AlarmOf(q)
  <2>1. Unresolved(q)' = Unresolved(q) /\ i \notin Unresolved(q)
    BY DEF Unresolved, OpenAlerts
  <2>2. Unresolved(q) \subseteq DOMAIN alerts
    BY DEF Unresolved, OpenAlerts
  <2> QED
    BY <2>1, <2>2, AlarmSame
<1>2. Unresolved(p) \ {i} = Unresolved(p)' \ {i}
  BY DEF Unresolved, OpenAlerts
<1> QED
  BY <1>1, <1>2 DEF OthersKeepAlarm

LEMMA OneRowStutters ==
  ASSUME NEW p \in Parameters, NEW i, OthersKeepAlarm(p),
         \A k \in DOMAIN alerts \ {i} : alerts'[k] = alerts[k],
         Unresolved(p)' = Unresolved(p), i \notin Unresolved(p)
  PROVE  PanelAlarm' = PanelAlarm
<1>1. Unresolved(p) \subseteq DOMAIN alerts
  BY DEF Unresolved, OpenAlerts
<1>2. AlarmOf(p)' = AlarmOf(p)
  BY <1>1, AlarmSame
<1> QED
  BY <1>2, NoAlarmChanges DEF OthersKeepAlarm

LEMMA UpdateOpenOnPanel ==
  ASSUME IInv, NEW i \in DOMAIN alerts, NEW state, NEW n, n \in Nat,
         alerts' = UpdateOpen(alerts, i, AlertLevel(state), n)
  PROVE  Panel!Next \/ PanelAlarm' = PanelAlarm
<1>1. alerts \in Seq(AlertRow) /\ AlertLevel(state) \in AlertLevels
  BY AlertLevelType DEF IInv, TypeOK
<1>2. PICK p \in Parameters : p = alerts[i].parameter
  BY <1>1, RowsAreRows DEF AlertRow
<1>3. /\ DOMAIN alerts' = DOMAIN alerts
      /\ \A k \in DOMAIN alerts \ {i} : alerts'[k] = alerts[k]
      /\ alerts'[i].parameter = p
      /\ alerts'[i].status = alerts[i].status
      /\ alerts'[i].resolvedAt = alerts[i].resolvedAt
      /\ alerts'[i].level = AlertLevel(state)
  BY <1>1, <1>2, UpdateOpenRows
<1>4. OthersKeepAlarm(p)
  BY <1>2, <1>3, OneRowOneAlarm
<1>5. Unresolved(p)' = Unresolved(p)
  BY <1>2, <1>3 DEF Unresolved, OpenAlerts
<1>6. CASE i \in Unresolved(p)
  <2>1. AlarmOf(p) = [status |-> alerts[i].status, level |-> alerts[i].level]
    BY <1>6, UnresolvedIsSingleton, AlarmOfOne
  <2>2. AlarmOf(p)' = [status |-> alerts[i].status, level |-> AlertLevel(state)]
    BY <1>3, <1>5, <1>6, UnresolvedIsSingleton, AlarmOfOneNext
  <2>3. AlarmOf(p)' = [AlarmOf(p) EXCEPT !.level = AlertLevel(state)]
    BY <2>1, <2>2
  <2> QED
    BY <1>1, <1>4, <1>6, <2>3, UnresolvedIsSingleton, ReassessStep
<1>7. CASE i \notin Unresolved(p)
  BY <1>3, <1>4, <1>5, <1>7, OneRowStutters
<1> QED
  BY <1>6, <1>7

LEMMA AcknowledgeOnPanel ==
  ASSUME IInv, NEW i \in DOMAIN alerts, alerts' = Acknowledge(alerts, i, NoUser)
  PROVE  Panel!Next \/ PanelAlarm' = PanelAlarm
<1>1. alerts \in Seq(AlertRow)
  BY DEF IInv, TypeOK
<1>2. PICK p \in Parameters : p = alerts[i].parameter
  BY <1>1, RowsAreRows DEF AlertRow
<1>3. /\ DOMAIN alerts' = DOMAIN alerts
      /\ \A k \in DOMAIN alerts \ {i} : alerts'[k] = alerts[k]
      /\ alerts'[i].parameter = p
      /\ alerts'[i].status = "acknowledged"
      /\ alerts'[i].resolvedAt = alerts[i].resolvedAt
      /\ alerts'[i].level = alerts[i].level
  BY <1>1, <1>2, AcknowledgeRows
<1>4. OthersKeepAlarm(p) /\ Unresolved(p) \ {i} = Unresolved(p)' \ {i}
  BY <1>2, <1>3, OneRowOneAlarm
<1>5. i \in Unresolved(p)' <=> i \in Unresolved(p)
  <2>1. alerts[i].status \in AlertStatuses
    BY <1>1, RowsAreRows DEF AlertRow
  <2> QED
    BY <1>2, <1>3, <2>1 DEF Unresolved, OpenAlerts, OpenStatuses, AlertStatuses,
                             IInv, AlertsInvariant, ResolvedIsStamped
<1>6. Unresolved(p)' = Unresolved(p)
  <2>1. \A k : k \in Unresolved(p)' <=> k \in Unresolved(p)
    BY <1>4, <1>5
  <2> QED
    BY <2>1 DEF Unresolved
<1>7. CASE i \in Unresolved(p)
  <2>1. AlarmOf(p) = [status |-> alerts[i].status, level |-> alerts[i].level]
    BY <1>7, UnresolvedIsSingleton, AlarmOfOne
  <2>2. AlarmOf(p)' = [status |-> "acknowledged", level |-> alerts[i].level]
    BY <1>3, <1>6, <1>7, UnresolvedIsSingleton, AlarmOfOneNext
  <2>3. AlarmOf(p)' = [AlarmOf(p) EXCEPT !.status = "acknowledged"]
    BY <2>1, <2>2
  <2> QED
    BY <1>4, <1>7, <2>3, UnresolvedIsSingleton, AcknowledgeStep
<1>8. CASE i \notin Unresolved(p)
  BY <1>3, <1>4, <1>6, <1>8, OneRowStutters
<1> QED
  BY <1>7, <1>8

LEMMA ResolveOnPanel ==
  ASSUME IInv, NEW i \in DOMAIN alerts, alerts' = Resolve(alerts, i)
  PROVE  Panel!Next \/ PanelAlarm' = PanelAlarm
<1>1. alerts \in Seq(AlertRow)
  BY DEF IInv, TypeOK
<1>2. PICK p \in Parameters : p = alerts[i].parameter
  BY <1>1, RowsAreRows DEF AlertRow
<1>3. /\ DOMAIN alerts' = DOMAIN alerts
      /\ \A k \in DOMAIN alerts \ {i} : alerts'[k] = alerts[k]
      /\ alerts'[i].parameter = p
      /\ alerts'[i].status = "resolved"
  BY <1>1, <1>2, ResolveRows
<1>4. OthersKeepAlarm(p) /\ Unresolved(p) \ {i} = Unresolved(p)' \ {i}
  BY <1>2, <1>3, OneRowOneAlarm
<1>5. i \notin Unresolved(p)'
  BY <1>3 DEF Unresolved, OpenAlerts, OpenStatuses
<1>6. CASE i \in Unresolved(p)
  <2>1. Unresolved(p) = {i}
    BY <1>6, UnresolvedIsSingleton
  <2>2. AlarmOf(p)' = [status |-> "none", level |-> "none"]
    BY <1>4, <1>5, <2>1, AlarmOfNoneNext
  <2> QED
    BY <1>4, <1>6, <2>2, UnresolvedIsSingleton, ClearStep
<1>7. CASE i \notin Unresolved(p)
  BY <1>3, <1>4, <1>5, <1>7, OneRowStutters
<1> QED
  BY <1>6, <1>7

LEMMA CreateOnPanel ==
  ASSUME IInv, NEW p \in Parameters, NEW state, NEW n, n \in Nat,
         Unresolved(p) = {},
         alerts' = Create(alerts, NewAlert(p, AlertLevel(state), n))
  PROVE  Panel!Next
<1>1. alerts \in Seq(AlertRow) /\ AlertLevel(state) \in AlertLevels
  BY AlertLevelType DEF IInv, TypeOK
<1> DEFINE new == Len(alerts) + 1
<1>2. /\ DOMAIN alerts' = DOMAIN alerts \cup {new}
      /\ new \notin DOMAIN alerts
      /\ \A i \in DOMAIN alerts : alerts'[i] = alerts[i]
      /\ alerts'[new] = NewAlert(p, AlertLevel(state), n)
  BY <1>1 DEF Create
<1>3. /\ alerts'[new].parameter = p
      /\ alerts'[new].status = "active"
      /\ alerts'[new].level = AlertLevel(state)
      /\ alerts'[new].resolvedAt = "null"
  BY <1>2 DEF NewAlert
<1> HIDE DEF new
<1>4. OthersKeepAlarm(p)
  <2> SUFFICES ASSUME NEW q \in Parameters \ {p} PROVE AlarmOf(q)' = AlarmOf(q)
    BY DEF OthersKeepAlarm
  <2>1. Unresolved(q)' = Unresolved(q)
    BY <1>2, <1>3 DEF Unresolved, OpenAlerts
  <2>2. Unresolved(q) \subseteq DOMAIN alerts
    BY DEF Unresolved, OpenAlerts
  <2> QED
    BY <1>2, <2>1, <2>2, AlarmSame
<1>5. AlarmOf(p)' = [status |-> "active", level |-> AlertLevel(state)]
  <2>1. Unresolved(p)' = {new}
    BY <1>2, <1>3 DEF Unresolved, OpenAlerts, OpenStatuses
  <2> QED
    BY <1>3, <2>1, AlarmOfOneNext
<1> QED
  BY <1>1, <1>4, <1>5, AlarmOfNone, RaiseStep

LEMMA ResolveOpenOnPanel ==
  ASSUME IInv, NEW p \in Parameters, alerts' = ResolveOpenByParameter(alerts, p)
  PROVE  Panel!Next \/ PanelAlarm' = PanelAlarm
<1>1. alerts \in Seq(AlertRow) /\ Unresolved(p)' = {}
  BY ResolveOpenKeeps DEF IInv, TypeOK
<1>2. /\ DOMAIN alerts' = DOMAIN alerts
      /\ \A i \in DOMAIN alerts : i \notin OpenAlerts(alerts, p) =>
           alerts'[i] = alerts[i]
      /\ \A i \in OpenAlerts(alerts, p) :
           alerts'[i].parameter = p /\ alerts[i].parameter = p
  <2>1. \A i \in OpenAlerts(alerts, p) :
          i \in DOMAIN alerts /\ alerts[i].parameter = p
    BY DEF OpenAlerts
  <2>2. \A i \in DOMAIN alerts : i \notin OpenAlerts(alerts, p) =>
          alerts'[i] = alerts[i]
    BY <1>1 DEF ResolveOpenByParameter
  <2> QED
    BY <1>1, <2>1, <2>2, ResolveOpenRows
<1>3. AlarmOf(p)' = [status |-> "none", level |-> "none"]
  BY <1>1, AlarmOfNoneNext
<1>4. OthersKeepAlarm(p)
  <2> SUFFICES ASSUME NEW q \in Parameters \ {p} PROVE AlarmOf(q)' = AlarmOf(q)
    BY DEF OthersKeepAlarm
  <2>1. \A i \in Unresolved(q) : i \in DOMAIN alerts /\ i \notin OpenAlerts(alerts, p)
    BY DEF Unresolved, OpenAlerts
  <2>2. Unresolved(q)' = Unresolved(q)
    BY <1>2 DEF Unresolved, OpenAlerts
  <2> QED
    BY <1>2, <2>1, <2>2, AlarmSame
<1>5. CASE AlarmOf(p) = [status |-> "none", level |-> "none"]
  BY <1>3, <1>4, <1>5, NoAlarmChanges DEF OthersKeepAlarm
<1>6. CASE AlarmOf(p) # [status |-> "none", level |-> "none"]
  BY <1>3, <1>4, <1>6, ClearStep
<1> QED
  BY <1>5, <1>6

(***************************************************************************)
(* The refinement.                                                         *)
(***************************************************************************)

LEMMA InitOnPanel == Init => Panel!Init
<1> SUFFICES ASSUME Init PROVE \A p \in Parameters : Unresolved(p) = {}
  BY AlarmOfNone DEF PanelAlarm, Panel!Init, Panel!NoAlarm
<1>1. DOMAIN alerts = {}
  BY DEF Init
<1> QED
  BY <1>1 DEF Unresolved, OpenAlerts

(* The writes of a call, whether or not their answer arrives. *)
LEMMA WorkerOnPanel ==
  ASSUME IInv, NEW w \in Workers, WorkerStep(w)
  PROVE  Panel!Next \/ PanelAlarm' = PanelAlarm
<1>1. Busy(w) => /\ job[w].parameter \in Parameters
                 /\ job[w].reading \in Nat
  BY DEF IInv, TypeOK, Busy, Job
<1>2. CASE alerts' = alerts
  BY <1>2, AlertsUnchangedStutters
<1>3. CASE /\ pc[w] = "update"
           /\ alerts' = UpdateOpen(alerts, found[w],
                                   AlertLevel(job[w].state), job[w].reading)
  BY <1>1, <1>3, UpdateOpenOnPanel DEF IInv, TypeOK, Busy
<1>4. CASE /\ pc[w] = "create"
           /\ alerts' = Create(alerts, NewAlert(job[w].parameter,
                                                AlertLevel(job[w].state),
                                                job[w].reading))
  <2>1. Unresolved(job[w].parameter) = {}
    BY <1>4 DEF IInv, AlertsInvariant, FoundIsCurrent
  <2> QED
    BY <1>1, <1>4, <2>1, CreateOnPanel DEF Busy
<1>5. CASE /\ pc[w] = "resolve"
           /\ alerts' = ResolveOpenByParameter(alerts, job[w].parameter)
  BY <1>1, <1>5, ResolveOpenOnPanel DEF Busy
<1> QED
  BY <1>2, <1>3, <1>4, <1>5
     DEF WorkerStep, FindFinds, FindMisses, UpdateFindsOpen, UpdateMisses,
         CreateAlert, ResolveOpen, StatementFails, AnswerLost, Return, Goto

LEMMA NextOnPanel == IInv /\ [Next]_vars => [Panel!Next]_PanelAlarm
<1> SUFFICES ASSUME IInv, [Next]_vars
             PROVE  Panel!Next \/ PanelAlarm' = PanelAlarm
  OBVIOUS
<1>1. ASSUME NEW w \in Workers, NEW p \in Parameters,
             NEW state \in ParameterStates, ProcessAlerts(w, p, state)
      PROVE  PanelAlarm' = PanelAlarm
  BY <1>1, AlertsUnchangedStutters DEF ProcessAlerts
<1>2. ASSUME NEW user \in Users, NEW i \in DOMAIN alerts, AcknowledgeEvent(user, i)
      PROVE  Panel!Next \/ PanelAlarm' = PanelAlarm
  BY <1>2, AcknowledgeOnPanel DEF AcknowledgeEvent
<1>3. ASSUME NEW user \in Users, NEW i \in DOMAIN alerts, ResolveEvent(user, i)
      PROVE  Panel!Next \/ PanelAlarm' = PanelAlarm
  BY <1>3, ResolveOnPanel DEF ResolveEvent
<1>4. CASE UNCHANGED vars
  BY <1>4, AlertsUnchangedStutters DEF vars
<1> QED
  BY <1>1, <1>2, <1>3, <1>4, WorkerOnPanel DEF Next

(* With one writer per parameter, everything the workers, the database and *)
(* the operators do (processAlerts, alert_repository.go, events.go) is,    *)
(* seen through the unresolved open alerts, a behaviour of the panel.      *)
THEOREM AlertsImplementAlarmPanel ==
  ASSUME SingleWriter
  PROVE  Spec => ImplementsAlarmPanel
<1>1. Init => Panel!Init
  BY InitOnPanel
<1>2. IInv /\ [Next]_vars => [Panel!Next]_PanelAlarm
  BY NextOnPanel
<1>3. Spec => []IInv
  BY InvariantIsKept
<1> QED
  BY <1>1, <1>2, <1>3, PTL DEF Spec, ImplementsAlarmPanel, Panel!Spec

=============================================================================
