------------------------------- MODULE Alerts -------------------------------
(***************************************************************************)
(* The alert part of telemetry processing, statement by statement:         *)
(* Service.processAlerts (internal/usecase/telemetry/alerts.go), run by    *)
(* several goroutines at once (one per POST /api/telemetry and the Kafka   *)
(* consumer), while operators acknowledge and resolve events through       *)
(* EventHandler.Action (internal/adapters/http/events.go).  Nothing locks  *)
(* and nothing opens a transaction: between two statements of one call     *)
(* every other goroutine may run.                                          *)
(***************************************************************************)
EXTENDS AlertStore

CONSTANTS
  Workers,      \* the goroutines that call Process
  Handles,      \* Handles[w]: the parameters whose readings reach worker w
  Resolvers,    \* the technologists and admins among the users
  MaxReadings   \* bound on the number of readings processed

ASSUME AlertsAssumption ==
  /\ Handles \in [Workers -> SUBSET Parameters]
  /\ Resolvers \subseteq Users
  /\ MaxReadings \in Nat

VARIABLES
  alerts,   \* the alert_events table
  clock,    \* readings processed so far; also time.Now() of the latest one
  pc,       \* the statement each worker executes next
  job,      \* the reading each worker processes and its ParameterState
  found,    \* id of the alert each worker's FindOpenByParameter returned
  result,   \* alertProcessingResult of each worker's latest call
  applied   \* history: per parameter, the reading of the last alert write

vars == <<alerts, clock, pc, job, found, result, applied>>

ParameterStates == {"normal", "warning", "critical"}

Statements == {"find", "update", "create", "resolve"}

Results == {"none", "created", "updated", "resolved", "failed"}

Job == [parameter : Parameters, state : ParameterStates, reading : Nat]

NoJob == << >>

(***************************************************************************)
(* alertLevelFromParameterState, on the states for which it answers true.  *)
(***************************************************************************)
AlertLevel(state) == IF state = "critical" THEN "critical" ELSE "warning"

NeedsAlert(state) == state \in {"warning", "critical"}

Init ==
  /\ alerts = << >>
  /\ clock = 0
  /\ pc = [w \in Workers |-> "idle"]
  /\ job = [w \in Workers |-> NoJob]
  /\ found = [w \in Workers |-> NoAlert]
  /\ result = [w \in Workers |-> "none"]
  /\ applied = [p \in Parameters |-> 0]

-----------------------------------------------------------------------------
Goto(w, from, to) ==
  /\ pc[w] = from
  /\ pc' = [pc EXCEPT ![w] = to]

(* The call ends with this alertProcessingResult; its locals are gone. *)
Return(w, from, outcome) ==
  /\ Goto(w, from, "idle")
  /\ result' = [result EXCEPT ![w] = outcome]
  /\ job' = [job EXCEPT ![w] = NoJob]
  /\ found' = [found EXCEPT ![w] = NoAlert]

(* The statement just executed put the worker's reading into effect. *)
Apply(w) == applied' = [applied EXCEPT ![job[w].parameter] = job[w].reading]

(* processAlerts is entered with a reading and its state; the candidate    *)
(* alert, its CreatedAt included, is built before the first statement.     *)
ProcessAlerts(w, p, state) ==
  /\ p \in Handles[w]
  /\ clock < MaxReadings
  /\ Goto(w, "idle", IF NeedsAlert(state) THEN "find" ELSE "resolve")
  /\ clock' = clock + 1
  /\ job' = [job EXCEPT ![w] =
               [parameter |-> p, state |-> state, reading |-> clock + 1]]
  /\ result' = [result EXCEPT ![w] = "none"]
  /\ UNCHANGED <<alerts, found, applied>>

FindFinds(w) ==
  /\ Goto(w, "find", "update")
  /\ \E i \in LatestOpenAlert(alerts, job[w].parameter) :
       found' = [found EXCEPT ![w] = i]
  /\ UNCHANGED <<alerts, clock, job, result, applied>>

(* A faulty variant for the checks: "not found" is taken for a row. *)
FindMissesUnnoticed(w) ==
  /\ Goto(w, "find", "update")
  /\ OpenAlerts(alerts, job[w].parameter) = {}
  /\ UNCHANGED <<alerts, clock, job, found, result, applied>>

FindMisses(w) ==
  /\ Goto(w, "find", "create")
  /\ OpenAlerts(alerts, job[w].parameter) = {}
  /\ UNCHANGED <<alerts, clock, job, found, result, applied>>

UpdateFindsOpen(w) ==
  /\ Return(w, "update", "updated")
  /\ UpdateOpenHits(alerts, found[w])
  /\ alerts' = UpdateOpen(alerts, found[w],
                          AlertLevel(job[w].state), job[w].reading)
  /\ Apply(w)
  /\ UNCHANGED clock

(* Faulty variants of UpdateMisses: a new alert is created whether or not  *)
(* the update found its row; a missed update is reported as a success; the *)
(* search is repeated after a missed update.                               *)
UpdateMissesUnchecked(w) ==
  /\ Goto(w, "update", "create")
  /\ found' = [found EXCEPT ![w] = NoAlert]
  /\ UNCHANGED <<alerts, clock, job, result, applied>>

UpdateMissesSilently(w) ==
  /\ Return(w, "update", "updated")
  /\ ~ UpdateOpenHits(alerts, found[w])
  /\ UNCHANGED <<alerts, clock, applied>>

UpdateMissesAndRetries(w) ==
  /\ Goto(w, "update", "find")
  /\ ~ UpdateOpenHits(alerts, found[w])
  /\ found' = [found EXCEPT ![w] = NoAlert]
  /\ UNCHANGED <<alerts, clock, job, result, applied>>

(* The alert was resolved since it was found: the code creates a new one.  *)
UpdateMisses(w) ==
  /\ Goto(w, "update", "create")
  /\ ~ UpdateOpenHits(alerts, found[w])
  /\ found' = [found EXCEPT ![w] = NoAlert]
  /\ UNCHANGED <<alerts, clock, job, result, applied>>

CreateAlert(w) ==
  /\ Return(w, "create", "created")
  /\ alerts' = Create(alerts, NewAlert(job[w].parameter,
                                       AlertLevel(job[w].state),
                                       job[w].reading))
  /\ Apply(w)
  /\ UNCHANGED clock

ResolveOpen(w) ==
  /\ Return(w, "resolve", "resolved")
  /\ alerts' = ResolveOpenByParameter(alerts, job[w].parameter)
  /\ Apply(w)
  /\ UNCHANGED clock

(* A statement returns an error (lost connection, 3 s timeout, shutdown)   *)
(* and has not been executed; the call returns that error.                 *)
StatementFails(w) ==
  /\ pc[w] # "idle"
  /\ Return(w, pc[w], "failed")
  /\ UNCHANGED <<alerts, clock, applied>>

(* The database executed a write but its answer came too late.             *)
AnswerLost(w) ==
  /\ \/ /\ pc[w] = "update"
        /\ UpdateOpenHits(alerts, found[w])
        /\ alerts' = UpdateOpen(alerts, found[w],
                                AlertLevel(job[w].state), job[w].reading)
     \/ /\ pc[w] = "create"
        /\ alerts' = Create(alerts, NewAlert(job[w].parameter,
                                             AlertLevel(job[w].state),
                                             job[w].reading))
     \/ /\ pc[w] = "resolve"
        /\ alerts' = ResolveOpenByParameter(alerts, job[w].parameter)
  /\ Return(w, pc[w], "failed")
  /\ Apply(w)
  /\ UNCHANGED clock

WorkerStep(w) ==
  \/ FindFinds(w)
  \/ FindMisses(w)
  \/ UpdateFindsOpen(w)
  \/ UpdateMisses(w)
  \/ CreateAlert(w)
  \/ ResolveOpen(w)
  \/ StatementFails(w)
  \/ AnswerLost(w)

(* POST /api/events/<id>/ack: any signed-in user, any id, whatever the     *)
(* alert's status by now; the handler passes nil as the acting user.       *)
AcknowledgeEvent(user, i) ==
  /\ alerts' = Acknowledge(alerts, i, NoUser)
  /\ UNCHANGED <<clock, pc, job, found, result, applied>>

(* POST /api/events/<id>/resolve: technologists and admins. *)
ResolveEvent(user, i) ==
  /\ user \in Resolvers
  /\ alerts' = Resolve(alerts, i)
  /\ UNCHANGED <<clock, pc, job, found, result, applied>>

Next ==
  \/ \E w \in Workers :
       \/ \E p \in Parameters, state \in ParameterStates :
            ProcessAlerts(w, p, state)
       \/ WorkerStep(w)
  \/ \E user \in Users, i \in DOMAIN alerts :
       \/ AcknowledgeEvent(user, i)
       \/ ResolveEvent(user, i)

Spec == Init /\ [][Next]_vars

(* A call that has started is a running goroutine whose every statement    *)
(* ends within its timeout: no step of it is postponed for ever.  Readings *)
(* and operator actions may stop coming.                                   *)
FairSpec == Spec /\ \A w \in Workers : WF_vars(WorkerStep(w))
-----------------------------------------------------------------------------
(* Every variable has its type; the row a worker is about to update is a   *)
(* row of the table.                                                       *)
TypeOK ==
  /\ alerts \in Seq(AlertRow)
  /\ clock \in Nat
  /\ pc \in [Workers -> Statements \cup {"idle"}]
  /\ job \in [Workers -> Job \cup {NoJob}]
  /\ \A w \in Workers : pc[w] # "idle" => job[w] \in Job
  /\ found \in [Workers -> Nat]
  /\ \A w \in Workers : pc[w] = "update" => found[w] \in DOMAIN alerts
  /\ result \in [Workers -> Results]
  /\ applied \in [Parameters -> Nat]

(***************************************************************************)
(* Safety.                                                                 *)
(***************************************************************************)

(* An alert of p that is open and has never been resolved.                 *)
Unresolved(p) ==
  {i \in OpenAlerts(alerts, p) : alerts[i].resolvedAt = "null"}

(* The condition under which processAlerts, which takes no lock, keeps its *)
(* promises: no two workers ever handle the same parameter.                *)
SingleWriter ==
  \A v, w \in Workers : v # w => Handles[v] \cap Handles[w] = {}

(* Process "prevents duplicate active alerts for the same parameter"       *)
(* (process.go:12), for the alerts that were never resolved: whatever      *)
(* operators acknowledge or resolve between the statements of a call, and  *)
(* whichever statements fail, createOrUpdateOpenAlert creates an alert     *)
(* only when no unresolved one is open.                                    *)
AtMostOneUnresolved ==
  \A p \in Parameters : \A i, j \in Unresolved(p) : i = j

(* The unresolved open alert of a parameter, if there is one, shows the    *)
(* value and the level of the newest reading applied to that parameter: a  *)
(* normal reading leaves none behind (ResolveOpenByParameter), an abnormal *)
(* one is not written to an older alert (FindOpenByParameter's ORDER BY).  *)
UnresolvedShowsNewestReading ==
  \A p \in Parameters : \A i \in Unresolved(p) : alerts[i].reading = applied[p]

(* Operators' and telemetry's steps never meet on a resolved row: while an *)
(* alert is resolved, no reading changes its level or value, even if it    *)
(* was open when the worker found it (UpdateOpen's status condition).      *)
ResolvedAlertKeepsItsReading ==
  [][\A i \in DOMAIN alerts :
       alerts[i].status = "resolved" =>
         /\ alerts'[i].reading = alerts[i].reading
         /\ alerts'[i].level = alerts[i].level]_alerts

(* A call that reports Created or Updated has left its reading in an alert *)
(* of its parameter that is open at that moment, also when the alert it    *)
(* found was resolved under its hands (alerts.go:109-122).                 *)
SuccessfulCallIsRecorded ==
  [][\A w \in Workers :
       /\ pc[w] # "idle"
       /\ result'[w] \in {"created", "updated"}
       => \E i \in OpenAlerts(alerts', job[w].parameter) :
            /\ alerts'[i].reading = job[w].reading
            /\ alerts'[i].level = job[w].state]_vars

(***************************************************************************)
(* The inductive invariant behind the single-writer properties.            *)
(***************************************************************************)

Busy(w) == pc[w] # "idle"

(* A reading in progress is one of the worker's own and not in the future. *)
JobsAreOwn ==
  \A w \in Workers : Busy(w) =>
    /\ job[w].parameter \in Handles[w]
    /\ job[w].reading <= clock

ClockIsAhead == \A i \in DOMAIN alerts : alerts[i].createdAt <= clock

(* A worker carries a reading newer than every alert of its parameter.     *)
JobsAreNewest ==
  \A w \in Workers : Busy(w) =>
    \A i \in DOMAIN alerts :
      alerts[i].parameter = job[w].parameter => alerts[i].createdAt < job[w].reading

(* Only an acknowledgement takes an alert out of resolved, and it leaves   *)
(* resolved_at set: such an alert is open but not unresolved.              *)
ResolvedIsStamped ==
  \A i \in DOMAIN alerts :
    alerts[i].status = "resolved" => alerts[i].resolvedAt = "set"

(* An unresolved open alert is the one FindOpenByParameter lists first,    *)
(* also among the alerts that an acknowledgement opened again.             *)
UnresolvedIsListedFirst ==
  \A p \in Parameters : \A i \in Unresolved(p) :
    \A k \in DOMAIN alerts \ {i} :
      alerts[k].parameter = p => ListedBefore(alerts, i, k)

(* What a worker learnt from its query still holds when it acts on it.     *)
FoundIsCurrent ==
  \A w \in Workers :
    /\ pc[w] = "update" => /\ alerts[found[w]].parameter = job[w].parameter
                          /\ Unresolved(job[w].parameter) \subseteq {found[w]}
    /\ pc[w] = "create" => Unresolved(job[w].parameter) = {}

(* AtMostOneUnresolved is not inductive: it has to be known why the alert  *)
(* that a worker found, or the absence of one, is still what it was.       *)
AlertsInvariant ==
  /\ JobsAreOwn
  /\ ClockIsAhead
  /\ JobsAreNewest
  /\ ResolvedIsStamped
  /\ UnresolvedIsListedFirst
  /\ FoundIsCurrent
  /\ UnresolvedShowsNewestReading

(* The single-writer system implements the alarm panel: the alarm of a     *)
(* parameter is its unresolved open alert.                                 *)
AlarmOf(p) ==
  IF Unresolved(p) = {}
  THEN [status |-> "none", level |-> "none"]
  ELSE LET i == CHOOSE k \in Unresolved(p) : TRUE
       IN  [status |-> alerts[i].status, level |-> alerts[i].level]

PanelAlarm == [p \in Parameters |-> AlarmOf(p)]

Panel == INSTANCE AlarmPanel WITH alarm <- PanelAlarm

(* Every step of the tables, workers and operators is one step of the      *)
(* panel or invisible on it.                                               *)
ImplementsAlarmPanel == Panel!Spec

(***************************************************************************)
(* Liveness.                                                               *)
(***************************************************************************)

(* However operators interleave, a call ends: after a missed update it     *)
(* creates an alert instead of searching again.                            *)
EveryCallEnds == \A w \in Workers : pc[w] # "idle" ~> pc[w] = "idle"

(***************************************************************************)
(* Statements of the sources that the code does not keep.                  *)
(***************************************************************************)

(* process.go:12, as written: one open alert per parameter.                *)
NoDuplicateOpenAlerts ==
  \A p \in Parameters : \A i, j \in OpenAlerts(alerts, p) : i = j

(* alert.go:43: AcknowledgedBy stores the user who confirmed the alert.    *)
AcknowledgedByIsStored ==
  \A i \in DOMAIN alerts :
    alerts[i].acknowledgedAt = "set" => alerts[i].acknowledgedBy # NoUser
=============================================================================
