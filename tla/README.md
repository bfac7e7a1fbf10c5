# Verification of the extrusion quality system

The system supervises an extrusion line. Readings of eight technological
parameters arrive over MQTT and Kafka or over HTTP; each one is saved, judged by
the setpoint of its parameter, turned into an alert or the end of one, examined
for anomalies together with the readings before it, and followed by a new quality
index. Operators acknowledge alerts, technologists resolve them and change
setpoints and weights, administrators manage accounts. PostgreSQL holds all the
state; the Go server is a set of goroutines that meet only in its tables.

No statement of the application runs inside an explicit transaction and nothing is
locked. The unit of atomicity is one SQL statement, so the models have one action
per statement. What can go wrong is what happens between two of them.

## Components

| Component | State | Operations | Interacts with | Hard part | Correct when | Module |
|---|---|---|---|---|---|---|
| Alert repository (`adapters/postgres/alert_repository.go`) | table `alert_events` | Create, FindOpenByParameter, UpdateOpen, ResolveOpenByParameter, Acknowledge, Resolve, Active | called by processing and by the event handler | status conditions present in some statements and absent in others | an update never touches a closed row | `AlertStore` |
| Alert processing (`usecase/telemetry/alerts.go`) | locals of a call | processAlerts, createOrUpdateOpenAlert | one goroutine per HTTP request, one for Kafka | search, update and insert are separate statements | one open alert per parameter, and it shows the newest reading | `Alerts` |
| Event actions (`adapters/http/events.go`) | none | acknowledge, resolve | the same rows as processing | the page an operator acts on is stale | an action does not undo another | `Alerts` |
| Telemetry processing (`usecase/telemetry`) | locals of a call | Process: validate, save, alerts, anomalies, index | all tables | six kinds of writes, no transaction, stale reads | events agree with the measurements, the index with the events | `Telemetry` |
| Detectors (`usecase/anomalies`) | none | jump, drift, combined risk | reads the history | late readings, thresholds that differ between detectors | a risk is explained by its drifts | `AnomalyDetection` |
| Anomaly repository (`anomaly_repository.go`) | table `anomaly_events` | Create, FindOpen, UpdateOpen, ResolveOpen, Active | called by Process | foreign key to `process_parameters` | one open row per type and parameter | `AnomalyStore` |
| Quality index (`usecase/quality`) | table `quality_index_values` | CalculateIndex, Save | alerts, anomalies, weights | read at three different moments | equals the index of the tables when saved | `QualityIndex`, `Telemetry` |
| Setpoints and weights (`setpoints.go`, `quality_weights.go`, their repositories) | tables `setpoints`, `quality_weights` | Update, GetByParameter | read by Process | changed during a call; rounding of a weight | ranges stay ordered, weights positive | `Settings`, `Telemetry` |
| MQTT subscriber, Kafka producer (`adapters/mqtt`, `adapters/kafka/producer.go`) | connection, messages received, queues of the writer | connect, subscribe, handleMessage, PublishTelemetry, Close | the topic; called by the paho client | lost connections, refused subscriptions, timeouts of what is done later nevertheless | nothing forwarded twice or out of order, never deaf without having tried | `Bridge` |
| Kafka consumer (`adapters/kafka/consumer.go`) | the message in hand, the group's offset | fetch, handleMessage, commit, Close | the topic; calls Process | redelivery, skipped failures, rebalances | no message passed over unseen, the newest reading stands | `Consumer` |
| Accounts (`usecase/auth`, `auth.go`, `rbac.go`, `users.go`) | table `users`, signed tokens | login, change and reset password, roles, activation | guards every handler | a token outlives the rights it was given for; the row is read, then acted upon | rights and passwords are judged by current rows, an inactive account comes to rest | `Accounts` |
| Server life cycle (`app/server`) | goroutines, pool | start, shutdown, crash, restart | the whole pipeline | Run returns without waiting for the pipeline | bridge and consumer keep their promises through it | `Pipeline` (its part of the pipeline) |
| Read-only endpoints, configuration, simulator, web pages | none that other parts read | | | | | not modelled |

`PROJECT.json` lists every component with its files, and under "hazards" each
place in this code where a test would hardly reach what can go wrong.

## Modules

    AlertStore         the alert table and its statements, as operators
      Alerts           processAlerts by several goroutines, and the operators
        AlarmPanel     abstract: one alarm per parameter (INSTANCE ... WITH)
        Telemetry      the whole of Process; contains the steps of Alerts
          AnomalyDetection, AnomalyStore, QualityIndex, Settings   operators it uses
    Topic              the Kafka topic and the context of the process
      Bridge           MQTT to Kafka: subscriber and producer
      Consumer         the loop over the topic
        Pipeline       both, in the life of the server
          Delivery     abstract: each partition in order (INSTANCE ... WITH)
    Accounts           sign-in, guards and user administration
    MCAlerts, MCTelemetry, MCAccounts        instances for TLC
    AlertsProofs       proofs about Alerts
      AlarmPanelProofs   its refinement of AlarmPanel
        TelemetryProofs    Process refines Alerts; types and control of a call
          ProcessProofs      the saved index and its scale, the anomalies, the length of a call
            EventsProofs       events and measurements, the combined risk
    AccountsProofs, BridgeProofs, PipelineProofs

`Consumer` and `Telemetry` meet in the call of `Process`: for `Telemetry` the consumer
is a worker that calls it, for `Consumer` a call of it is three steps that write.

**AlertStore.** `alerts` is a sequence of rows, a row's id its position. Each
statement is one operator with the WHERE clause of the SQL: `UpdateOpenHits` is
`status IN (active, acknowledged)`, `Acknowledge` and `Resolve` have only the id.
`ListedBefore` is `ORDER BY created_at DESC, id DESC`; `LatestOpenAlert` is the row
that `FindOpenByParameter` returns and that `Active` keeps per parameter.

**Alerts.** `pc[w]` names the statement worker `w` executes next, `job[w]` its
reading, `found[w]` the id the search returned, `result[w]` the
`alertProcessingResult`. `ProcessAlerts` enters the function (`created_at` is taken
there, before the first statement, as in the code), `FindFinds`, `FindMisses`,
`UpdateFindsOpen`, `UpdateMisses`, `CreateAlert`, `ResolveOpen` are the branches of
`createOrUpdateOpenAlert` and of the normal case. `StatementFails` and `AnswerLost`
are the two ways a statement can return an error. `AcknowledgeEvent` and
`ResolveEvent` are the two HTTP actions: any user and any id for the first,
technologists and admins for the second. `applied` is a history variable.

**AlarmPanel.** What an operator is promised: an alarm per parameter that is
raised, reassessed without losing its acknowledgement, acknowledged, cleared.
`Alerts!PanelAlarm` maps the table to it: the alarm of a parameter is its
*unresolved* alert, the open one whose `resolved_at` was never set.

**Telemetry.** `stage[w]` is the place in `Process`, `call[w]` its local variables.
`Validate` reads the setpoint; `SaveTelemetryReading` inserts the reading and enters
`processAlerts`, whose statements are steps of `Alerts` (`AlertStatement`);
`LoadActiveAlerts` takes the snapshot for the index; `LoadParameterHistory` and
three times `LoadRiskHistory` are the four queries of `Detector.Detect`;
`FindOpenAnomaly` to `ResolveAnomaly` are `syncAnomalies`: `todo` is what is left of
`Plan(p)`, and `Key` takes the next one of it in the order of the code; `LoadActiveAnomalies`, `LoadQualityWeights` and `SaveQualityIndex` finish
the call. Every statement may fail (`Executed`, `WriteFails`), the database may
refuse an anomaly (`CreateAnomalyIsRefused`), and operators, setpoint and weight
updates interleave. `settled` and `overtaken` are history variables: which events
stand as the last call left them, and which calls have read rows that changed since. `StatementsLeft` bounds what a call has still
to do.

**Settings.** What the handlers accept (`ValidSetpoint`, `ValidWeight`), what the
repositories do (`GetByParameter`, `UpdateSetpointRow`, `UpdateWeightRow`), what the
column makes of a weight (`Stored`) and refuses (`WeightCheck`). `Telemetry` uses them
in `UpdateSetpoint` and `UpdateWeight`: a weight of 0.0004 passes the validation, is
rounded to zero and is refused by the table.

**Topic.** `log` is what was appended to each partition, `server` the process, with its
context ("stopping" is cancelled), `faults` counts what went wrong outside.

**Bridge.** `link` is the paho client: it connects whenever it is not connected
(`Connect`), and its OnConnect handler subscribes (`Subscribe`) or logs that it could
not (`SubscribeFails`: connected and deaf). `starter` is where `Subscriber.Start` is: it
waits, may give up (`ConnectTimesOut`), serves until the context is done
(`Disconnect`). `inbox` holds the messages received, the first one in the hands of
`handleMessage`. `Publish` hands it to the kafka-go writer, which has a `queue` of
batches per partition (the balancer takes any); the handler is `waiting` until its
batch leaves the queue (`WriteBatch`, `LoseBatch`), or its context ends first
(`PublishTimesOut`), which leaves the batch where it is.

**Consumer.** `at` is the place in the loop of `Consumer.Start`, `held` the message in
hand, `position` what the reader has fetched, `committed` the offset of the group.
`Fetch`, the outcomes of `handleMessage` (`Malformed`, `Refuse`, `SaveReading`,
`ApplyToAlerts`, `Finish`, `ProcessFails`), `Commit` and `CommitFails` are the loop:
malformed and refused messages are committed as handled ones are, failed ones are
neither committed nor tried again. `Rebalance` rewinds the reader to `committed` with
the message still in hand. `attempts`, `handled`, `rows` and `judged` are history
variables: how the last attempt at a message ended, which messages an attempt dealt
with, how often the reading was inserted, which message the alerts show.

**Pipeline.** Both halves under one process. `Cancel` is the signal; `CloseProducer`
and, when the queues are flushed, `CloseConsumer` are the closing goroutine; `Exit` is
the return of `Run`, which waits for none of them; `Crash` comes at any time; `Start`
begins again with empty memory at the committed offsets.

**Delivery.** Per partition the number of messages, those that were tried, those that
were settled, and the group's offset: a message is tried only after all before it, and
acknowledged only if it was settled and all before it were tried. It is
deliberately less than at-least-once: a message may fail and never be seen again.

**Accounts.** `users` maps a name to its row, `tokens` are the signed ones handed
out, `request[c]` is the request a client has under way: the stage it is at, its
account, the role its token claims, and what it asks for. `Login`, `FindByUsername`
and `Generate` are sign-in; `Authorize` (`Parse`) and `FindCurrentUser` are the
middleware with the role guard; `Read`, `UpdateRole`, `SetActive`, `ResetPassword`,
`TargetNotFound`, `CreateUser` and `UserExists` are the handlers;
`FindOwnAccount` and `StorePassword` are `ChangePassword`. Each is one statement, and
each statement may fail. `held[c]` is a history variable: every row that the account
of a request had since the request began.

### Abstractions

- Value, unit, source and message of an alert are the number of the reading they
  were copied from. `created_at` is the number too: calls build their candidates at
  distinct times. Two calls on different goroutines may *write* in either order.
- A statement that reports an error was either executed before the error was
  returned, or is never executed. A statement that the server executes after its
  client has given up is not modelled: pgx closes a connection whose context ended.
- Requests that fail validation change nothing and are left out.
- Values are in halves of a unit, stored weights and indexes in thousandths, weights
  asked for in ten-thousandths, so that every threshold of the code is an integer;
  floating-point rounding is left out.
- The history keeps the five latest measurements of a parameter: no query of
  Process asks for more. `newer` lets a reading be saved after later ones.
- `anomaly_events.updated_at` is left out: one statement takes it from the server's
  clock, the other one from the database's. Where it would order two open rows
  of one key, the model picks either.
- In `Accounts` a user name stands for the id (it is unique and cannot be changed),
  a password and its hash are one value, and the clock ticks in token lifetimes.
- kafka-go and paho are modelled from how the code uses them: messages are handled one
  after the other, since the client's options keep the order; a batch times out
  without leaving its queue; a reader that is closed may return what it has buffered;
  the error branch of the token in `Start` (subscriber.go:98) is never reached, since
  with ConnectRetry the token only ends when the client is connected. A batch holds one
  message (a batch of several is written, or lost, message by message), and the
  writer's own attempts at a batch are taken to append it at most once.
- `Consumer` takes `Process` as its three stages that matter to redelivery (reading,
  alerts, the rest), and the sleeps of the loop as nothing: they only delay.
- `Recorded` gives the readings present at the start, with no open event. A calm line
  is the usual state; `UnnoticedRisk` is what calls leave behind that fail right
  after saving their reading (`telemetry_failures` contains such calls).

## Runs

All runs end with `CHECK_DEADLOCK FALSE`: the number of readings is bounded by
`MaxReadings`, that of messages by `MaxMessages`, that of changed accounts and expiries
by `MaxEvents`, and after the last one the instance may stop; so may a server that
nobody restarts. The code has no such bounds; nothing in it waits for another worker
or request.

| Run | Instance | Checks |
|---|---|---|
| `alerts_split` | two workers with a parameter each, an operator, a technologist, 3 readings | `TypeOK`, `AtMostOneUnresolved`, `UnresolvedShowsNewestReading`, `AlertsInvariant`, refinement `ImplementsAlarmPanel` |
| `alerts_shared` | two workers on one parameter, 3 readings, fair | `ResolvedAlertKeepsItsReading`, `SuccessfulCallIsRecorded`, `EveryCallEnds` |
| `alerts_race` | two workers on one parameter, nobody at the panel | violates `NoDuplicateOpenAlerts` |
| `alerts_reopen` | one worker, operators | violates `NoDuplicateOpenAlerts` |
| `alerts_acknowledged_by` | one worker, operators | violates `AcknowledgedByIsStored` |
| `telemetry_failures` | one consumer, three parameters, one failing statement, a technologist, fresh database | `ProcessTypeOK`, `EventsFollowMeasurements`, `AtMostOneOpenAnomaly` |
| `telemetry_risk` | one consumer, late readings, a setpoint or weight update, database that knows `process` | `IndexStaysOnScale`, `CombinedRiskNeedsDrifts`, `IndexReflectsEvents` |
| `telemetry_split` | two workers, `drive_load` and `moisture`, risk already in the readings, a narrowed range for moisture, one failing statement | `EventsFollowMeasurements`, `OpenAnomaliesAreBounded`, `OwnEventsAreCounted`, `IndexReflectsEvents`, `CallsMakeProgress` |
| `accounts` | an administrator, an operator and a free name, two requests at once, two changes or expiries, fair | `TypeOK`, `RightsWereHeld`, `CredentialsWereCurrent`, `DeactivationTakesEffect` |
| `bridge` | two partitions, four messages, some empty, three faults, shutdown, fair | `BridgeTypeOK`, `BridgeKeepsOrder`, `LinkRecovers` |
| `pipeline` | one partition, two messages (readings, refused, malformed), two faults, a restart or a rebalance, fair | `TypeOK`, `NothingIsSkippedUnseen`, `RowsPerStart`, `NewestReadingStands`, refinement `ImplementsDelivery`, `EveryMessageIsTried` |
| `telemetry_combined_risk` | one consumer, fresh database | violates `CombinedRiskIsRecorded` |

What they show:

- *With one writer per parameter the alert logic is right.* An alert that nobody
  resolved is unique, shows the newest reading, and follows the alarm life cycle, with
  operators and failing statements between any two statements of a call.
- *Without it,* three weaker facts remain: a closed row is not changed by a reading, a
  successful call has recorded its reading in an open alert, every call ends.
- *Process repairs what a failed call left.* Until the next reading, operator or
  setpoint update, the events a call has dealt with agree with the saved
  measurements, although earlier calls may have stopped anywhere.
- *A saved index is the index of the tables,* unless somebody changed them during
  the call. That exception is real: the snapshots are taken at different statements.
- *An index that was overtaken is still right about its own reading,* with one writer
  per parameter: of its parameter it counts exactly the jump and the drift that the call
  has detected and, while the alert stands as the call left it, the alert that the
  table lists first. What others did meanwhile it may miss, or count although it is
  undone.
- *Workers that meet on the combined risk store it at most once each.* Two of them may
  both find no open row and both insert one, and the search then returns only the
  latest; but a worker inserts only when it found none, so there are never more open
  rows than workers, whatever fails in between, and the index counts them as one.
- *An index stays on its scale,* and each further event can only lower it.
- *A call of `Process` ends after at most 21 statements,* also when other calls close
  the rows it works on: an update that misses goes on to the insert, never back.

- *A token carries no rights.* It says who is asking; what they may do is read from
  the table by every request. A request that is past its guard may still act after its
  account was demoted, as the code has it, but only with rights it held since it
  began, and a deactivated account comes to rest. What the model shows too, and nobody
  promises otherwise: administrators can lock each other out, a reset between the two
  statements of `ChangePassword` is overwritten, and a change of the password leaves
  the tokens handed out before in force.

- *The bridge forwards each reading at most once and keeps the order within a
  partition,* because the handler never tries again: a publication that timed out may
  still be written, in its place. It loses readings silently (timeouts,
  `RequiredAcks` none, a lost connection, a refused subscription until the next
  connection), and over several partitions it keeps no order. That `Start` has given up
  waiting does no harm to the bridge, but nobody disconnects it at shutdown.
- *The consumer passes over nothing unseen.* A failed message is passed over for good
  when the next one is committed; a message is stored again only after a new start, at
  most once per start.
- *The alerts are never older than a reading that was processed,* now or by an earlier
  attempt (`handled` remembers all of them), but with three exceptions that the code
  has. A restart delivers messages again and sets the alerts back to old readings, so
  the property does not speak of a reading that is still to be delivered again. If
  `Process` fails at that repetition, the message is passed over like any other that
  fails, and the older reading stands although the newer one was processed once: m1 is
  done and its commit fails, m2 is done, the server is restarted before m2 is committed,
  m1 is delivered again and committed, and m2 fails. Until the first restart no failure
  is an exception. With rebalances the property is false, which is why
  `NewestReadingStands` is about runs without one: the message in hand survives a
  rebalance, its commit moves the offset ahead of the reader that was rewound, older
  messages are handled once more, and if a restart or another rebalance comes before
  the newer ones, the reader jumps over them and the alerts stay at an older reading.
- *No message waits for ever* behind one that fails, as long as the server runs.

### Bounds

Three readings allow a first alert, its resolution and a second one while a page or
a worker still holds the first, or two workers inside a call and a third reading
after them; the shortest counterexamples of the violated properties need two or
three. Five calm readings are recorded already, so that a single new one completes
a drift window, and three (one per parameter) the combined risk. Two workers suffice
for each race: a call only ever depends on one row of another one. `MaxFailures = 1`
puts one failure at every statement; later calls then run undisturbed, which is what
repair is about. `MaxNewer = 1` is a reading overtaken by one, `MaxUpdates = 1` a
change of a setpoint or a weight at any point. The values per parameter are the
smallest set that reaches calm, rise without drift, drift, and jump with warning.
Two requests and two changes of accounts let an account be changed, and changed back,
while a request of it is under way, or be deactivated and its token expire.
`bridge`: a message in each place (written, queued, waited for, received) at once, and
three faults, enough for a timeout, a lost batch and a lost connection together.
`pipeline`: two messages are one that is passed over and one behind it; two faults are a
failed commit and a crash; one restart or rebalance delivers everything a second time.
What holds there for larger numbers is proved.

### Fairness

`FairSpec` has weak fairness of `WorkerStep` for each worker and nothing else: a call
that has started is a running goroutine and each of its statements ends within its
timeout of three seconds, with a result or an error. Readings and operators are not
fair: they may stop. `Accounts!FairSpec` has the same for `RequestStep` of each
client, and for neither new requests nor the clock. `BridgeFairness`: the client's
goroutine connects and subscribes when it can (paho retries every two seconds: the
broker can be reached now and then), handler and writer run. `Pipeline!FairSpec`:
the consumer's loop runs and the client connects. There is no fairness for the signal,
the closing goroutine, faults, rebalances, readings, or a restart: the two liveness
properties of the pipeline are about a server that runs from some time on.

## Differences between the code and what it says of itself

1. `process.go:12`: "It also prevents duplicate active alerts for the same
   parameter." Two goroutines that both search before either inserts create two
   (`alerts_race`).
2. The same sentence, with one goroutine: `Acknowledge` has no status condition
   (`alert_repository.go:324`) and opens a resolved alert again beside a newer one
   (`alerts_reopen`). Hence the theorems speak of *unresolved* alerts.
3. `alert.go:43`: "AcknowledgedBy stores the user who confirmed the alert." The
   handler passes `nil` (`events.go:50`, run `alerts_acknowledged_by`).
4. `README.md:554` promises that the combined risk is detected. It is stored under the
   code `process` (`anomaly.go:16`), the migrations register `process_risk`
   (006:20) and add a foreign key (006:120): the insert is refused and ends the
   call, and every further call while the risk lasts (`telemetry_combined_risk`). A
   database in which a combined risk was stored before the migration has the code
   `process` and is not affected; `telemetry_risk` and `telemetry_split` model it.

## Proofs

Checked by tlapm for all values of the constants:

| Theorem | Says | Assumes |
|---|---|---|
| `AlertsProofs!TypeCorrectness` | `Spec => []TypeOK` | the named assumptions on constants |
| `AlertsProofs!AlertsInvariantHolds` | `Spec => []AlertsInvariant` | `SingleWriter` |
| `AlertsProofs!NoDuplicateUnresolvedAlerts` | `Spec => []AtMostOneUnresolved` | `SingleWriter` |
| `AlertsProofs!UnresolvedAlertIsFresh` | `Spec => []UnresolvedShowsNewestReading` | `SingleWriter` |
| `AlertsProofs!ResolvedAlertsAreLeftAlone` | `Spec => ResolvedAlertKeepsItsReading` | the named assumptions |
| `AlertsProofs!SuccessfulCallsAreRecorded` | `Spec => SuccessfulCallIsRecorded` | the named assumptions |
| `AlarmPanelProofs!AlertsImplementAlarmPanel` | `Spec => ImplementsAlarmPanel` | `SingleWriter` |
| `TelemetryProofs!ProcessImplementsAlerts` | `ProcessSpec => Spec` | the named assumptions |
| `TelemetryProofs!ProcessPreventsDuplicates` | `ProcessSpec => []AtMostOneUnresolved` | `SingleWriter` |
| `TelemetryProofs!ProcessImplementsAlarmPanel` | `ProcessSpec => ImplementsAlarmPanel` | `SingleWriter` |
| `TelemetryProofs!ProcessTypeCorrectness` | `ProcessSpec => []ProcessTypeOK` | the named assumptions |
| `ProcessProofs!SavedIndexReflectsEvents` | `ProcessSpec => IndexReflectsEvents` | the named assumptions |
| `ProcessProofs!IndexOnScale` | `ProcessSpec => []IndexStaysOnScale` | the named assumptions |
| `ProcessProofs!EventsNeverRaiseTheIndex` | more events never make `CalculateIndex` return more | the sets of events are finite |
| `ProcessProofs!DuplicatesAreBounded` | `ProcessSpec => []OpenAnomaliesAreBounded` | finitely many workers |
| `ProcessProofs!OneConsumerKeepsOneAnomaly` | `ProcessSpec => []AtMostOneOpenAnomaly` | `SingleConsumer` |
| `ProcessProofs!SingleWriterKeepsOwnAnomaliesUnique` | `ProcessSpec => []OwnAnomaliesAreUnique` | `SingleWriter` |
| `ProcessProofs!CallsAreBounded` | `ProcessSpec => CallsMakeProgress` | the named assumptions |
| `EventsProofs!SettledEventsFollowMeasurements` | `ProcessSpec => []EventsFollowMeasurements` | `SingleWriter` |
| `EventsProofs!OwnEventsCounted` | `ProcessSpec => []OwnEventsAreCounted` | `SingleWriter` |
| `EventsProofs!CombinedRiskIsExplained` | `ProcessSpec => []CombinedRiskNeedsDrifts` | `SingleConsumer` |
| `AccountsProofs!AccountsTypeCorrectness` | `Spec => []TypeOK` | the named assumptions |
| `AccountsProofs!GuardsDecideOnCurrentRows` | `Spec => []RightsWereHeld` | nothing |
| `AccountsProofs!CredentialsAreCurrent` | `Spec => []CredentialsWereCurrent` | nothing |
| `BridgeProofs!BridgeTypesCorrect` | `BridgeSpec => []BridgeTypeOK` | the named assumptions |
| `BridgeProofs!BridgeOrder` | `BridgeSpec => []BridgeKeepsOrder` | the named assumptions |
| `PipelineProofs!PipelineTypesCorrect` | `Spec => []TypeOK` | the named assumptions |
| `PipelineProofs!NoneSkipped` | `Spec => []NothingIsSkippedUnseen` | the named assumptions |
| `PipelineProofs!RowsAreBounded` | `Spec => []RowsPerStart` | the named assumptions |
| `PipelineProofs!NewestStands` | `Spec => []NewestReadingStands` | the named assumptions |
| `PipelineProofs!DeliveryImplemented` | `Spec => ImplementsDelivery` | the named assumptions |

The named assumptions of the pipeline say that the bounds are natural numbers and that
`NoPartition` is not a partition; the set of partitions need not even be finite.

Those of `Telemetry` say that measurements are integers and that every parameter starts
with a setpoint and a weight its table accepts. Those of `Accounts` say that accounts
are well formed and that finitely many requests are under way at a time.

`SingleWriter` is a condition on constants: no two workers handle the same parameter.
It holds of a server fed by Kafka alone, and fails as soon as
`POST /api/telemetry` brings the same parameter. `SingleConsumer` is stronger: there is
one worker. The combined risk needs it, because the calls of all parameters write
its row: two workers may both find none and both insert one, whatever parameters they
handle.

*The argument.* `AtMostOneUnresolved` is not inductive: `CreateAlert` keeps it only if
the search that led there is still valid, with operators in between. `AlertsInvariant`
says why it is. A worker's reading is newer than every alert of its parameter
(`JobsAreNewest`), so a created row is listed first; the unresolved alert is listed
first also among rows that an acknowledgement opened again
(`UnresolvedIsListedFirst`), so the search finds it if there is one; what was found
stays current (`FoundIsCurrent`), because operators can only take alerts *out* of the
unresolved ones: `Resolve` stamps `resolved_at`, and a row that `Acknowledge` takes
out of resolved has the stamp already (`ResolvedIsStamped`). The lemmas on the
statements (`UpdateOpenKeeps`, `ResolveOpenKeeps`, `OperatorKeeps`) state the latter
once; one lemma per group of actions then preserves the invariant. Uniqueness follows
from being listed first (`ListedFirstIsUnique`).

*Any number of writers.* The two action properties of `Alerts` need no such condition.
A reading is written into an existing row by `UpdateOpen` only, whose WHERE clause
decides at that moment and not when the row was found (`RowIsKept`). That a call which
reports success has recorded its reading needs `JobsFit`: who searches, updates or
inserts holds an abnormal reading, and what it found is an alert of its parameter.

*The refinement* to `AlarmPanel` shows for each statement which panel action it is, or
that it does not show: an insert raises, an update reassesses if its row is
unresolved, an acknowledgement of an unresolved row acknowledges, the two resolutions
clear, everything else stutters.

*Telemetry* refines `Alerts` because it only moves its variables through the actions
of `Alerts`; the one thing to show is that the state it enters `processAlerts` with
is one that `Setpoint.Evaluate` returns (`CallsAreJudged`). By this refinement what is
proved of `Alerts` holds of `Process`, the refinement of `AlarmPanel` included.

*Types and control of a call.* `ProcessTypeOK` is not inductive: that the row in
`found` exists when it is updated, and that the key of a created row is known to the
database, depends on what the call is doing. `TypeInv` adds to the types of the tables
(`TablesFit`) what holds of a call at each stage (`CallFits`): it handles its own
parameter, what it detected and what is left of its plan are part of that parameter's
plan, a worker is inside `processAlerts` exactly in the stage "alerts" and with the
reading of the call, and between the search and the write of an anomaly the key in
hand is planned and detected (`AnomalyInHand`). `Moves` states once what all statements
have in common: one worker goes on to the next stage, or its call ends.

*The saved index.* `IndexInv` adds `ReadsAreCurrent`: while nobody has overtaken a
call, the alerts, the anomalies and the weights it has read so far are those in the
tables. Every step of another worker that changes them overtakes the call; a call's own
steps after a read change none of what it read: the alerts are final before they are
read, the anomalies before they are.

*The scale of the index.* The penalty is a sum over a set of events, computed by a
recursive function on its subsets. That such a function exists is not an axiom:
`SumsAreDefined` shows it from the least cardinality at which it could fail
(`LeastNat`, which the library's well-founded orders give without an induction over a
formula), `SumsAreNat` that it is never negative, and `SumTakesAny` that any event may
be taken first, so that the order of the events does not matter. `SumGrows` follows.
What a call has read must be finite for this, which is part of `ReadsAreCurrent`: it is
the image of a table, and a table is a sequence. `EventsNeverRaiseTheIndex` is a
theorem about the operator alone; `IndexOnScale` applies `IndexIsOnScale` to the one
action that saves an index.

*Anomalies are unique* as alerts are, but nobody reopens them: `AnomalyInv` says for
every key that only one worker writes (`Exclusive`) that it has at most one open row,
and that the worker's search still holds when it writes (`HandIsCurrent`).
With one worker each key is exclusive; with one writer per parameter the jumps and the
drifts are.

*How far duplicates go.* For a key that several workers write `HandIsCurrent` is false,
and that open rows are at most as many as writers is not inductive either: a worker on its
way to an insert takes up room already. `RoomInv` counts these workers (`Owing`: those
whose search found nothing, and those whose row was closed after they found it) with the
open rows. A search that finds nothing and a resolution happen when no row is open or
leave none open, and who owes a row is a writer (`OnlyWritersOwe`); an insert turns a row
owed into an open one, by the same worker; all else makes room or leaves it.

*The length of a call.* `StatementsLeft` decreases with every statement. The plan counts
for three statements an anomaly; that the anomaly written is one that was left of it
(`InHand`) is what makes the loop of `syncAnomalies` end.

*Events and measurements.* `EventsFollowMeasurements` speaks of settled events only, and
is kept because `CallAgrees` says what a call still owes: from the insert of its
reading until it deals with an event of its parameter that event is not settled, what
the call has detected is what the saved readings show, and its own reading is the
latest one if it takes it for that. `SingleWriter` is needed for all three: nobody else
saves a reading of the parameter meanwhile. Failed calls need no case of their own,
because a call that ends leaves unsettled what it did not reach.

*The own events of an overtaken index.* `IndexInv` says nothing of a call that was
overtaken, since what it read may have changed. `OwnInv` keeps the part that nobody else
writes. Key by key `syncAnomalies` makes the table agree with what the call has detected
(`SyncedOwn`), and with `SingleWriter` no other worker writes the jump and the drift of
its parameter, so that the read after it finds them so (`HasReadOwn`). Operators do
write its alerts; but an action that concerns the parameter unsettles the alert, and a
step that leaves it settled leaves level and place of the alert that is listed first
(`ShownStays`).

*The combined risk.* `RiskInv` follows the three histories: while a call takes the risk
for detected, each history it has read supports it (`Supported`), and a parameter that
supports a risk over its window drifts, if it is moisture or drive load. With one
consumer none of them changes before the risk is stored, and a later reading unsettles
it. That those drifts are open is then what `EventsInv` says of them.

*Accounts.* The two properties are not inductive: a guard decides on the row it reads,
and they need that row to be among those the request has met. The invariant
(`Sound`) says that the row a request would find now always is, which a change of the
table keeps because every request of the account meets the new row. Their types
(`AccountsTypeCorrectness`) need two more facts: an account is never deleted, so that a
request past its guard finds it (`TypesFit`), and each change under way has its place
in the bound (`Bounded`, which counts the requests about to change a row).

*The bridge.* Order is not inductive in the log alone: the invariant follows a reading
from the inbox through the queue into the log. `InOrder` relates all three per
partition, and `Increasing(inbox)` with `SentOnly` (nothing has a number above `sent`)
says that what arrives next is newer than all of them. A timeout moves nothing between
queue and log, which is why it is harmless.

*The pipeline.* `PipelineInvariant` adds to the bridge's: what the consumer has seen
(`Seen`: everything up to `committed` and up to `position`, and the message in hand, is
within the log; all below was tried), `RowsBound` (rows of a message, plus one if it is
in hand and not stored yet, plus one if it lies ahead of the reader, are at most the
number of starts; a start adds one on both sides), and `Newest`: without a rebalance
the message in hand is the last one fetched, and the alerts show a message at least as
new as every one whose last attempt was done, up to the reader's position and up to
`committed`. The last attempt at a processed reading need not be the one that processed
it: `HandledReadings` says that it was done or failed, and `FirstStart` that nothing
fails after it was done before a second start delivers it again. `NewestReadingStands`
follows from the three, by the order that the bridge established. `StoppedWhenDown`
says that a process that is down holds nothing.

*The refinement* to `Delivery`: `WriteBatch` appends, the end of an attempt tries,
a commit acknowledges, all else stutters. `Seen` supplies the two conditions of the
abstract steps, that all messages before were tried.

*Only model-checked.* `EveryCallEnds`, `DeactivationTakesEffect`, `LinkRecovers` and
`EveryMessageIsTried`: liveness under fairness and ENABLED are outside what the prover
handles. (`CallsAreBounded` proves the part of "every call ends" that is not about
fairness.) The properties the code violates are refuted by TLC. All
other properties of the runs are proved.

## Not modelled

- The pool of database connections, the HTTP server and the construction of the
  dependencies (`dependencies.go`, `router.go`): they keep no state the properties
  speak of. A server without Kafka or MQTT (`config.go`) is one in which the consumer
  or the bridge takes no step.
- The columns `updated_by` of setpoints and weights, and two editors of one
  setpoint: the statements overwrite whatever is there.
- Read-only endpoints, JSON, paging and HTTP codes: no state changes.
- Configuration and logging: read once, or without effect.
- The simulator: a random source of readings in a process of its own.
- The web pages: the server's guards do not rely on them. That a page is stale is in
  the model, since an operator may act on any id at any time.

## Plan

1. What an overtaken index may show of the events of *other* parameters. That it is right
   about its own is proved (`OwnEventsCounted`); of the others it shows a mixture of the
   tables at its three reads, and to state which would need those tables as history.
2. `Pipeline` with two consumers of one group (two servers): partitions move between
   them while a message is in hand. The repository runs a single server, so this is
   about a deployment the code allows but does not describe.
3. `NewestReadingStands` across rebalances and repetitions that fail: what the code would
   have to do (judge by `measured_at`, or try a failed message again) for it to hold.
