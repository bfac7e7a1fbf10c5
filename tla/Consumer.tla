------------------------------ MODULE Consumer ------------------------------
(***************************************************************************)
(* kafkaadapter.Consumer: the loop that fetches a message of the topic,    *)
(* hands it to Service.Process and commits its offset.  kafka-go is        *)
(* external: the reader fetches a partition from the committed offset on,  *)
(* at the start and after each rebalance of its group, and a commit sets   *)
(* the committed offset, whatever it was.                                  *)
(*                                                                         *)
(* An offset is a position in the log, so `committed' is the last one that *)
(* is covered (Kafka's committed offset is the next one).                  *)
(***************************************************************************)
EXTENDS Topic

CONSTANT MaxRebalances   \* bound on the rebalances of the consumer group

ASSUME ConsumerAssumption == MaxRebalances \in Nat

VARIABLES
  committed,   \* partition -> the last offset covered by a commit
  position,    \* partition -> the last offset fetched by this reader
  at,          \* where in the loop Consumer.Start is
  held,        \* the message in hand, as <<partition, offset>>
  reader,      \* the kafka-go reader: "open" or "closed"
  rebalances,  \* rebalances so far
  starts,      \* readers and generations so far: each starts at `committed'
  attempts,    \* history: partition, offset -> outcome of the last attempt
  handled,     \* history: partition -> offsets that an attempt dealt with
  rows,        \* history: partition, offset -> rows of telemetry_readings
  judged       \* history: partition -> the last message applied to the alerts

sessionVars == <<committed, position, rebalances, starts>>

historyVars == <<attempts, handled, rows, judged>>

consumerVars == <<sessionVars, at, held, reader, historyVars>>

Nothing == << >>

AllOffsets == 1..MaxMessages

(* Outcomes of an attempt.  The first three are conclusive: the offset is  *)
(* committed next.  Of a "failed" one nothing or a part is written.        *)
Conclusive == {"done", "refused", "malformed"}

Outcomes == {"none", "failed"} \cup Conclusive

ConsumerTypeOK ==
  /\ committed \in [Partitions -> 0..MaxMessages]
  /\ position \in [Partitions -> Nat]
  /\ at \in {"fetch", "handle", "saved", "alerts", "commit", "ended"}
  /\ held \in {Nothing} \cup (Partitions \X (Nat \ {0}))
  /\ held = Nothing <=> at \in {"fetch", "ended"}
  /\ reader \in {"open", "closed"}
  /\ rebalances \in 0..MaxRebalances
  /\ starts \in Nat
  /\ attempts \in [Partitions -> [AllOffsets -> Outcomes]]
  /\ handled \in [Partitions -> SUBSET AllOffsets]
  /\ rows \in [Partitions -> [AllOffsets -> Nat]]
  /\ judged \in [Partitions -> 0..MaxMessages]

(* NewConsumer, and the beginning of Consumer.Start. *)
ConsumerStarted ==
  /\ at = "fetch"
  /\ held = Nothing
  /\ reader = "open"

ConsumerInit ==
  /\ ConsumerStarted
  /\ committed = [p \in Partitions |-> 0]
  /\ position = committed
  /\ rebalances = 0
  /\ starts = 1
  /\ attempts = [p \in Partitions |-> [o \in AllOffsets |-> "none"]]
  /\ handled = [p \in Partitions |-> {}]
  /\ rows = [p \in Partitions |-> [o \in AllOffsets |-> 0]]
  /\ judged = [p \in Partitions |-> 0]

-----------------------------------------------------------------------------
(* A faulty variant for the checks: ReadMessage, which commits by itself.  *)
ReadMessage(p) ==
  /\ at = "fetch"
  /\ position[p] < Len(log[p])
  /\ position' = [position EXCEPT ![p] = @ + 1]
  /\ committed' = position'
  /\ held' = <<p, position[p] + 1>>
  /\ at' = "handle"
  /\ UNCHANGED <<topicVars, rebalances, starts, reader, historyVars>>

(* FetchMessage.  A message that the reader has buffered may be returned   *)
(* after the context was cancelled, and after the reader was closed.       *)
Fetch(p) ==
  /\ at = "fetch"
  /\ position[p] < Len(log[p])
  /\ position' = [position EXCEPT ![p] = @ + 1]
  /\ held' = <<p, position[p] + 1>>
  /\ at' = "handle"
  /\ UNCHANGED <<topicVars, committed, rebalances, starts, reader, historyVars>>

(* context.Canceled: Start returns.  Other errors of FetchMessage only     *)
(* delay the next call.                                                    *)
FetchIsCancelled ==
  /\ at = "fetch"
  /\ server = "stopping"
  /\ at' = "ended"
  /\ UNCHANGED <<topicVars, sessionVars, held, reader, historyVars>>

-----------------------------------------------------------------------------
(* handleMessage, for the message <<p, o>>.                                *)
-----------------------------------------------------------------------------
Payload(p, o) == log[p][o].payload

(* The attempt ends with an outcome; a conclusive one is committed next,   *)
(* after any other the loop goes on to the next message.                   *)
Attempted(p, o, outcome, next) ==
  /\ attempts' = [attempts EXCEPT ![p][o] = outcome]
  /\ handled' = [handled EXCEPT ![p] =
                   IF outcome \in Conclusive THEN @ \cup {o} ELSE @]
  /\ at' = next
  /\ held' = IF next \in {"fetch", "ended"} THEN Nothing ELSE held

(* json.Unmarshal fails. *)
Malformed(p, o) ==
  /\ at = "handle"
  /\ Payload(p, o) = "malformed"
  /\ Attempted(p, o, "malformed", "commit")
  /\ UNCHANGED <<topicVars, sessionVars, reader, rows, judged>>

(* Process refuses the reading: a validation error. *)
Refuse(p, o) ==
  /\ at = "handle"
  /\ Payload(p, o) = "refused"
  /\ Attempted(p, o, "refused", "commit")
  /\ UNCHANGED <<topicVars, sessionVars, reader, rows, judged>>

(* Process saves the reading; each attempt inserts a row. *)
SaveReading(p, o) ==
  /\ at = "handle"
  /\ Payload(p, o) = "reading"
  /\ rows' = [rows EXCEPT ![p][o] = @ + 1]
  /\ at' = "saved"
  /\ UNCHANGED <<topicVars, sessionVars, held, reader, attempts, handled, judged>>

(* Process brings the alerts in line with it. *)
ApplyToAlerts(p, o) ==
  /\ at = "saved"
  /\ judged' = [judged EXCEPT ![p] = o]
  /\ at' = "alerts"
  /\ UNCHANGED <<topicVars, sessionVars, held, reader, attempts, handled, rows>>

(* Process saves the quality index and returns. *)
Finish(p, o) ==
  /\ at = "alerts"
  /\ Attempted(p, o, "done", "commit")
  /\ UNCHANGED <<topicVars, sessionVars, reader, rows, judged>>

(* Faulty variants: the loop tries the message again, or ends with the     *)
(* error, or commits the message all the same.                             *)
TryAgain(p, o) ==
  /\ at \in {"saved", "alerts"}
  /\ FaultOrStopping
  /\ Attempted(p, o, "failed", "handle")
  /\ UNCHANGED <<log, server, sessionVars, reader, rows, judged>>

ReturnTheError(p, o) ==
  /\ at \in {"handle", "saved", "alerts"}
  /\ FaultOrStopping
  /\ Attempted(p, o, "failed", "ended")
  /\ UNCHANGED <<log, server, sessionVars, reader, rows, judged>>

CommitAnyway(p, o) ==
  /\ at \in {"handle", "saved", "alerts"}
  /\ at = "handle" => Payload(p, o) # "malformed"
  /\ FaultOrStopping
  /\ Attempted(p, o, "failed", "commit")
  /\ UNCHANGED <<log, server, sessionVars, reader, rows, judged>>

(* A statement of Process fails, at the latest when the context is         *)
(* cancelled.  The error is logged, the message neither committed nor      *)
(* tried again: the loop goes on with the next one.                        *)
ProcessFails(p, o) ==
  /\ at \in {"handle", "saved", "alerts"}
  /\ at = "handle" => Payload(p, o) # "malformed"
  /\ FaultOrStopping
  /\ Attempted(p, o, "failed", "fetch")
  /\ UNCHANGED <<log, server, sessionVars, reader, rows, judged>>

-----------------------------------------------------------------------------
(* A faulty variant: one offset too many. *)
CommitNext(p, o) ==
  /\ at = "commit"
  /\ reader = "open"
  /\ committed' = [committed EXCEPT ![p] = o + 1]
  /\ at' = "fetch"
  /\ held' = Nothing
  /\ UNCHANGED <<topicVars, position, rebalances, starts, reader, historyVars>>

(* CommitMessages; the offset of a message may be lower than the one that  *)
(* is committed, if a rebalance has delivered it again.                    *)
Commit(p, o) ==
  /\ at = "commit"
  /\ reader = "open"
  /\ committed' = [committed EXCEPT ![p] = o]
  /\ at' = "fetch"
  /\ held' = Nothing
  /\ UNCHANGED <<topicVars, position, rebalances, starts, reader, historyVars>>

(* Its error is logged.  That it was executed nevertheless is Commit.      *)
CommitFails(p, o) ==
  /\ at = "commit"
  /\ FaultOrStopping
  /\ at' = "fetch"
  /\ held' = Nothing
  /\ UNCHANGED <<log, server, sessionVars, reader, historyVars>>

(* The group begins a new generation, the reader again at the committed    *)
(* offsets; the message in hand stays in hand.                             *)
Rebalance ==
  /\ server # "down"
  /\ reader = "open"
  /\ rebalances < MaxRebalances
  /\ rebalances' = rebalances + 1
  /\ starts' = starts + 1
  /\ position' = committed
  /\ UNCHANGED <<topicVars, committed, at, held, reader, historyVars>>

(* Consumer.Close. *)
CloseReader ==
  /\ server = "stopping"
  /\ reader = "open"
  /\ reader' = "closed"
  /\ UNCHANGED <<topicVars, sessionVars, at, held, historyVars>>

HandleStep(p, o) ==
  \/ Malformed(p, o)
  \/ Refuse(p, o)
  \/ SaveReading(p, o)
  \/ ApplyToAlerts(p, o)
  \/ Finish(p, o)
  \/ ProcessFails(p, o)
  \/ Commit(p, o)
  \/ CommitFails(p, o)

LoopStep ==
  \/ \E p \in Partitions : Fetch(p)
  \/ \E p \in Partitions, o \in AllOffsets : held = <<p, o>> /\ HandleStep(p, o)
  \/ FetchIsCancelled
-----------------------------------------------------------------------------
(* A commit covers all lower offsets, but only what was looked at: each    *)
(* message below the committed offset was handed to Process (or was not    *)
(* JSON), although some may have failed; the last one was dealt with.      *)
NothingIsSkippedUnseen ==
  \A p \in Partitions :
    /\ \A o \in 1..committed[p] : attempts[p][o] # "none"
    /\ committed[p] > 0 => committed[p] \in handled[p]

(* A message is delivered again, and its reading stored once more, only    *)
(* because a reader or a generation started again at the committed offset. *)
RowsPerStart ==
  \A p \in Partitions, o \in AllOffsets : rows[p][o] <= starts

(* A reading that Process has dealt with to its end, now or earlier. *)
Processed(p, o) == o \in handled[p] /\ Payload(p, o) = "reading"

(* It will be handed to Process again: by this loop, which has it in hand  *)
(* or ahead of its reader, or after the next start.                        *)
Outstanding(p, o) ==
  \/ at = "ended" /\ o > committed[p]
  \/ at # "ended" /\ o > position[p]
  \/ at # "commit" /\ held = <<p, o>>

(* A later start has delivered it again, and that time Process failed. *)
FailedAgain(p, o) == starts > 1 /\ attempts[p][o] = "failed"

(* A start that delivers messages again sets the alerts back to old        *)
(* readings.  Yet the alerts are never older than a reading that was       *)
(* processed, except while that reading is still to be delivered again,    *)
(* and after its repetition failed: then the older reading stands.         *)
(* With a rebalance not even this is true: the commit of the message in    *)
(* hand moves the offset ahead of the reader, and the next start jumps     *)
(* there.                                                                  *)
NewestReadingStands ==
  rebalances = 0 =>
    \A p \in Partitions, o \in AllOffsets : Processed(p, o) =>
      \/ judged[p] > 0 /\ log[p][judged[p]].number >= log[p][o].number
      \/ Outstanding(p, o)
      \/ FailedAgain(p, o)

(* As long as the server runs, no message waits for ever: not behind one   *)
(* that fails, nor behind one that cannot be decoded or committed.         *)
EveryMessageIsTried ==
  <>[](server = "running") =>
    \A p \in Partitions, o \in AllOffsets :
      [](o <= Len(log[p]) => <>(attempts[p][o] # "none"))
=============================================================================
