--------------------------- MODULE PipelineProofs ---------------------------
(***************************************************************************)
(* Proofs about Pipeline: the types, that no message is passed over        *)
(* unseen, how often a reading is stored, which reading the alerts show in *)
(* the end, and that the pipeline implements Delivery, for any number of   *)
(* partitions, messages, faults, rebalances and restarts.                  *)
(***************************************************************************)
EXTENDS Pipeline, BridgeProofs

-----------------------------------------------------------------------------
(***************************************************************************)
(* The bridge, as a part of the pipeline.                                  *)
(***************************************************************************)

(* Steps that leave the bridge alone, but for the context and the faults.  *)
LEMMA OthersKeepBridge ==
  ASSUME BridgeInvariant, UNCHANGED <<log, bridgeVars>>,
         server' \in {"running", "stopping", "down"}, faults' \in 0..MaxFaults
  PROVE  BridgeInvariant'
<1>1. UNCHANGED <<log, sent, link, starter, inbox, waiting, queue, writer>>
  BY DEF bridgeVars
<1>2. BridgeTypeOK'
  BY <1>1 DEF BridgeInvariant, BridgeTypeOK, TopicTypeOK
<1> QED
  BY <1>1, <1>2, MessagesUntouched

LEMMA FaultTypes ==
  ASSUME BridgeInvariant
  PROVE  /\ server \in {"running", "stopping", "down"}
         /\ faults \in 0..MaxFaults
         /\ Fault => faults' \in 0..MaxFaults
         /\ FaultOrStopping => faults' \in 0..MaxFaults
  BY TopicAssumption
     DEF BridgeInvariant, BridgeTypeOK, TopicTypeOK, Fault, FaultOrStopping

LEMMA LoopKeepsBridge ==
  ASSUME BridgeInvariant, LoopStep, UNCHANGED bridgeVars
  PROVE  BridgeInvariant' /\ UNCHANGED <<log, server>>
<1>1. UNCHANGED <<log, server>> /\ (faults' = faults \/ FaultOrStopping)
  BY DEF LoopStep, HandleStep, Fetch, FetchIsCancelled, Malformed, Refuse,
         SaveReading, ApplyToAlerts, Finish, ProcessFails, Commit, CommitFails,
         topicVars
<1> QED
  BY <1>1, FaultTypes, OthersKeepBridge

LEMMA GoneKeepsBridge ==
  ASSUME BridgeInvariant, Gone, faults' \in 0..MaxFaults
  PROVE  BridgeInvariant'
<1>1. /\ log' = log /\ sent' = sent /\ inbox' = << >> /\ waiting' = NoPartition
      /\ queue' = [p \in Partitions |-> << >>]
      /\ server' = "down" /\ link' = "off" /\ starter' = "ended"
      /\ writer' = "closed"
  BY DEF Gone
<1>2. BridgeTypeOK /\ InOrder(log, queue, Unpublished) /\ SentOnly
  BY DEF BridgeInvariant
<1>3. << >> \in Seq(Message) /\ Len(<< >>) = 0
  OBVIOUS
<1>4. BridgeTypeOK'
  BY <1>1, <1>2, <1>3 DEF BridgeTypeOK, TopicTypeOK
<1>5. InOrder(log', queue', Unpublished')
  <2>1. \A s : Increasing(<< >>) /\ Before(<< >>, s) /\ Before(s, << >>)
               /\ Disjoint(<< >>, s) /\ Disjoint(s, << >>)
    BY <1>3 DEF Increasing, Before, Disjoint
  <2>2. \A p \in Partitions : queue'[p] = << >>
    BY <1>1
  <2>3. Unpublished' = << >>
    BY <1>1 DEF Unpublished
  <2> QED
    BY <1>1, <1>2, <2>1, <2>2, <2>3 DEF InOrder
<1>6. Increasing(inbox') /\ UpTo(inbox', sent')
  BY <1>1, <1>3 DEF Increasing, UpTo
<1>7. \A p \in Partitions : UpTo(log'[p], sent') /\ UpTo(queue'[p], sent')
  <2>1. \A p \in Partitions : queue'[p] = << >>
    BY <1>1
  <2> QED
    BY <1>1, <1>2, <1>3, <2>1 DEF SentOnly, UpTo
<1> QED
  BY <1>4, <1>5, <1>6, <1>7, NextInvariant

LEMMA StartKeepsBridge ==
  ASSUME BridgeInvariant, Start
  PROVE  BridgeInvariant'
<1>1. /\ UNCHANGED <<log, faults, sent, inbox, waiting, queue>>
      /\ server' = "running" /\ link' = "connecting" /\ starter' = "waiting"
      /\ writer' = "open"
  BY DEF Start
<1>2. BridgeTypeOK'
  BY <1>1 DEF BridgeInvariant, BridgeTypeOK, TopicTypeOK
<1> QED
  BY <1>1, <1>2, MessagesUntouched

(* The invariant of the bridge is one of the pipeline. *)
LEMMA BridgeInPipeline ==
  ASSUME BridgeInvariant, [Next]_vars
  PROVE  BridgeInvariant'
<1>1. CASE BridgeStep
  BY <1>1, BridgeStepKeepsInvariant
<1>2. CASE LoopStep /\ UNCHANGED bridgeVars
  BY <1>2, LoopKeepsBridge
<1>3. CASE Rebalance /\ UNCHANGED bridgeVars
  BY <1>3, FaultTypes, OthersKeepBridge DEF Rebalance, topicVars
<1>4. CASE Cancel /\ UNCHANGED <<bridgeVars, consumerVars>>
  BY <1>4, ClientKeepsInvariant
<1>5. CASE CloseConsumer
  BY <1>5, FaultTypes, OthersKeepBridge DEF CloseConsumer, CloseReader, topicVars
<1>6. CASE Exit \/ Crash
  <2>1. faults' \in 0..MaxFaults
    BY <1>6, FaultTypes DEF Exit, Crash
  <2> QED
    BY <1>6, <2>1, GoneKeepsBridge DEF Exit, Crash
<1>7. CASE Start
  BY <1>7, StartKeepsBridge
<1>8. CASE UNCHANGED vars
  BY <1>8, FaultTypes, OthersKeepBridge DEF vars, topicVars, bridgeVars
<1> QED
  BY <1>1, <1>2, <1>3, <1>4, <1>5, <1>6, <1>7, <1>8 DEF Next

(* The topic only grows, by a message of the writer. *)
LEMMA LogGrows ==
  ASSUME BridgeInvariant, BridgeStep
  PROVE  \/ log' = log
         \/ \E p \in Partitions :
              /\ queue[p] # << >>
              /\ log' = [log EXCEPT ![p] = Append(@, Head(queue[p]))]
  BY DEF BridgeStep, ClientStep, HandlerStep, WriterStep, Connect, Subscribe,
         SubscribeFails, ConnectTimesOut, ConnectionLost, Disconnect,
         SendReading, PublishFails, Publish, WriteBatch, LoseBatch,
         PublishTimesOut, CloseProducer, BatchDone, topicVars

LEMMA LongerLog ==
  ASSUME BridgeInvariant, BridgeStep
  PROVE  \A p \in Partitions :
           /\ Len(log[p]) \in Nat /\ Len(log'[p]) \in Nat
           /\ Len(log'[p]) >= Len(log[p])
           /\ \A o \in Offsets(p) : log'[p][o] = log[p][o]
<1>1. /\ log \in Sequences
      /\ \A p \in Partitions : log[p] \in Seq(Message) /\ Len(log[p]) \in Nat
  BY TypesOf DEF BridgeInvariant, Sequences
<1>2. ASSUME NEW p \in Partitions, NEW m,
             log' = [log EXCEPT ![p] = Append(@, m)], NEW q \in Partitions
      PROVE  /\ Len(log'[q]) = IF q = p THEN Len(log[q]) + 1 ELSE Len(log[q])
             /\ \A o \in Offsets(q) : log'[q][o] = log[q][o]
  <2>1. log'[q] = IF q = p THEN Append(log[p], m) ELSE log[q]
    BY <1>1, <1>2 DEF Sequences
  <2> QED
    BY <1>1, <2>1 DEF Offsets
<1>3. CASE \E p \in Partitions : log' = [log EXCEPT ![p] = Append(@, Head(queue[p]))]
  <2>1. PICK p \in Partitions : log' = [log EXCEPT ![p] = Append(@, Head(queue[p]))]
    BY <1>3
  <2>2. \A q \in Partitions :
          /\ Len(log'[q]) = IF q = p THEN Len(log[q]) + 1 ELSE Len(log[q])
          /\ \A o \in Offsets(q) : log'[q][o] = log[q][o]
    BY <1>2, <2>1
  <2> QED
    BY <1>1, <2>2
<1>4. CASE log' = log
  BY <1>1, <1>4
<1> QED
  BY <1>3, <1>4, LogGrows

-----------------------------------------------------------------------------
(***************************************************************************)
(* Functions of a partition and an offset.                                 *)
(***************************************************************************)
LEMMA UpdateTwice ==
  ASSUME NEW S, NEW f \in [Partitions -> [AllOffsets -> S]],
         NEW p \in Partitions, NEW o \in AllOffsets, NEW v \in S
  PROVE  LET g == [f EXCEPT ![p][o] = v]
         IN  /\ g \in [Partitions -> [AllOffsets -> S]]
             /\ g[p][o] = v
             /\ \A q \in Partitions, i \in AllOffsets :
                  q # p \/ i # o => g[q][i] = f[q][i]
  OBVIOUS

(* A step with a message in hand. *)
LEMMA InHand ==
  ASSUME NEW p, NEW o, held = <<p, o>>
  PROVE  /\ held # Nothing
         /\ \A q, i : held = <<q, i>> <=> q = p /\ i = o
  BY DEF Nothing

(* What Attempted does. *)
LEMMA AttemptedChanges ==
  ASSUME ConsumerTypeOK, NEW p \in Partitions, NEW o \in AllOffsets,
         NEW outcome \in Outcomes \ {"none"}, NEW next,
         Attempted(p, o, outcome, next)
  PROVE  /\ attempts' \in [Partitions -> [AllOffsets -> Outcomes]]
         /\ attempts'[p][o] = outcome
         /\ \A q \in Partitions, i \in AllOffsets :
              q # p \/ i # o => attempts'[q][i] = attempts[q][i]
         /\ handled' \in [Partitions -> SUBSET AllOffsets]
         /\ handled' = IF outcome \in Conclusive
                       THEN [handled EXCEPT ![p] = @ \cup {o}] ELSE handled
         /\ \A q \in Partitions : handled[q] \subseteq handled'[q]
         /\ outcome \in Conclusive => o \in handled'[p]
<1>1. /\ attempts \in [Partitions -> [AllOffsets -> Outcomes]]
      /\ handled \in [Partitions -> SUBSET AllOffsets]
  BY DEF ConsumerTypeOK
<1>2. attempts' = [attempts EXCEPT ![p][o] = outcome]
  BY DEF Attempted
<1>3. handled' = IF outcome \in Conclusive
                 THEN [handled EXCEPT ![p] = @ \cup {o}] ELSE handled
  BY <1>1 DEF Attempted
<1>4. /\ attempts' \in [Partitions -> [AllOffsets -> Outcomes]]
      /\ attempts'[p][o] = outcome
      /\ \A q \in Partitions, i \in AllOffsets :
           q # p \/ i # o => attempts'[q][i] = attempts[q][i]
  BY <1>1, <1>2, UpdateTwice
<1> QED
  BY <1>1, <1>3, <1>4

-----------------------------------------------------------------------------
(***************************************************************************)
(* The types of the consumer.                                              *)
(***************************************************************************)
LEMMA HandleKeepsTypes ==
  ASSUME ConsumerTypeOK, NEW p \in Partitions, NEW o \in AllOffsets,
         held = <<p, o>>, HandleStep(p, o)
  PROVE  ConsumerTypeOK'
<1>1. /\ held' = held \/ held' = Nothing
      /\ held' = Nothing <=> at' \in {"fetch", "ended"}
      /\ at' \in {"fetch", "handle", "saved", "alerts", "commit", "ended"}
  <2>1. held # Nothing
    BY InHand
  <2>2. CASE Malformed(p, o) \/ Refuse(p, o) \/ Finish(p, o)
    BY <2>1, <2>2 DEF Malformed, Refuse, Finish, Attempted
  <2>3. CASE ProcessFails(p, o)
    BY <2>1, <2>3 DEF ProcessFails, Attempted
  <2>4. CASE SaveReading(p, o) \/ ApplyToAlerts(p, o)
    BY <2>1, <2>4 DEF SaveReading, ApplyToAlerts
  <2>5. CASE Commit(p, o) \/ CommitFails(p, o)
    BY <2>1, <2>5 DEF Commit, CommitFails
  <2> QED
    BY <2>2, <2>3, <2>4, <2>5 DEF HandleStep
<1>2. held' \in {Nothing} \cup (Partitions \X (Nat \ {0}))
  BY <1>1 DEF ConsumerTypeOK
<1>3. /\ attempts' \in [Partitions -> [AllOffsets -> Outcomes]]
      /\ handled' \in [Partitions -> SUBSET AllOffsets]
  <2>1. CASE Malformed(p, o)
    BY <2>1, AttemptedChanges DEF Malformed, Outcomes, Conclusive
  <2>2. CASE Refuse(p, o)
    BY <2>2, AttemptedChanges DEF Refuse, Outcomes, Conclusive
  <2>3. CASE Finish(p, o)
    BY <2>3, AttemptedChanges DEF Finish, Outcomes, Conclusive
  <2>4. CASE ProcessFails(p, o)
    BY <2>4, AttemptedChanges DEF ProcessFails, Outcomes, Conclusive
  <2>5. CASE SaveReading(p, o) \/ ApplyToAlerts(p, o) \/ Commit(p, o) \/ CommitFails(p, o)
    BY <2>5 DEF SaveReading, ApplyToAlerts, Commit, CommitFails, historyVars,
                ConsumerTypeOK
  <2> QED
    BY <2>1, <2>2, <2>3, <2>4, <2>5 DEF HandleStep
<1>4. rows' \in [Partitions -> [AllOffsets -> Nat]]
  <2>1. CASE SaveReading(p, o)
    <3>1. rows' = [rows EXCEPT ![p][o] = rows[p][o] + 1]
      BY <2>1 DEF SaveReading
    <3>2. rows \in [Partitions -> [AllOffsets -> Nat]] /\ rows[p][o] + 1 \in Nat
      BY DEF ConsumerTypeOK
    <3> QED
      BY <3>1, <3>2, UpdateTwice
  <2>2. CASE ~SaveReading(p, o)
    <3>1. rows' = rows
      BY <2>2 DEF HandleStep, Malformed, Refuse, ApplyToAlerts, Finish,
                  ProcessFails, Commit, CommitFails, historyVars
    <3> QED
      BY <3>1 DEF ConsumerTypeOK
  <2> QED
    BY <2>1, <2>2
<1>5. /\ judged' \in [Partitions -> 0..MaxMessages]
      /\ committed' \in [Partitions -> 0..MaxMessages]
  <2>1. o \in 0..MaxMessages
    BY TopicAssumption DEF AllOffsets
  <2>2. judged' = judged \/ judged' = [judged EXCEPT ![p] = o]
    BY DEF HandleStep, Malformed, Refuse, SaveReading, ApplyToAlerts, Finish,
           ProcessFails, Commit, CommitFails, historyVars
  <2>3. committed' = committed \/ committed' = [committed EXCEPT ![p] = o]
    BY DEF HandleStep, Malformed, Refuse, SaveReading, ApplyToAlerts, Finish,
           ProcessFails, Commit, CommitFails, sessionVars
  <2>4. /\ judged \in [Partitions -> 0..MaxMessages]
        /\ committed \in [Partitions -> 0..MaxMessages]
    BY DEF ConsumerTypeOK
  <2>5. judged' \in [Partitions -> 0..MaxMessages]
    BY <2>1, <2>2, <2>4
  <2>6. committed' \in [Partitions -> 0..MaxMessages]
    BY <2>1, <2>3, <2>4
  <2> QED
    BY <2>5, <2>6
<1>6. UNCHANGED <<position, reader, rebalances, starts>>
  BY DEF HandleStep, Malformed, Refuse, SaveReading, ApplyToAlerts, Finish,
         ProcessFails, Commit, CommitFails, sessionVars
<1> QED
  BY <1>1, <1>2, <1>3, <1>4, <1>5, <1>6 DEF ConsumerTypeOK

LEMMA FetchKeepsTypes ==
  ASSUME ConsumerTypeOK, NEW p \in Partitions, Fetch(p)
  PROVE  ConsumerTypeOK'
<1>1. /\ position' = [position EXCEPT ![p] = @ + 1]
      /\ held' = <<p, position[p] + 1>> /\ at' = "handle"
      /\ UNCHANGED <<committed, rebalances, starts, reader, attempts, handled,
                     rows, judged>>
  BY DEF Fetch, historyVars
<1>2. position' \in [Partitions -> Nat] /\ position[p] + 1 \in Nat \ {0}
  BY <1>1 DEF ConsumerTypeOK
<1>3. held' # Nothing /\ held' \in Partitions \X (Nat \ {0})
  BY <1>1, <1>2 DEF Nothing
<1> QED
  BY <1>1, <1>2, <1>3 DEF ConsumerTypeOK

(* Nothing runs while the server is down. *)
StoppedWhenDown == server = "down" => at = "ended"

LEMMA TypesInPipeline ==
  ASSUME ConsumerTypeOK, StoppedWhenDown, [Next]_vars
  PROVE  ConsumerTypeOK' /\ StoppedWhenDown'
<1>1. ASSUME UNCHANGED consumerVars
      PROVE  ConsumerTypeOK'
  BY <1>1 DEF ConsumerTypeOK, consumerVars, sessionVars, historyVars
<1>2. CASE BridgeStep /\ UNCHANGED consumerVars
  <2>1. server' = server
    BY <1>2 DEF BridgeStep, ClientStep, HandlerStep, WriterStep, Connect,
       Subscribe, SubscribeFails, ConnectTimesOut, ConnectionLost, Disconnect,
       SendReading, PublishFails, Publish, WriteBatch, LoseBatch,
       PublishTimesOut, CloseProducer, topicVars
  <2> QED
    BY <1>1, <1>2, <2>1 DEF StoppedWhenDown, consumerVars
<1>3. CASE LoopStep
  <2>1. CASE FetchIsCancelled
    BY <2>1 DEF FetchIsCancelled, ConsumerTypeOK, sessionVars, historyVars,
                StoppedWhenDown
  <2>2. CASE \E p \in Partitions : Fetch(p)
    BY <2>2, FetchKeepsTypes DEF Fetch, topicVars, StoppedWhenDown
  <2>3. CASE \E p \in Partitions, o \in AllOffsets :
               held = <<p, o>> /\ HandleStep(p, o)
    <3>1. PICK p \in Partitions, o \in AllOffsets :
            held = <<p, o>> /\ HandleStep(p, o)
      BY <2>3
    <3>2. at # "ended" /\ server' = server
      BY <3>1 DEF HandleStep, Malformed, Refuse, SaveReading, ApplyToAlerts,
                  Finish, ProcessFails, Commit, CommitFails, topicVars
    <3> QED
      BY <3>1, <3>2, HandleKeepsTypes DEF StoppedWhenDown
  <2> QED
    BY <1>3, <2>1, <2>2, <2>3 DEF LoopStep
<1>4. CASE Rebalance
  <2>1. committed \in [Partitions -> Nat]
    BY TopicAssumption DEF ConsumerTypeOK
  <2> QED
    BY <1>4, <2>1, ConsumerAssumption
       DEF Rebalance, ConsumerTypeOK, historyVars, topicVars, StoppedWhenDown
<1>5. CASE Cancel /\ UNCHANGED <<bridgeVars, consumerVars>>
  BY <1>1, <1>5 DEF Cancel, StoppedWhenDown
<1>6. CASE CloseConsumer
  BY <1>6 DEF CloseConsumer, CloseReader, ConsumerTypeOK, sessionVars,
              historyVars, topicVars, StoppedWhenDown
<1>7. CASE Exit \/ Crash
  BY <1>7 DEF Exit, Crash, Gone, ConsumerTypeOK, sessionVars, historyVars,
              StoppedWhenDown
<1>8. CASE Start
  <2>1. committed \in [Partitions -> Nat] /\ held = Nothing
    BY <1>8, TopicAssumption DEF Start, ConsumerTypeOK, StoppedWhenDown
  <2>2. /\ at' = "fetch" /\ reader' = "open" /\ position' = committed
        /\ starts' = starts + 1 /\ server' = "running"
        /\ UNCHANGED <<committed, held, rebalances, attempts, handled, rows, judged>>
    BY <1>8 DEF Start, historyVars
  <2>3. ConsumerTypeOK'
    BY <2>1, <2>2 DEF ConsumerTypeOK
  <2> QED
    BY <2>2, <2>3 DEF StoppedWhenDown
<1>9. CASE UNCHANGED vars
  BY <1>1, <1>9 DEF vars, topicVars, consumerVars, StoppedWhenDown
<1> QED
  BY <1>2, <1>3, <1>4, <1>5, <1>6, <1>7, <1>8, <1>9 DEF Next

-----------------------------------------------------------------------------
(***************************************************************************)
(* No message is passed over unseen.                                       *)
(***************************************************************************)
Tried(p, o) == attempts[p][o] # "none"

(* All messages before a commit were tried, and so were all those fetched, *)
(* except the one in hand, and all before that one.  The commit of a       *)
(* message in hand comes after it was dealt with.                          *)
Seen ==
  \A p \in Partitions :
    /\ committed[p] > 0 => committed[p] \in handled[p]
    /\ \A o \in AllOffsets :
         /\ o <= committed[p] => Tried(p, o)
         /\ at # "ended" /\ o <= position[p] /\ held # <<p, o>> => Tried(p, o)
         /\ held = <<p, o>> =>
              /\ o <= Len(log[p])
              /\ \A i \in AllOffsets : i < o => Tried(p, i)
              /\ at = "commit" => Tried(p, o) /\ o \in handled[p]

(* The kinds of steps with a message in hand. *)
LEMMA HandleKinds ==
  ASSUME NEW p, NEW o, HandleStep(p, o)
  PROVE  \/ /\ \E outcome \in Conclusive : Attempted(p, o, outcome, "commit")
            /\ at \in {"handle", "alerts"}
            /\ UNCHANGED <<committed>>
         \/ /\ Attempted(p, o, "failed", "fetch")
            /\ at \in {"handle", "saved", "alerts"}
            /\ UNCHANGED <<committed>>
         \/ SaveReading(p, o) \/ ApplyToAlerts(p, o)
         \/ Commit(p, o) \/ CommitFails(p, o)
  BY DEF HandleStep, Malformed, Refuse, Finish, ProcessFails, Conclusive, sessionVars

LEMMA HandleChanges ==
  ASSUME ConsumerTypeOK, NEW p \in Partitions, NEW o \in AllOffsets,
         held = <<p, o>>, HandleStep(p, o)
  PROVE  /\ UNCHANGED <<log, server, position, rebalances, starts>>
         /\ at # "ended" /\ at' # "ended"
         /\ \A q \in Partitions, i \in AllOffsets : Tried(q, i) => Tried(q, i)'
         /\ \A q \in Partitions : handled[q] \subseteq handled'[q]
         /\ \/ committed' = committed
            \/ at = "commit" /\ committed' = [committed EXCEPT ![p] = o]
         /\ \/ held' = held
            \/ held' = Nothing /\ (at = "commit" \/ Tried(p, o)')
         /\ at' = "commit" => Tried(p, o)' /\ o \in handled'[p]
<1>1. UNCHANGED <<log, server, position, rebalances, starts>>
  BY DEF HandleStep, Malformed, Refuse, SaveReading, ApplyToAlerts, Finish,
         ProcessFails, Commit, CommitFails, sessionVars, topicVars
<1>2. CASE \E outcome \in Conclusive :
             /\ Attempted(p, o, outcome, "commit")
             /\ at \in {"handle", "alerts"} /\ UNCHANGED <<committed>>
  <2>1. PICK outcome \in Conclusive :
             /\ Attempted(p, o, outcome, "commit")
             /\ at \in {"handle", "alerts"} /\ UNCHANGED <<committed>>
    BY <1>2
  <2>2. outcome \in Outcomes \ {"none"}
    BY DEF Outcomes, Conclusive
  <2>3. held' = held /\ at' = "commit"
    BY <2>1 DEF Attempted
  <2> QED
    BY <1>1, <2>1, <2>2, <2>3, AttemptedChanges DEF Tried
<1>3. CASE /\ Attempted(p, o, "failed", "fetch")
           /\ at \in {"handle", "saved", "alerts"} /\ UNCHANGED <<committed>>
  <2>1. "failed" \in Outcomes \ {"none"}
    BY DEF Outcomes
  <2>2. held' = Nothing /\ at' = "fetch"
    BY <1>3 DEF Attempted
  <2> QED
    BY <1>1, <1>3, <2>1, <2>2, AttemptedChanges DEF Tried
<1>4. CASE SaveReading(p, o) \/ ApplyToAlerts(p, o)
  BY <1>1, <1>4 DEF SaveReading, ApplyToAlerts, sessionVars, Tried
<1>5. CASE Commit(p, o) \/ CommitFails(p, o)
  BY <1>1, <1>5 DEF Commit, CommitFails, sessionVars, historyVars, Tried
<1> QED
  BY <1>2, <1>3, <1>4, <1>5, HandleKinds

LEMMA HandleKeepsSeen ==
  ASSUME ConsumerTypeOK, Seen, NEW p \in Partitions, NEW o \in AllOffsets,
         held = <<p, o>>, HandleStep(p, o)
  PROVE  Seen'
<1>1. /\ UNCHANGED <<log, position>> /\ at # "ended" /\ at' # "ended"
      /\ \A q \in Partitions, i \in AllOffsets : Tried(q, i) => Tried(q, i)'
      /\ \A q \in Partitions : handled[q] \subseteq handled'[q]
      /\ \/ committed' = committed
         \/ at = "commit" /\ committed' = [committed EXCEPT ![p] = o]
      /\ \/ held' = held
         \/ held' = Nothing /\ (at = "commit" \/ Tried(p, o)')
      /\ at' = "commit" => Tried(p, o)' /\ o \in handled'[p]
  BY HandleChanges
<1>2. held # Nothing /\ \A q, i : held = <<q, i>> <=> q = p /\ i = o
  BY InHand
<1>3. held' = Nothing => Tried(p, o)'
  <2>1. at = "commit" => Tried(p, o)
    BY DEF Seen
  <2> QED
    BY <1>1, <1>2, <2>1
<1>4. \A q, i : held' = <<q, i>> => q = p /\ i = o /\ held' = held
  BY <1>1, <1>2 DEF Nothing
<1> SUFFICES ASSUME NEW q \in Partitions
             PROVE  (/\ committed[q] > 0 => committed[q] \in handled[q]
                     /\ \A i \in AllOffsets :
                          /\ i <= committed[q] => Tried(q, i)
                          /\ at # "ended" /\ i <= position[q] /\ held # <<q, i>>
                               => Tried(q, i)
                          /\ held = <<q, i>> =>
                               /\ i <= Len(log[q])
                               /\ \A j \in AllOffsets : j < i => Tried(q, j)
                               /\ at = "commit" => Tried(q, i) /\ i \in handled[q])'
  BY DEF Seen
<1>5. \/ committed'[q] = committed[q]
      \/ at = "commit" /\ q = p /\ committed'[q] = o
  BY <1>1 DEF ConsumerTypeOK
<1>6. at = "commit" => Tried(p, o) /\ o \in handled[p]
                       /\ \A j \in AllOffsets : j <= o => Tried(p, j)
  BY <1>2 DEF Seen, AllOffsets
<1>7. committed'[q] > 0 => committed'[q] \in handled'[q]
  BY <1>1, <1>5, <1>6 DEF Seen
<1>8. ASSUME NEW i \in AllOffsets
      PROVE  /\ i <= committed'[q] => Tried(q, i)'
             /\ i <= position'[q] /\ held' # <<q, i>> => Tried(q, i)'
             /\ held' = <<q, i>> =>
                  /\ i <= Len(log'[q])
                  /\ \A j \in AllOffsets : j < i => Tried(q, j)'
                  /\ at' = "commit" => Tried(q, i)' /\ i \in handled'[q]
  <2>1. i <= committed'[q] => Tried(q, i)'
    BY <1>1, <1>5, <1>6 DEF Seen
  <2>2. i <= position'[q] /\ held' # <<q, i>> => Tried(q, i)'
    BY <1>1, <1>2, <1>3 DEF Seen
  <2>3. held' = <<q, i>> =>
          /\ i <= Len(log'[q])
          /\ \A j \in AllOffsets : j < i => Tried(q, j)'
          /\ at' = "commit" => Tried(q, i)' /\ i \in handled'[q]
    BY <1>1, <1>2, <1>4 DEF Seen
  <2> QED
    BY <2>1, <2>2, <2>3
<1> QED
  BY <1>7, <1>8 DEF Tried

LEMMA FetchKeepsSeen ==
  ASSUME ConsumerTypeOK, Seen, NEW p \in Partitions, Fetch(p),
         \A q \in Partitions : Len(log[q]) \in Nat
  PROVE  Seen'
<1>1. /\ at = "fetch" /\ at' = "handle" /\ held = Nothing
      /\ held' = <<p, position[p] + 1>>
      /\ position[p] < Len(log[p])
      /\ position' = [position EXCEPT ![p] = @ + 1]
      /\ UNCHANGED <<log, committed, attempts, handled>>
  BY DEF Fetch, ConsumerTypeOK, historyVars, topicVars
<1>2. \A q, i : held # <<q, i>>
  BY <1>1 DEF Nothing
<1>3. \A q, i : held' = <<q, i>> <=> q = p /\ i = position[p] + 1
  BY <1>1
<1>4. position \in [Partitions -> Nat]
  BY DEF ConsumerTypeOK
<1>5. \A q \in Partitions : position'[q] = IF q = p THEN position[p] + 1 ELSE position[q]
  BY <1>1, <1>4
<1>6. \A q \in Partitions, i \in AllOffsets : i <= position[q] => Tried(q, i)
  BY <1>1, <1>2 DEF Seen
<1>7. \A q \in Partitions, i \in AllOffsets :
        /\ i <= position'[q] /\ held' # <<q, i>> => Tried(q, i)
        /\ held' = <<q, i>> =>
             i <= Len(log[q]) /\ \A j \in AllOffsets : j < i => Tried(q, j)
  BY <1>1, <1>3, <1>4, <1>5, <1>6 DEF AllOffsets
<1> QED
  BY <1>1, <1>7 DEF Seen, Tried

LEMMA SeenInPipeline ==
  ASSUME BridgeInvariant, ConsumerTypeOK, StoppedWhenDown, Seen, [Next]_vars
  PROVE  Seen'
<1> USE DEF Tried
<1>0. \A q \in Partitions : Len(log[q]) \in Nat
  BY TypesOf DEF BridgeInvariant, Sequences
<1>1. CASE BridgeStep /\ UNCHANGED consumerVars
  <2>1. UNCHANGED <<committed, position, at, held, attempts, handled>>
    BY <1>1 DEF consumerVars, sessionVars, historyVars
  <2>2. \A p \in Partitions : Len(log'[p]) \in Nat /\ Len(log'[p]) >= Len(log[p])
    BY <1>1, LongerLog
  <2>3. \A p \in Partitions, o \in AllOffsets : o <= Len(log[p]) => o <= Len(log'[p])
    BY <1>0, <2>2 DEF AllOffsets
  <2> QED
    BY <2>1, <2>3 DEF Seen
<1>2. CASE LoopStep
  <2>1. CASE FetchIsCancelled
    BY <2>1 DEF FetchIsCancelled, Seen, topicVars, sessionVars, historyVars
  <2> QED
    BY <1>0, <1>2, <2>1, FetchKeepsSeen, HandleKeepsSeen DEF LoopStep
<1>3. CASE Rebalance
  BY <1>3 DEF Rebalance, Seen, topicVars, historyVars
<1>4. CASE Cancel /\ UNCHANGED <<bridgeVars, consumerVars>>
  BY <1>4 DEF Cancel, Seen, consumerVars, sessionVars, historyVars
<1>5. CASE CloseConsumer
  BY <1>5 DEF CloseConsumer, CloseReader, Seen, topicVars, sessionVars, historyVars
<1>6. CASE Exit \/ Crash
  <2>1. /\ at' = "ended" /\ \A p, o : held' # <<p, o>>
        /\ UNCHANGED <<log, committed, attempts, handled>>
    BY <1>6 DEF Exit, Crash, Gone, Nothing, sessionVars, historyVars
  <2> QED
    BY <2>1 DEF Seen
<1>7. CASE Start
  <2>1. /\ \A p, o : held' # <<p, o>>
        /\ position' = committed
        /\ UNCHANGED <<log, committed, attempts, handled>>
    BY <1>7 DEF Start, StoppedWhenDown, ConsumerTypeOK, Nothing, historyVars
  <2> QED
    BY <2>1 DEF Seen
<1>8. CASE UNCHANGED vars
  BY <1>8 DEF Seen, vars, topicVars, consumerVars, sessionVars, historyVars
<1> QED
  BY <1>1, <1>2, <1>3, <1>4, <1>5, <1>6, <1>7, <1>8 DEF Next

LEMMA SeenImpliesProperty ==
  ASSUME ConsumerTypeOK, Seen
  PROVE  NothingIsSkippedUnseen
<1> SUFFICES ASSUME NEW p \in Partitions, NEW o \in 1..committed[p]
             PROVE  attempts[p][o] # "none"
  BY DEF Seen, NothingIsSkippedUnseen
<1>1. o \in AllOffsets /\ o <= committed[p]
  BY TopicAssumption DEF ConsumerTypeOK, AllOffsets
<1> QED
  BY <1>1 DEF Seen, Tried

-----------------------------------------------------------------------------
(***************************************************************************)
(* How often a reading is stored.                                          *)
(***************************************************************************)

(* A message can be stored once more if it is in hand and not yet stored,  *)
(* and once more if it has still to be fetched.                            *)
ToStore(p, o) == IF held = <<p, o>> /\ at = "handle" THEN 1 ELSE 0

ToFetch(p, o) == IF o > position[p] THEN 1 ELSE 0

RowsBound ==
  \A p \in Partitions, o \in AllOffsets :
    rows[p][o] + ToStore(p, o) + ToFetch(p, o) <= starts

LEMMA RowsTypes ==
  ASSUME ConsumerTypeOK
  PROVE  /\ starts \in Nat /\ position \in [Partitions -> Nat]
         /\ \A p \in Partitions, o \in AllOffsets :
              rows[p][o] \in Nat /\ ToStore(p, o) \in 0..1 /\ ToFetch(p, o) \in 0..1
  BY DEF ConsumerTypeOK, ToStore, ToFetch

LEMMA HandleKeepsRowsBound ==
  ASSUME ConsumerTypeOK, RowsBound, NEW p \in Partitions, NEW o \in AllOffsets,
         held = <<p, o>>, HandleStep(p, o)
  PROVE  RowsBound'
<1>1. UNCHANGED <<position, starts>>
  BY HandleChanges
<1>2. \A q \in Partitions, i \in AllOffsets : ToFetch(q, i)' = ToFetch(q, i)
  BY <1>1 DEF ToFetch
<1>3. CASE SaveReading(p, o)
  <2>1. /\ rows' = [rows EXCEPT ![p][o] = rows[p][o] + 1]
        /\ at = "handle" /\ at' = "saved"
    BY <1>3 DEF SaveReading
  <2>2. rows \in [Partitions -> [AllOffsets -> Nat]] /\ rows[p][o] + 1 \in Nat
    BY DEF ConsumerTypeOK
  <2>3. /\ rows'[p][o] = rows[p][o] + 1
        /\ \A q \in Partitions, i \in AllOffsets :
             q # p \/ i # o => rows'[q][i] = rows[q][i]
    BY <2>1, <2>2, UpdateTwice
  <2>4. /\ ToStore(p, o) = 1
        /\ \A q \in Partitions, i \in AllOffsets : ToStore(q, i)' = 0
    BY <2>1 DEF ToStore
  <2>5. ASSUME NEW q \in Partitions, NEW i \in AllOffsets
        PROVE  rows'[q][i] + ToStore(q, i)' <= rows[q][i] + ToStore(q, i)
    <3>1. CASE q = p /\ i = o
      BY <2>2, <2>3, <2>4, <3>1
    <3>2. CASE q # p \/ i # o
      BY <2>3, <2>4, <3>2, RowsTypes
    <3> QED
      BY <3>1, <3>2
  <2>6. \A q \in Partitions, i \in AllOffsets :
          rows'[q][i] \in Nat /\ ToStore(q, i)' \in 0..1
    BY <2>2, <2>3, <2>4, RowsTypes
  <2> QED
    BY <1>1, <1>2, <2>5, <2>6, RowsTypes DEF RowsBound
<1>4. CASE ~SaveReading(p, o)
  <2>1. rows' = rows /\ at' # "handle"
    BY <1>4 DEF HandleStep, Malformed, Refuse, ApplyToAlerts, Finish,
                ProcessFails, Commit, CommitFails, Attempted, historyVars
  <2>2. \A q \in Partitions, i \in AllOffsets : ToStore(q, i)' = 0
    BY <2>1 DEF ToStore
  <2> QED
    BY <1>1, <1>2, <2>1, <2>2, RowsTypes DEF RowsBound
<1> QED
  BY <1>3, <1>4

LEMMA RowsInPipeline ==
  ASSUME ConsumerTypeOK, StoppedWhenDown, RowsBound, [Next]_vars
  PROVE  RowsBound'
<1>1. ASSUME UNCHANGED <<rows, starts, position>>,
             at' # "handle" \/ UNCHANGED <<at, held>>
      PROVE  RowsBound'
  <2>1. \A q \in Partitions, i \in AllOffsets :
          /\ ToStore(q, i)' <= ToStore(q, i)
          /\ ToStore(q, i)' \in 0..1
          /\ ToFetch(q, i)' = ToFetch(q, i)
    BY <1>1 DEF ToStore, ToFetch
  <2> QED
    BY <1>1, <2>1, RowsTypes DEF RowsBound
<1>2. ASSUME UNCHANGED rows, starts' = starts + 1,
             at' # "handle" \/ UNCHANGED <<at, held>>
      PROVE  RowsBound'
  <2>1. \A q \in Partitions, i \in AllOffsets :
          /\ ToStore(q, i)' <= ToStore(q, i)
          /\ ToStore(q, i)' \in 0..1
          /\ ToFetch(q, i)' \in 0..1
    BY <1>2 DEF ToStore, ToFetch
  <2> QED
    BY <1>2, <2>1, RowsTypes DEF RowsBound
<1>3. CASE UNCHANGED consumerVars
  BY <1>1, <1>3 DEF consumerVars, sessionVars, historyVars
<1>4. CASE LoopStep
  <2>1. CASE \E p \in Partitions : Fetch(p)
    <3>1. PICK p \in Partitions : Fetch(p)
      BY <2>1
    <3>2. /\ held' = <<p, position[p] + 1>> /\ at' = "handle" /\ at = "fetch"
          /\ position' = [position EXCEPT ![p] = @ + 1]
          /\ UNCHANGED <<rows, starts>>
      BY <3>1 DEF Fetch, historyVars
    <3>3. position \in [Partitions -> Nat]
      BY DEF ConsumerTypeOK
    <3>4. ASSUME NEW q \in Partitions, NEW i \in AllOffsets
          PROVE  ToStore(q, i)' + ToFetch(q, i)' <= ToStore(q, i) + ToFetch(q, i)
      <4>1. i \in Nat
        BY DEF AllOffsets
      <4>2. CASE q = p /\ i = position[p] + 1
        BY <3>2, <3>3, <4>1, <4>2 DEF ToStore, ToFetch
      <4>3. CASE q # p \/ i # position[p] + 1
        <5>1. ToStore(q, i)' = 0 /\ ToStore(q, i) = 0
          BY <3>2, <4>3 DEF ToStore
        <5>2. ToFetch(q, i)' <= ToFetch(q, i)
          BY <3>2, <3>3, <4>1, <4>3 DEF ToFetch
        <5> QED
          BY <5>1, <5>2, <3>2 DEF ToFetch
      <4> QED
        BY <4>2, <4>3
    <3>5. \A q \in Partitions, i \in AllOffsets :
            ToStore(q, i)' \in 0..1 /\ ToFetch(q, i)' \in 0..1
      BY DEF ToStore, ToFetch
    <3> QED
      BY <3>2, <3>4, <3>5, RowsTypes DEF RowsBound
  <2>2. CASE FetchIsCancelled
    BY <1>1, <2>2 DEF FetchIsCancelled, sessionVars, historyVars
  <2> QED
    BY <1>4, <2>1, <2>2, HandleKeepsRowsBound DEF LoopStep
<1>5. CASE Rebalance
  BY <1>2, <1>5 DEF Rebalance, historyVars
<1>6. CASE CloseConsumer
  BY <1>1, <1>6 DEF CloseConsumer, CloseReader, sessionVars, historyVars
<1>7. CASE Exit \/ Crash
  BY <1>1, <1>7 DEF Exit, Crash, Gone, sessionVars, historyVars
<1>8. CASE Start
  BY <1>2, <1>8 DEF Start, historyVars
<1> QED
  BY <1>3, <1>4, <1>5, <1>6, <1>7, <1>8 DEF Next, vars

LEMMA BoundImpliesProperty ==
  ASSUME ConsumerTypeOK, RowsBound
  PROVE  RowsPerStart
  BY RowsTypes DEF RowsBound, RowsPerStart

-----------------------------------------------------------------------------
(***************************************************************************)
(* Which reading the alerts show.                                          *)
(***************************************************************************)

(* Without a rebalance the message in hand is the last one fetched.  Those *)
(* done before it, and those before the committed offset, are not newer    *)
(* than the reading the alerts show: the fetches after a restart go over   *)
(* all that are newer than the committed one again.                        *)
NewestAt(p) ==
  /\ judged[p] <= Len(log[p])
  /\ at # "ended" => committed[p] <= position[p]
  /\ \A o \in AllOffsets :
       /\ held = <<p, o>> => o = position[p]
       /\ held = <<p, o>> /\ at = "alerts" => judged[p] = o
       /\ attempts[p][o] = "done" =>
            /\ o <= committed[p] => o <= judged[p]
            /\ at # "ended" /\ o <= position[p] /\ held # <<p, o>> => o <= judged[p]
            /\ held = <<p, o>> /\ at = "commit" => o <= judged[p]

Newest == rebalances = 0 => \A p \in Partitions : NewestAt(p)

LEMMA OffsetTypes ==
  ASSUME ConsumerTypeOK
  PROVE  /\ \A o \in AllOffsets : o \in Nat /\ o # 0
         /\ \A p \in Partitions :
              committed[p] \in Nat /\ position[p] \in Nat /\ judged[p] \in Nat
  BY TopicAssumption DEF ConsumerTypeOK, AllOffsets

LEMMA HandleKeepsNewest ==
  ASSUME ConsumerTypeOK, Seen, \A q \in Partitions : NewestAt(q),
         NEW p \in Partitions, NEW o \in AllOffsets,
         held = <<p, o>>, HandleStep(p, o)
  PROVE  \A q \in Partitions : NewestAt(q)'
<1>1. UNCHANGED <<log, position>> /\ at # "ended"
  BY HandleChanges
<1>2. held # Nothing /\ \A q, i : held = <<q, i>> <=> q = p /\ i = o
  BY InHand
<1>3. \A q, i : Nothing # <<q, i>>
  BY DEF Nothing
<1>4. o = position[p] /\ committed[p] <= position[p]
  BY <1>1 DEF NewestAt
<1>5. /\ attempts \in [Partitions -> [AllOffsets -> Outcomes]]
      /\ committed \in [Partitions -> 0..MaxMessages]
      /\ judged \in [Partitions -> 0..MaxMessages]
  BY DEF ConsumerTypeOK
<1> SUFFICES ASSUME NEW q \in Partitions
             PROVE  NewestAt(q)'
  OBVIOUS
<1>6. CASE Malformed(p, o) \/ Refuse(p, o) \/ ProcessFails(p, o)
  <2>1. /\ \E outcome \in Outcomes \ {"none", "done"}, next \in {"commit", "fetch"} :
             Attempted(p, o, outcome, next)
        /\ UNCHANGED <<committed, judged>>
    BY <1>6 DEF Malformed, Refuse, ProcessFails, Outcomes, Conclusive, sessionVars
  <2>2. PICK outcome \in Outcomes \ {"none", "done"}, next \in {"commit", "fetch"} :
             Attempted(p, o, outcome, next)
    BY <2>1
  <2>3. /\ attempts'[p][o] # "done"
        /\ \A r \in Partitions, i \in AllOffsets :
             r # p \/ i # o => attempts'[r][i] = attempts[r][i]
    BY <2>2, AttemptedChanges
  <2>4. at' \in {"commit", "fetch"} /\ (held' = held \/ held' = Nothing)
    BY <2>2 DEF Attempted
  <2> QED
    BY <1>1, <1>2, <1>3, <2>1, <2>3, <2>4 DEF NewestAt
<1>7. CASE Finish(p, o)
  <2>1. /\ at = "alerts" /\ Attempted(p, o, "done", "commit")
        /\ UNCHANGED <<committed, judged>>
    BY <1>7 DEF Finish, sessionVars
  <2>2. "done" \in Outcomes \ {"none"}
    BY DEF Outcomes, Conclusive
  <2>3. \A r \in Partitions, i \in AllOffsets :
          r # p \/ i # o => attempts'[r][i] = attempts[r][i]
    BY <2>1, <2>2, AttemptedChanges
  <2>4. at' = "commit" /\ held' = held
    BY <2>1 DEF Attempted
  <2>5. judged[p] = o
    BY <2>1 DEF NewestAt
  <2> QED
    BY <1>1, <1>2, <2>1, <2>3, <2>4, <2>5, OffsetTypes DEF NewestAt
<1>8. CASE SaveReading(p, o)
  BY <1>1, <1>2, <1>8 DEF SaveReading, sessionVars, NewestAt
<1>9. CASE ApplyToAlerts(p, o)
  <2>1. /\ judged' = [judged EXCEPT ![p] = o] /\ at' = "alerts"
        /\ UNCHANGED <<committed, held, attempts>>
    BY <1>9 DEF ApplyToAlerts, sessionVars
  <2>2. judged'[q] = IF q = p THEN o ELSE judged[q]
    BY <1>5, <2>1
  <2>3. o <= Len(log[p])
    BY DEF Seen
  <2>4. CASE q = p
    BY <1>1, <1>2, <1>4, <2>1, <2>2, <2>3, <2>4, OffsetTypes DEF NewestAt
  <2>5. CASE q # p
    BY <1>1, <1>2, <2>1, <2>2, <2>5 DEF NewestAt
  <2> QED
    BY <2>4, <2>5
<1>10. CASE Commit(p, o) \/ CommitFails(p, o)
  <2>1. /\ at = "commit" /\ at' = "fetch" /\ held' = Nothing
        /\ committed' = committed \/ committed' = [committed EXCEPT ![p] = o]
        /\ UNCHANGED <<attempts, judged>>
    BY <1>10 DEF Commit, CommitFails, sessionVars, historyVars
  <2>2. committed'[q] = committed[q] \/ (q = p /\ committed'[q] = o)
    BY <1>5, <2>1
  <2>3. committed'[q] <= position[q]
    BY <1>1, <1>4, <2>2, OffsetTypes DEF NewestAt
  <2>4. \A i \in AllOffsets : attempts[q][i] = "done" /\ i <= position[q] => i <= judged[q]
    BY <1>1, <1>2, <2>1 DEF NewestAt
  <2>5. \A i \in AllOffsets : i <= committed'[q] => i <= position[q]
    BY <1>1, <1>4, <2>2, OffsetTypes DEF NewestAt
  <2> QED
    BY <1>1, <1>2, <1>3, <2>1, <2>3, <2>4, <2>5 DEF NewestAt
<1> QED
  BY <1>6, <1>7, <1>8, <1>9, <1>10 DEF HandleStep

LEMMA FetchKeepsNewest ==
  ASSUME ConsumerTypeOK, \A q \in Partitions : NewestAt(q),
         NEW p \in Partitions, Fetch(p)
  PROVE  \A q \in Partitions : NewestAt(q)'
<1>1. /\ at = "fetch" /\ at' = "handle" /\ held = Nothing
      /\ held' = <<p, position[p] + 1>>
      /\ position' = [position EXCEPT ![p] = @ + 1]
      /\ UNCHANGED <<log, committed, attempts, judged>>
  BY DEF Fetch, ConsumerTypeOK, historyVars, topicVars
<1>2. \A q, i : /\ held # <<q, i>>
                /\ held' = <<q, i>> <=> (q = p /\ i = position[p] + 1)
  BY <1>1 DEF Nothing
<1>3. \A q \in Partitions : position'[q] = IF q = p THEN position[p] + 1 ELSE position[q]
  BY <1>1 DEF ConsumerTypeOK
<1> SUFFICES ASSUME NEW q \in Partitions
             PROVE  NewestAt(q)'
  OBVIOUS
<1>4. /\ judged[q] <= Len(log[q]) /\ committed[q] <= position[q]
      /\ \A o \in AllOffsets :
           attempts[q][o] = "done" =>
             /\ o <= committed[q] => o <= judged[q]
             /\ o <= position[q] => o <= judged[q]
  BY <1>1, <1>2 DEF NewestAt
<1>5. committed[q] <= position'[q]
  BY <1>3, <1>4, OffsetTypes
<1>6. \A o \in AllOffsets : o <= position'[q] /\ held' # <<q, o>> => o <= position[q]
  BY <1>2, <1>3, OffsetTypes
<1>7. \A o \in AllOffsets : held' = <<q, o>> => o = position'[q]
  BY <1>2, <1>3
<1> QED
  BY <1>1, <1>4, <1>5, <1>6, <1>7 DEF NewestAt

LEMMA NewestInPipeline ==
  ASSUME BridgeInvariant, ConsumerTypeOK, StoppedWhenDown, Seen, Newest,
         [Next]_vars
  PROVE  Newest'
<1> SUFFICES ASSUME rebalances' = 0
             PROVE  \A p \in Partitions : NewestAt(p)'
  BY DEF Newest
<1>1. CASE ~Rebalance
  <2>1. rebalances = 0
    <3>1. rebalances' = rebalances
      BY <1>1 DEF Next, vars, consumerVars, sessionVars, LoopStep, Fetch,
         FetchIsCancelled, HandleStep, Malformed, Refuse, SaveReading,
         ApplyToAlerts, Finish, ProcessFails, Commit, CommitFails,
         CloseConsumer, CloseReader, Exit, Crash, Gone, Start
    <3> QED
      BY <3>1
  <2>2. \A p \in Partitions : NewestAt(p)
    BY <2>1 DEF Newest
  <2>3. CASE BridgeStep /\ UNCHANGED consumerVars
    <3>1. UNCHANGED <<committed, position, at, held, attempts, judged>>
      BY <2>3 DEF consumerVars, sessionVars, historyVars
    <3>2. \A p \in Partitions : /\ Len(log'[p]) \in Nat /\ Len(log[p]) \in Nat
                                /\ Len(log'[p]) >= Len(log[p])
      BY <2>3, LongerLog
    <3>3. \A p \in Partitions : judged[p] <= Len(log'[p])
      BY <2>2, <3>2, OffsetTypes DEF NewestAt
    <3> QED
      BY <2>2, <3>1, <3>3 DEF NewestAt
  <2>4. CASE LoopStep
    <3>1. CASE FetchIsCancelled
      BY <2>2, <3>1 DEF FetchIsCancelled, NewestAt, topicVars, sessionVars, historyVars
    <3> QED
      BY <2>2, <2>4, <3>1, FetchKeepsNewest, HandleKeepsNewest DEF LoopStep
  <2>5. CASE Cancel /\ UNCHANGED <<bridgeVars, consumerVars>>
    BY <2>2, <2>5 DEF Cancel, NewestAt, consumerVars, sessionVars, historyVars
  <2>6. CASE CloseConsumer
    BY <2>2, <2>6 DEF CloseConsumer, CloseReader, NewestAt, topicVars, sessionVars,
                      historyVars
  <2>7. CASE Exit \/ Crash
    <3>1. /\ at' = "ended" /\ \A p, o : held' # <<p, o>>
          /\ UNCHANGED <<log, committed, attempts, judged>>
      BY <2>7 DEF Exit, Crash, Gone, Nothing, sessionVars, historyVars
    <3> QED
      BY <2>2, <3>1 DEF NewestAt
  <2>8. CASE Start
    <3>1. /\ \A p, o : held' # <<p, o>>
          /\ position' = committed
          /\ UNCHANGED <<log, committed, attempts, judged>>
      BY <2>8 DEF Start, StoppedWhenDown, ConsumerTypeOK, Nothing, historyVars
    <3> QED
      BY <2>2, <3>1, OffsetTypes DEF NewestAt
  <2>9. CASE UNCHANGED vars
    BY <2>2, <2>9 DEF NewestAt, vars, topicVars, consumerVars, sessionVars, historyVars
  <2> QED
    BY <1>1, <2>3, <2>4, <2>5, <2>6, <2>7, <2>8, <2>9 DEF Next
<1>2. CASE Rebalance
  <2>1. rebalances' = rebalances + 1 /\ rebalances \in Nat
    BY <1>2, ConsumerAssumption DEF Rebalance, ConsumerTypeOK
  <2> QED
    BY <2>1
<1> QED
  BY <1>1, <1>2

(* A reading that was handled once was a message of the log; its last      *)
(* attempt was the one that ended well, or a later one that failed.        *)
HandledReadings ==
  \A p \in Partitions, o \in AllOffsets : o \in handled[p] =>
    /\ o <= Len(log[p])
    /\ Payload(p, o) = "reading" => attempts[p][o] \in {"done", "failed"}

(* Until the reader starts again, nothing is delivered a second time.      *)
DeliveredOnce(p, o) ==
  /\ held = <<p, o>> => o <= position[p]
  /\ o \in handled[p] =>
       /\ attempts[p][o] # "failed"
       /\ o <= position[p]
       /\ held = <<p, o>> => at = "commit"

FirstStart ==
  /\ starts > 0
  /\ starts = 1 => \A p \in Partitions, o \in AllOffsets : DeliveredOnce(p, o)

(* What an attempt with a message in hand does to the histories.           *)
LEMMA HandleOutcomes ==
  ASSUME ConsumerTypeOK, NEW p \in Partitions, NEW o \in AllOffsets,
         held = <<p, o>>, HandleStep(p, o)
  PROVE  \/ /\ UNCHANGED <<attempts, handled>>
            /\ at' \in {"saved", "alerts"} /\ at # "commit"
         \/ /\ UNCHANGED <<attempts, handled>>
            /\ at = "commit" /\ held' = Nothing
         \/ \E outcome \in Outcomes \ {"none"}, next \in {"commit", "fetch"} :
              /\ Attempted(p, o, outcome, next)
              /\ Payload(p, o) = "reading" => outcome \in {"done", "failed"}
              /\ outcome = "failed" <=> next = "fetch"
              /\ at # "commit"
<1>1. CASE Malformed(p, o) \/ Refuse(p, o)
  BY <1>1 DEF Malformed, Refuse, Outcomes, Conclusive
<1>2. CASE Finish(p, o)
  BY <1>2 DEF Finish, Outcomes, Conclusive
<1>3. CASE ProcessFails(p, o)
  BY <1>3 DEF ProcessFails, Outcomes, Conclusive
<1>4. CASE SaveReading(p, o) \/ ApplyToAlerts(p, o)
  BY <1>4 DEF SaveReading, ApplyToAlerts
<1>5. CASE Commit(p, o) \/ CommitFails(p, o)
  BY <1>5 DEF Commit, CommitFails, historyVars
<1> QED
  BY <1>1, <1>2, <1>3, <1>4, <1>5 DEF HandleStep

LEMMA HandleKeepsHandled ==
  ASSUME ConsumerTypeOK, Seen, HandledReadings, FirstStart,
         NEW p \in Partitions, NEW o \in AllOffsets,
         held = <<p, o>>, HandleStep(p, o)
  PROVE  HandledReadings' /\ FirstStart'
<1>1. UNCHANGED <<log, position, starts>> /\ o <= Len(log[p])
  BY HandleChanges DEF Seen
<1>2. \A q, i : held = <<q, i>> <=> q = p /\ i = o
  BY InHand
<1>3. \A q, i : Nothing # <<q, i>>
  BY DEF Nothing
<1>4. CASE UNCHANGED <<attempts, handled>> /\ at' \in {"saved", "alerts"} /\ at # "commit"
  <2>1. held' = held
    BY <1>4, HandleOutcomes DEF HandleStep, Malformed, Refuse, Finish, ProcessFails,
       SaveReading, ApplyToAlerts, Commit, CommitFails, Attempted
  <2> QED
    BY <1>1, <1>2, <1>4, <2>1 DEF HandledReadings, FirstStart, DeliveredOnce, Payload
<1>5. CASE UNCHANGED <<attempts, handled>> /\ at = "commit" /\ held' = Nothing
  BY <1>1, <1>3, <1>5 DEF HandledReadings, FirstStart, DeliveredOnce, Payload
<1>6. ASSUME NEW outcome \in Outcomes \ {"none"}, NEW next \in {"commit", "fetch"},
             Attempted(p, o, outcome, next),
             Payload(p, o) = "reading" => outcome \in {"done", "failed"},
             outcome = "failed" <=> next = "fetch", at # "commit"
      PROVE  HandledReadings' /\ FirstStart'
  <2>1. /\ attempts'[p][o] = outcome
        /\ \A q \in Partitions, i \in AllOffsets :
             q # p \/ i # o => attempts'[q][i] = attempts[q][i]
        /\ handled' = IF outcome \in Conclusive
                      THEN [handled EXCEPT ![p] = @ \cup {o}] ELSE handled
    BY <1>6, AttemptedChanges
  <2>2. \A q \in Partitions, i \in AllOffsets :
          i \in handled'[q] => i \in handled[q] \/ (q = p /\ i = o /\ outcome \in Conclusive)
    BY <2>1 DEF ConsumerTypeOK
  <2>3. /\ at' = next
        /\ next = "commit" => held' = held
        /\ next = "fetch" => held' = Nothing
    BY <1>6 DEF Attempted
  <2>4. HandledReadings'
    BY <1>1, <1>6, <2>1, <2>2 DEF HandledReadings, Payload
  <2>5. ASSUME starts = 1, NEW q \in Partitions, NEW i \in AllOffsets
        PROVE  DeliveredOnce(q, i)'
    <3>1. DeliveredOnce(q, i) /\ DeliveredOnce(p, o)
      BY <2>5 DEF FirstStart
    <3>2. o \notin handled[p] /\ o <= position[p]
      BY <1>6, <3>1 DEF DeliveredOnce
    <3>3. held' = <<q, i>> => held = <<q, i>> /\ at' = "commit"
      BY <1>3, <2>3
    <3>4. i \in handled'[q] => attempts'[q][i] # "failed" /\ i <= position[q]
      BY <2>1, <2>2, <3>1, <3>2 DEF DeliveredOnce, Conclusive
    <3> QED
      BY <1>1, <3>1, <3>3, <3>4 DEF DeliveredOnce
  <2> QED
    BY <1>1, <2>4, <2>5 DEF FirstStart
<1> QED
  BY <1>4, <1>5, <1>6, HandleOutcomes

LEMMA HandledInPipeline ==
  ASSUME BridgeInvariant, ConsumerTypeOK, StoppedWhenDown, Seen,
         HandledReadings, FirstStart, [Next]_vars
  PROVE  HandledReadings' /\ FirstStart'
<1>1. CASE BridgeStep /\ UNCHANGED consumerVars
  <2>1. UNCHANGED <<position, at, held, attempts, handled, starts>>
    BY <1>1 DEF consumerVars, sessionVars, historyVars
  <2>2. ASSUME NEW p \in Partitions, NEW o \in AllOffsets, o <= Len(log[p])
        PROVE  o <= Len(log'[p]) /\ Payload(p, o)' = Payload(p, o)
    <3>1. /\ Len(log[p]) \in Nat /\ Len(log'[p]) \in Nat
          /\ Len(log'[p]) >= Len(log[p])
          /\ \A i \in Offsets(p) : log'[p][i] = log[p][i]
      BY <1>1, LongerLog
    <3>2. o \in Offsets(p)
      BY <2>2, <3>1, OffsetTypes DEF Offsets
    <3> QED
      BY <2>2, <3>1, <3>2, OffsetTypes DEF Payload
  <2>3. HandledReadings'
    BY <2>1, <2>2 DEF HandledReadings
  <2> QED
    BY <2>1, <2>3 DEF FirstStart, DeliveredOnce
<1>2. CASE LoopStep
  <2>1. CASE FetchIsCancelled
    BY <2>1 DEF FetchIsCancelled, HandledReadings, FirstStart, DeliveredOnce, Payload,
                topicVars, sessionVars, historyVars
  <2>2. CASE \E p \in Partitions : Fetch(p)
    <3>1. PICK p \in Partitions : Fetch(p)
      BY <2>2
    <3>2. /\ held' = <<p, position[p] + 1>>
          /\ position' = [position EXCEPT ![p] = @ + 1]
          /\ UNCHANGED <<log, attempts, handled, starts>>
      BY <3>1 DEF Fetch, historyVars, topicVars
    <3>3. \A q \in Partitions : /\ position[q] \in Nat
                                /\ position'[q] = IF q = p THEN position[p] + 1
                                                           ELSE position[q]
      BY <3>2 DEF ConsumerTypeOK
    <3>4. \A q, i : held' = <<q, i>> => q = p /\ i = position[p] + 1
      BY <3>2
    <3>5. ASSUME starts = 1, NEW q \in Partitions, NEW i \in AllOffsets
          PROVE  DeliveredOnce(q, i)'
      <4>1. DeliveredOnce(q, i) /\ i \in Nat
        BY <3>5, OffsetTypes DEF FirstStart
      <4>2. CASE held' = <<q, i>>
        <5>1. q = p /\ i = position[p] + 1
          BY <3>4, <4>2
        <5>2. i \notin handled[q]
          BY <3>3, <4>1, <5>1 DEF DeliveredOnce
        <5> QED
          BY <3>2, <3>3, <5>1, <5>2 DEF DeliveredOnce
      <4>3. CASE held' # <<q, i>>
        BY <3>2, <3>3, <4>1, <4>3 DEF DeliveredOnce
      <4> QED
        BY <4>2, <4>3
    <3>6. HandledReadings'
      BY <3>2 DEF HandledReadings, Payload
    <3> QED
      BY <3>2, <3>5, <3>6 DEF FirstStart
  <2> QED
    BY <1>2, <2>1, <2>2, HandleKeepsHandled DEF LoopStep
<1>3. CASE Rebalance \/ Start
  <2>1. starts' = starts + 1 /\ UNCHANGED <<log, attempts, handled>>
    BY <1>3 DEF Rebalance, Start, topicVars, historyVars
  <2>2. starts \in Nat
    BY DEF ConsumerTypeOK
  <2> QED
    BY <2>1, <2>2 DEF HandledReadings, FirstStart, Payload
<1>4. CASE Cancel /\ UNCHANGED <<bridgeVars, consumerVars>>
  BY <1>4 DEF Cancel, HandledReadings, FirstStart, DeliveredOnce, Payload,
              consumerVars, sessionVars, historyVars
<1>5. CASE CloseConsumer
  BY <1>5 DEF CloseConsumer, CloseReader, HandledReadings, FirstStart, DeliveredOnce,
              Payload, topicVars, sessionVars, historyVars
<1>6. CASE Exit \/ Crash
  <2>1. /\ \A p, o : held' # <<p, o>>
        /\ UNCHANGED <<log, position, starts, attempts, handled>>
    BY <1>6 DEF Exit, Crash, Gone, Nothing, sessionVars, historyVars
  <2> QED
    BY <2>1 DEF HandledReadings, FirstStart, DeliveredOnce, Payload
<1>7. CASE UNCHANGED vars
  BY <1>7 DEF HandledReadings, FirstStart, DeliveredOnce, Payload, vars, topicVars,
              consumerVars, sessionVars, historyVars
<1> QED
  BY <1>1, <1>2, <1>3, <1>4, <1>5, <1>6, <1>7 DEF Next

(* The alerts show o or a newer reading: positions in a log are in the     *)
(* order of the numbers.                                                   *)
LEMMA NewerInLog ==
  ASSUME BridgeInvariant, ConsumerTypeOK, NEW p \in Partitions,
         NEW o \in AllOffsets, o <= judged[p], judged[p] <= Len(log[p])
  PROVE  judged[p] > 0 /\ log[p][judged[p]].number >= log[p][o].number
<1>1. /\ log[p] \in Seq(Message) /\ Len(log[p]) \in Nat
      /\ Increasing(log[p])
  BY TypesOf DEF BridgeInvariant, InOrder, Sequences
<1>3. /\ judged[p] \in 1..Len(log[p]) /\ o \in 1..Len(log[p])
      /\ judged[p] > 0
  BY <1>1, OffsetTypes
<1>4. log[p][judged[p]].number \in Nat /\ log[p][o].number \in Nat
  BY <1>1, <1>3, MessageNumber
<1>5. CASE o = judged[p]
  BY <1>3, <1>4, <1>5
<1>6. CASE o < judged[p]
  BY <1>1, <1>3, <1>4, <1>6 DEF Increasing
<1> QED
  BY <1>3, <1>5, <1>6

LEMMA NewestImpliesProperty ==
  ASSUME BridgeInvariant, ConsumerTypeOK, Newest, HandledReadings, FirstStart
  PROVE  NewestReadingStands
<1> SUFFICES ASSUME rebalances = 0, NEW p \in Partitions, NEW o \in AllOffsets,
                    Processed(p, o), ~Outstanding(p, o), ~FailedAgain(p, o)
             PROVE  judged[p] > 0 /\ log[p][judged[p]].number >= log[p][o].number
  BY DEF NewestReadingStands
<1>1. attempts[p][o] \in {"done", "failed"}
  BY DEF Processed, HandledReadings
<1>2. attempts[p][o] = "done"
  <2>1. CASE starts = 1
    BY <1>1, <2>1 DEF FirstStart, DeliveredOnce, Processed
  <2>2. CASE starts > 1
    BY <1>1, <2>2 DEF FailedAgain
  <2>3. starts = 1 \/ starts > 1
    BY DEF FirstStart, ConsumerTypeOK
  <2> QED
    BY <2>1, <2>2, <2>3
<1>3. NewestAt(p)
  BY DEF Newest
<1>4. o <= judged[p]
  <2>1. CASE at = "ended"
    BY <1>2, <1>3, <2>1, OffsetTypes DEF NewestAt, Outstanding
  <2>2. CASE at # "ended"
    BY <1>2, <1>3, <2>2, OffsetTypes DEF NewestAt, Outstanding
  <2> QED
    BY <2>1, <2>2
<1>5. judged[p] <= Len(log[p])
  BY <1>3 DEF NewestAt
<1> QED
  BY <1>4, <1>5, NewerInLog

-----------------------------------------------------------------------------
(***************************************************************************)
(* The inductive invariant of the pipeline.                                *)
(***************************************************************************)
PipelineInvariant ==
  /\ BridgeInvariant
  /\ ConsumerTypeOK
  /\ StoppedWhenDown
  /\ Seen
  /\ RowsBound
  /\ Newest
  /\ HandledReadings
  /\ FirstStart

LEMMA InitInvariant == Init => PipelineInvariant
<1> SUFFICES ASSUME Init
             PROVE  PipelineInvariant
  OBVIOUS
<1>1. BridgeInvariant
  BY InitBridgeInvariant DEF Init
<1>2. /\ server = "running" /\ log = [p \in Partitions |-> << >>]
      /\ at = "fetch" /\ held = Nothing /\ reader = "open"
      /\ committed = [p \in Partitions |-> 0] /\ position = committed
      /\ rebalances = 0 /\ starts = 1
      /\ attempts = [p \in Partitions |-> [o \in AllOffsets |-> "none"]]
      /\ handled = [p \in Partitions |-> {}]
      /\ rows = [p \in Partitions |-> [o \in AllOffsets |-> 0]]
      /\ judged = [p \in Partitions |-> 0]
  BY DEF Init, BridgeInit, TopicInit, ConsumerInit, ConsumerStarted
<1>3. \A p \in Partitions :
        /\ committed[p] = 0 /\ position[p] = 0 /\ judged[p] = 0
        /\ log[p] = << >> /\ Len(log[p]) = 0
        /\ \A o \in AllOffsets : attempts[p][o] = "none" /\ rows[p][o] = 0
  BY <1>2
<1>4. \A p, o : held # <<p, o>>
  BY <1>2 DEF Nothing
<1>5. \A p \in Partitions :
         /\ ~(committed[p] > 0)
         /\ judged[p] <= Len(log[p])
         /\ committed[p] <= position[p]
  <2> SUFFICES ASSUME NEW p \in Partitions
               PROVE  /\ ~(committed[p] > 0)
                      /\ judged[p] <= Len(log[p])
                      /\ committed[p] <= position[p]
    OBVIOUS
  <2>1. committed[p] = 0 /\ position[p] = 0 /\ judged[p] = 0 /\ Len(log[p]) = 0
    BY <1>3
  <2> QED
    BY <2>1
<1>6. ConsumerTypeOK
  BY <1>2, TopicAssumption, ConsumerAssumption DEF ConsumerTypeOK, Outcomes
<1>7. \A o \in AllOffsets : o \in Nat /\ o > 0
  BY TopicAssumption DEF AllOffsets
<1>8. Seen
  <2>1. \A p \in Partitions, o \in AllOffsets :
          ~(o <= committed[p]) /\ ~(o <= position[p]) /\ held # <<p, o>>
    BY <1>3, <1>7, <1>4
  <2> QED
    BY <1>5, <2>1 DEF Seen
<1>9. RowsBound
  BY <1>2, <1>3, <1>7, <1>4 DEF RowsBound, ToStore, ToFetch
<1>10. Newest
  <2>1. \A p \in Partitions, o \in AllOffsets :
          attempts[p][o] # "done" /\ held # <<p, o>>
    BY <1>3, <1>4
  <2> QED
    BY <1>5, <2>1 DEF Newest, NewestAt
<1>11. HandledReadings /\ FirstStart
  <2>1. \A p \in Partitions, o \in AllOffsets : o \notin handled[p] /\ held # <<p, o>>
    BY <1>2, <1>4
  <2> QED
    BY <1>2, <2>1 DEF HandledReadings, FirstStart, DeliveredOnce
<1> QED
  BY <1>1, <1>2, <1>6, <1>8, <1>9, <1>10, <1>11 DEF PipelineInvariant, StoppedWhenDown

LEMMA InvariantHolds == Spec => []PipelineInvariant
<1>1. PipelineInvariant /\ [Next]_vars => PipelineInvariant'
  BY BridgeInPipeline, TypesInPipeline, SeenInPipeline, RowsInPipeline,
     NewestInPipeline, HandledInPipeline DEF PipelineInvariant
<1> QED
  BY <1>1, InitInvariant, PTL DEF Spec

(* The variables of the bridge and of the consumer have their types: the   *)
(* consumer has a message in hand exactly while it handles or commits one. *)
THEOREM PipelineTypesCorrect == Spec => []TypeOK
<1>1. PipelineInvariant => TypeOK
  BY DEF PipelineInvariant, BridgeInvariant, TypeOK
<1> QED
  BY <1>1, InvariantHolds, PTL

(* Whatever fails and whenever the server stops: a commit never covers a   *)
(* message that was not tried, and never rests on one that failed.         *)
THEOREM NoneSkipped == Spec => []NothingIsSkippedUnseen
<1>1. PipelineInvariant => NothingIsSkippedUnseen
  BY SeenImpliesProperty DEF PipelineInvariant
<1> QED
  BY <1>1, InvariantHolds, PTL

(* A reading is not stored more often than readers and generations of the  *)
(* consumer group have started at the committed offset.                    *)
THEOREM RowsAreBounded == Spec => []RowsPerStart
<1>1. PipelineInvariant => RowsPerStart
  BY BoundImpliesProperty DEF PipelineInvariant
<1> QED
  BY <1>1, InvariantHolds, PTL

(* The alerts are never older than a reading that Process has dealt with,  *)
(* except while a new start has yet to deliver that reading again, or when *)
(* it did and Process failed on it then.  Whatever fails, for any number   *)
(* of starts, but without rebalances.                                      *)
THEOREM NewestStands == Spec => []NewestReadingStands
<1>1. PipelineInvariant => NewestReadingStands
  BY NewestImpliesProperty DEF PipelineInvariant
<1> QED
  BY <1>1, InvariantHolds, PTL

-----------------------------------------------------------------------------
(***************************************************************************)
(* The pipeline implements Delivery.                                       *)
(***************************************************************************)
length == [p \in Partitions |-> Len(log[p])]

tried == [p \in Partitions |-> {o \in AllOffsets : Tried(p, o)}]

(* An attempt of the consumer is one of Delivery. *)
LEMMA AttemptIsTry ==
  ASSUME PipelineInvariant, NEW p \in Partitions, NEW o \in AllOffsets,
         held = <<p, o>>, NEW outcome \in Outcomes \ {"none"}, NEW next,
         Attempted(p, o, outcome, next), UNCHANGED <<log, committed>>
  PROVE  D!Next
<1>1. /\ attempts'[p][o] = outcome
      /\ \A q \in Partitions, i \in AllOffsets :
           q # p \/ i # o => attempts'[q][i] = attempts[q][i]
      /\ handled' = IF outcome \in Conclusive
                    THEN [handled EXCEPT ![p] = @ \cup {o}] ELSE handled
  BY AttemptedChanges DEF PipelineInvariant
<1>2. tried' = [tried EXCEPT ![p] = @ \cup {o}]
  <2>1. \A q \in Partitions : tried'[q] = IF q = p THEN tried[p] \cup {o} ELSE tried[q]
    BY <1>1 DEF tried, Tried
  <2> QED
    BY <2>1 DEF tried
<1>3. /\ o \in 1..Len(log[p])
      /\ 1..(o - 1) \subseteq tried[p]
  <2>1. /\ o <= Len(log[p]) /\ \A i \in AllOffsets : i < o => Tried(p, i)
        /\ o \in 1..MaxMessages /\ Len(log[p]) \in Nat
    BY TypesOf DEF PipelineInvariant, Seen, AllOffsets, BridgeInvariant, Sequences
  <2> QED
    BY <2>1, TopicAssumption DEF tried, AllOffsets
<1>4. length' = length /\ length[p] = Len(log[p])
  BY DEF length
<1>5. D!Try(p, o, outcome \in Conclusive)
  BY <1>1, <1>2, <1>3, <1>4 DEF D!Try, tried, length, Tried
<1>6. o \in 1..length[p] /\ (outcome \in Conclusive) \in BOOLEAN
  BY <1>3, <1>4
<1> QED
  BY <1>5, <1>6 DEF D!Next, length

(* A commit of the consumer is an acknowledgement of Delivery. *)
LEMMA CommitIsAcknowledge ==
  ASSUME PipelineInvariant, NEW p \in Partitions, NEW o \in AllOffsets,
         held = <<p, o>>, Commit(p, o)
  PROVE  D!Next
<1>1. /\ at = "commit" /\ committed' = [committed EXCEPT ![p] = o]
      /\ UNCHANGED <<log, attempts, handled>>
  BY DEF Commit, topicVars, historyVars
<1>2. /\ o <= Len(log[p]) /\ o \in handled[p] /\ Tried(p, o)
      /\ \A i \in AllOffsets : i < o => Tried(p, i)
  BY <1>1 DEF PipelineInvariant, Seen
<1>3. o \in 1..MaxMessages /\ Len(log[p]) \in Nat
  BY TypesOf DEF PipelineInvariant, AllOffsets, BridgeInvariant, Sequences
<1>4. o \in 1..Len(log[p]) /\ 1..o \subseteq tried[p]
  BY <1>2, <1>3, TopicAssumption DEF tried, AllOffsets
<1>5. D!Acknowledge(p, o)
  BY <1>1, <1>2, <1>4 DEF D!Acknowledge, tried, Tried
<1> QED
  BY <1>4, <1>5 DEF D!Next

LEMMA StepImplementsDelivery ==
  ASSUME PipelineInvariant, [Next]_vars
  PROVE  [D!Next]_(D!deliveryVars)
<1>1. ASSUME UNCHANGED <<log, attempts, handled, committed>>
      PROVE  UNCHANGED D!deliveryVars
  BY <1>1 DEF D!deliveryVars
<1>2. CASE BridgeStep /\ UNCHANGED consumerVars
  <2>1. UNCHANGED <<attempts, handled, committed>>
    BY <1>2 DEF consumerVars, sessionVars, historyVars
  <2>2. CASE log' = log
    BY <1>1, <2>1, <2>2
  <2>3. CASE \E p \in Partitions : log' = [log EXCEPT ![p] = Append(@, Head(queue[p]))]
    <3>1. PICK p \in Partitions : log' = [log EXCEPT ![p] = Append(@, Head(queue[p]))]
      BY <2>3
    <3>2. log \in Sequences
      BY TypesOf DEF PipelineInvariant, BridgeInvariant
    <3>3. length' = [length EXCEPT ![p] = @ + 1]
      <4>1. ASSUME NEW q \in Partitions
            PROVE  Len(log'[q]) = IF q = p THEN Len(log[q]) + 1 ELSE Len(log[q])
        <5>1. /\ log'[q] = IF q = p THEN Append(log[p], Head(queue[p])) ELSE log[q]
              /\ log[q] \in Seq(Message)
          BY <3>1, <3>2 DEF Sequences
        <5> QED
          BY <5>1
      <4> QED
        BY <4>1 DEF length
    <3>4. D!Append(p)
      BY <2>1, <3>3 DEF D!Append, length
    <3> QED
      BY <3>4 DEF D!Next
  <2> QED
    BY <1>2, <2>2, <2>3, LogGrows DEF PipelineInvariant
<1>3. CASE LoopStep
  <2>1. CASE FetchIsCancelled \/ \E p \in Partitions : Fetch(p)
    BY <1>1, <2>1 DEF FetchIsCancelled, Fetch, topicVars, sessionVars, historyVars
  <2>2. CASE \E p \in Partitions, o \in AllOffsets :
               held = <<p, o>> /\ HandleStep(p, o)
    <3>1. PICK p \in Partitions, o \in AllOffsets :
            held = <<p, o>> /\ HandleStep(p, o)
      BY <2>2
    <3>2. log' = log
      BY <3>1, HandleChanges DEF PipelineInvariant
    <3>3. ASSUME NEW outcome \in Conclusive \cup {"failed"}, NEW next,
                 Attempted(p, o, outcome, next), committed' = committed
          PROVE  D!Next
      <4>1. outcome \in Outcomes \ {"none"}
        BY DEF Outcomes, Conclusive
      <4> QED
        BY <3>1, <3>2, <3>3, <4>1, AttemptIsTry
    <3>4. CASE SaveReading(p, o) \/ ApplyToAlerts(p, o) \/ CommitFails(p, o)
      BY <1>1, <3>4 DEF SaveReading, ApplyToAlerts, CommitFails, topicVars,
                        sessionVars, historyVars
    <3>5. CASE Commit(p, o)
      BY <3>1, <3>5, CommitIsAcknowledge
    <3> QED
      BY <3>1, <3>3, <3>4, <3>5, HandleKinds
  <2> QED
    BY <1>3, <2>1, <2>2 DEF LoopStep
<1>4. CASE Rebalance
  BY <1>1, <1>4 DEF Rebalance, topicVars, historyVars
<1>5. CASE Cancel /\ UNCHANGED <<bridgeVars, consumerVars>>
  BY <1>1, <1>5 DEF Cancel, consumerVars, sessionVars, historyVars
<1>6. CASE CloseConsumer
  BY <1>1, <1>6 DEF CloseConsumer, CloseReader, topicVars, sessionVars, historyVars
<1>7. CASE Exit \/ Crash
  BY <1>1, <1>7 DEF Exit, Crash, Gone, sessionVars, historyVars
<1>8. CASE Start
  BY <1>1, <1>8 DEF Start, historyVars
<1>9. CASE UNCHANGED vars
  BY <1>1, <1>9 DEF vars, topicVars, consumerVars, sessionVars, historyVars
<1> QED
  BY <1>2, <1>3, <1>4, <1>5, <1>6, <1>7, <1>8, <1>9 DEF Next

(* Every behaviour of the pipeline is one of Delivery: a partition is gone *)
(* through in order, nothing is passed over untried, and the group's       *)
(* offset is always one of a message that was stored or refused.           *)
THEOREM DeliveryImplemented == Spec => ImplementsDelivery
<1>1. Init => D!Init
  <2> SUFFICES ASSUME Init
               PROVE  D!Init
    OBVIOUS
  <2>1. /\ log = [p \in Partitions |-> << >>]
        /\ attempts = [p \in Partitions |-> [o \in AllOffsets |-> "none"]]
        /\ handled = [p \in Partitions |-> {}]
        /\ committed = [p \in Partitions |-> 0]
    BY DEF Init, BridgeInit, TopicInit, ConsumerInit
  <2>2. \A p \in Partitions : /\ Len(log[p]) = 0
                              /\ {o \in AllOffsets : attempts[p][o] # "none"} = {}
    BY <2>1
  <2> QED
    BY <2>1, <2>2 DEF D!Init
<1>2. PipelineInvariant /\ [Next]_vars => [D!Next]_(D!deliveryVars)
  BY StepImplementsDelivery
<1> QED
  BY <1>1, <1>2, InvariantHolds, PTL DEF Spec, ImplementsDelivery, D!Spec
=============================================================================
