---------------------------- MODULE BridgeProofs ----------------------------
(***************************************************************************)
(* Proofs about Bridge: its types, and the order in which readings reach   *)
(* the topic, for any number of partitions, readings and faults.           *)
(*                                                                         *)
(* Lost connections, timeouts and batches that are written late only take  *)
(* messages out of the way or move one from the front of a sequence to the *)
(* end of the next: received, queued in the writer, appended to the log.   *)
(* The inductive invariant says that the three are in order one after the  *)
(* other, for each partition.                                              *)
(***************************************************************************)
EXTENDS Bridge, TLAPS

(***************************************************************************)
(* Sequences of messages.                                                  *)
(***************************************************************************)

LEMMA MessageNumber == \A m \in Message : m.number \in Nat
  BY TopicAssumption DEF Message

LEMMA IncreasingAppend ==
  ASSUME NEW s \in Seq(Message), NEW m \in Message, Increasing(s),
         \A i \in 1..Len(s) : s[i].number < m.number
  PROVE  Append(s, m) \in Seq(Message) /\ Increasing(Append(s, m))
  BY MessageNumber DEF Increasing

LEMMA IncreasingTail ==
  ASSUME NEW s \in Seq(Message), s # << >>, Increasing(s)
  PROVE  /\ Tail(s) \in Seq(Message)
         /\ Increasing(Tail(s))
         /\ Head(s) \in Message
         /\ \A i \in 1..Len(Tail(s)) :
              Tail(s)[i] = s[i + 1] /\ Head(s).number < Tail(s)[i].number
  BY MessageNumber DEF Increasing

LEMMA IncreasingPrefix ==
  ASSUME NEW s \in Seq(Message), Increasing(s), NEW n \in 0..Len(s)
  PROVE  /\ SubSeq(s, 1, n) \in Seq(Message)
         /\ Len(SubSeq(s, 1, n)) = n
         /\ Increasing(SubSeq(s, 1, n))
         /\ \A i \in 1..n : SubSeq(s, 1, n)[i] = s[i]
  BY MessageNumber DEF Increasing

LEMMA TailElements ==
  ASSUME NEW s \in Seq(Message), s # << >>
  PROVE  /\ 1 \in 1..Len(s) /\ Head(s) = s[1]
         /\ \A i \in 1..Len(Tail(s)) : i + 1 \in 1..Len(s) /\ Tail(s)[i] = s[i + 1]
  OBVIOUS

LEMMA LongTail ==
  ASSUME NEW s \in Seq(Message), s # << >>, Len(s) # 1
  PROVE  Tail(s) # << >>
<1>1. Len(s) \in Nat /\ Len(s) # 0 /\ Len(Tail(s)) = Len(s) - 1
  OBVIOUS
<1>2. Len(Tail(s)) # 0
  BY <1>1
<1>3. Len(<< >>) = 0
  OBVIOUS
<1> QED
  BY <1>2, <1>3, Zenon

LEMMA BeforeAppend ==
  ASSUME NEW s, NEW t \in Seq(Message), NEW m \in Message, Before(s, t),
         \A i \in 1..Len(s) : s[i].number < m.number
  PROVE  Before(s, Append(t, m))
<1> SUFFICES ASSUME NEW i \in 1..Len(s), NEW j \in 1..Len(Append(t, m))
             PROVE  s[i].number < Append(t, m)[j].number
  BY DEF Before
<1>1. CASE j = Len(t) + 1
  <2>1. Append(t, m)[j] = m
    BY <1>1
  <2> QED
    BY <2>1
<1>2. CASE j \in 1..Len(t)
  <2>1. Append(t, m)[j] = t[j]
    BY <1>2
  <2> QED
    BY <1>2, <2>1 DEF Before
<1> QED
  BY <1>1, <1>2

LEMMA DisjointSymmetric ==
  ASSUME NEW s, NEW t, Disjoint(s, t)
  PROVE  Disjoint(t, s)
  BY DEF Disjoint

LEMMA DisjointAppend ==
  ASSUME NEW s \in Seq(Message), NEW t \in Seq(Message), NEW m \in Message,
         Disjoint(s, t), \A i \in 1..Len(s) : s[i].number # m.number
  PROVE  Disjoint(s, Append(t, m)) /\ Disjoint(Append(t, m), s)
<1> SUFFICES Disjoint(s, Append(t, m))
  BY DisjointSymmetric
<1> SUFFICES ASSUME NEW i \in 1..Len(s), NEW j \in 1..Len(Append(t, m))
             PROVE  s[i].number # Append(t, m)[j].number
  BY DEF Disjoint
<1>1. CASE j = Len(t) + 1
  <2>1. Append(t, m)[j] = m
    BY <1>1
  <2> QED
    BY <2>1
<1>2. CASE j \in 1..Len(t)
  <2>1. Append(t, m)[j] = t[j]
    BY <1>2
  <2> QED
    BY <1>2, <2>1 DEF Disjoint
<1> QED
  BY <1>1, <1>2

LEMMA DisjointTail ==
  ASSUME NEW s, NEW t \in Seq(Message), t # << >>, Disjoint(s, t)
  PROVE  Disjoint(s, Tail(t)) /\ Disjoint(Tail(t), s)
<1>1. \A j \in 1..Len(Tail(t)) : j + 1 \in 1..Len(t) /\ Tail(t)[j] = t[j + 1]
  OBVIOUS
<1>2. Disjoint(s, Tail(t))
  BY <1>1 DEF Disjoint
<1> QED
  BY <1>2, DisjointSymmetric

(* Every message of s is one of t. *)
Within(s, t) == \A i \in 1..Len(s) : \E j \in 1..Len(t) : s[i] = t[j]

-----------------------------------------------------------------------------
(***************************************************************************)
(* The order of a log, a queue and the unpublished messages, of states     *)
(* that are given as arguments.                                            *)
(***************************************************************************)
InOrder(lg, qu, un) ==
  \A p \in Partitions :
    /\ Increasing(lg[p]) /\ Increasing(qu[p])
    /\ Before(lg[p], qu[p])
    /\ Before(lg[p], un) /\ Before(qu[p], un)
    /\ \A q \in Partitions \ {p} :
         /\ Disjoint(lg[p], lg[q])
         /\ Disjoint(lg[p], qu[q])
         /\ Disjoint(qu[p], qu[q])

Sequences == [Partitions -> Seq(Message)]

LEMMA FewerUnpublished ==
  ASSUME NEW lg \in Sequences, NEW qu \in Sequences, NEW un \in Seq(Message),
         NEW fewer \in Seq(Message), Within(fewer, un), InOrder(lg, qu, un)
  PROVE  InOrder(lg, qu, fewer)
  BY DEF InOrder, Within, Before

LEMMA OneMoreUnpublished ==
  ASSUME NEW lg \in Sequences, NEW qu \in Sequences, NEW un \in Seq(Message),
         NEW m \in Message, InOrder(lg, qu, un),
         \A p \in Partitions :
           /\ \A i \in 1..Len(lg[p]) : lg[p][i].number < m.number
           /\ \A i \in 1..Len(qu[p]) : qu[p][i].number < m.number
  PROVE  InOrder(lg, qu, Append(un, m))
<1>1. \A p \in Partitions :
        Before(lg[p], Append(un, m)) /\ Before(qu[p], Append(un, m))
  BY BeforeAppend DEF InOrder
<1> QED
  BY <1>1 DEF InOrder

(* Publish: the first unpublished message goes to the end of a queue. *)
LEMMA PublishInOrder ==
  ASSUME NEW lg \in Sequences, NEW qu \in Sequences, NEW un \in Seq(Message),
         un # << >>, Increasing(un), InOrder(lg, qu, un), NEW p \in Partitions
  PROVE  LET more == [qu EXCEPT ![p] = Append(@, Head(un))]
         IN  more \in Sequences /\ InOrder(lg, more, Tail(un))
<1> DEFINE m == Head(un)
           more == [qu EXCEPT ![p] = Append(@, m)]
           rest == Tail(un)
<1>1. /\ m \in Message /\ rest \in Seq(Message) /\ m = un[1] /\ 1 \in 1..Len(un)
      /\ \A i \in 1..Len(rest) : i + 1 \in 1..Len(un) /\ rest[i] = un[i + 1]
      /\ \A i \in 1..Len(rest) : m.number < rest[i].number
  BY IncreasingTail
<1>2. \A q \in Partitions :
        /\ \A i \in 1..Len(lg[q]) : lg[q][i].number < m.number
        /\ \A i \in 1..Len(qu[q]) : qu[q][i].number < m.number
        /\ Before(lg[q], rest)
        /\ Before(qu[q], rest)
  BY <1>1 DEF InOrder, Before
<1> HIDE DEF m, rest
<1>3. more \in Sequences /\ more[p] = Append(qu[p], m)
      /\ \A q \in Partitions \ {p} : more[q] = qu[q]
  BY <1>1 DEF Sequences
<1>4. /\ Len(more[p]) = Len(qu[p]) + 1
      /\ \A i \in 1..Len(more[p]) :
           \/ i \in 1..Len(qu[p]) /\ more[p][i] = qu[p][i]
           \/ more[p][i] = m
      /\ Increasing(more[p])
  BY <1>1, <1>2, <1>3, IncreasingAppend DEF InOrder, Sequences
<1> HIDE DEF more
<1>5. /\ Before(lg[p], more[p]) /\ Before(more[p], rest)
      /\ \A q \in Partitions \ {p} :
           /\ Disjoint(lg[q], more[p])
           /\ Disjoint(more[p], qu[q])
           /\ Disjoint(qu[q], more[p])
  <2>1. Before(lg[p], more[p])
    BY <1>2, <1>4 DEF InOrder, Before
  <2>2. Before(more[p], rest)
    BY <1>1, <1>2, <1>4 DEF InOrder, Before
  <2>3. ASSUME NEW q \in Partitions \ {p}
        PROVE  /\ Disjoint(lg[q], more[p])
               /\ Disjoint(more[p], qu[q])
               /\ Disjoint(qu[q], more[p])
    <3>1. /\ qu[p] \in Seq(Message) /\ qu[q] \in Seq(Message)
          /\ lg[q] \in Seq(Message)
      BY DEF Sequences
    <3>2. /\ \A i \in 1..Len(lg[q]) : lg[q][i].number # m.number
          /\ \A i \in 1..Len(qu[q]) : qu[q][i].number # m.number
      <4>1. /\ \A i \in 1..Len(lg[q]) : lg[q][i].number \in Nat
            /\ \A i \in 1..Len(qu[q]) : qu[q][i].number \in Nat
            /\ m.number \in Nat
        BY <1>1, <3>1, MessageNumber
      <4>2. /\ \A i \in 1..Len(lg[q]) : lg[q][i].number < m.number
            /\ \A i \in 1..Len(qu[q]) : qu[q][i].number < m.number
        BY <1>2
      <4> QED
        BY <4>1, <4>2
    <3>3. Disjoint(lg[q], qu[p]) /\ Disjoint(qu[q], qu[p])
      BY DEF InOrder
    <3> QED
      BY <1>1, <1>3, <3>1, <3>2, <3>3, DisjointAppend
  <2> QED
    BY <2>1, <2>2, <2>3
<1>6. InOrder(lg, more, rest)
  BY <1>2, <1>3, <1>4, <1>5 DEF InOrder
<1> QED
  BY <1>3, <1>6 DEF more, m, rest

(* A batch leaves its queue, without being written. *)
LEMMA LoseInOrder ==
  ASSUME NEW lg \in Sequences, NEW qu \in Sequences, NEW un \in Seq(Message),
         InOrder(lg, qu, un), NEW p \in Partitions, qu[p] # << >>
  PROVE  LET fewer == [qu EXCEPT ![p] = Tail(@)]
         IN  fewer \in Sequences /\ InOrder(lg, fewer, un)
<1> DEFINE fewer == [qu EXCEPT ![p] = Tail(@)]
<1>1. /\ qu[p] \in Seq(Message) /\ Increasing(qu[p])
      /\ Tail(qu[p]) \in Seq(Message) /\ Increasing(Tail(qu[p]))
  BY IncreasingTail DEF Sequences, InOrder
<1>2. /\ fewer \in Sequences
      /\ fewer[p] = Tail(qu[p])
      /\ \A q \in Partitions \ {p} : fewer[q] = qu[q]
  BY <1>1 DEF Sequences
<1>3. \A i \in 1..Len(fewer[p]) :
        i + 1 \in 1..Len(qu[p]) /\ fewer[p][i] = qu[p][i + 1]
  BY <1>1, <1>2, TailElements
<1> HIDE DEF fewer
<1>4. /\ Increasing(fewer[p])
      /\ Before(lg[p], fewer[p])
      /\ Before(fewer[p], un)
  BY <1>1, <1>2, <1>3 DEF InOrder, Before
<1>5. ASSUME NEW q \in Partitions \ {p}
      PROVE  /\ Disjoint(lg[q], fewer[p])
             /\ Disjoint(fewer[p], qu[q])
             /\ Disjoint(qu[q], fewer[p])
  <2>1. Disjoint(lg[q], qu[p]) /\ Disjoint(qu[q], qu[p])
    BY DEF InOrder
  <2> QED
    BY <1>1, <1>2, <2>1, DisjointTail
<1>6. InOrder(lg, fewer, un)
  BY <1>2, <1>4, <1>5 DEF InOrder
<1> QED
  BY <1>2, <1>6 DEF fewer

(* A batch leaves its queue for the log. *)
LEMMA WriteInOrder ==
  ASSUME NEW lg \in Sequences, NEW qu \in Sequences, NEW un \in Seq(Message),
         InOrder(lg, qu, un), NEW p \in Partitions, qu[p] # << >>
  PROVE  LET fewer == [qu EXCEPT ![p] = Tail(@)]
             longer == [lg EXCEPT ![p] = Append(@, Head(qu[p]))]
         IN  longer \in Sequences /\ InOrder(longer, fewer, un)
<1> DEFINE fewer == [qu EXCEPT ![p] = Tail(@)]
           m == Head(qu[p])
           longer == [lg EXCEPT ![p] = Append(@, m)]
<1>1. fewer \in Sequences /\ InOrder(lg, fewer, un)
  BY LoseInOrder
<1>2. /\ qu[p] \in Seq(Message) /\ Increasing(qu[p]) /\ lg[p] \in Seq(Message)
      /\ fewer[p] = Tail(qu[p])
      /\ \A q \in Partitions \ {p} : fewer[q] = qu[q]
  BY DEF Sequences, InOrder
<1>3. /\ m \in Message /\ m = qu[p][1] /\ 1 \in 1..Len(qu[p])
      /\ \A i \in 1..Len(fewer[p]) : m.number < fewer[p][i].number
  BY <1>2, IncreasingTail, TailElements
<1> HIDE DEF fewer, m
<1>4. /\ \A i \in 1..Len(lg[p]) : lg[p][i].number < m.number
      /\ \A i \in 1..Len(un) : m.number < un[i].number
  BY <1>3 DEF InOrder, Before
<1>5. ASSUME NEW q \in Partitions \ {p}
      PROVE  /\ \A i \in 1..Len(lg[q]) : lg[q][i].number # m.number
             /\ \A i \in 1..Len(qu[q]) : qu[q][i].number # m.number
  <2>1. Disjoint(lg[q], qu[p]) /\ Disjoint(qu[q], qu[p])
    BY DEF InOrder
  <2> QED
    BY <1>3, <2>1 DEF Disjoint
<1>6. longer \in Sequences /\ longer[p] = Append(lg[p], m)
      /\ \A q \in Partitions \ {p} : longer[q] = lg[q]
  BY <1>2, <1>3 DEF Sequences
<1>7. /\ \A i \in 1..Len(longer[p]) :
           \/ i \in 1..Len(lg[p]) /\ longer[p][i] = lg[p][i]
           \/ longer[p][i] = m
      /\ Increasing(longer[p])
  BY <1>2, <1>3, <1>4, <1>6, IncreasingAppend DEF InOrder
<1> HIDE DEF longer
<1>8. Before(longer[p], fewer[p])
  BY <1>1, <1>3, <1>7 DEF InOrder, Before
<1>9. Before(longer[p], un)
  BY <1>4, <1>7 DEF InOrder, Before
<1>10. ASSUME NEW q \in Partitions \ {p}
       PROVE  /\ Disjoint(longer[p], lg[q])
              /\ Disjoint(lg[q], longer[p])
              /\ Disjoint(longer[p], fewer[q])
  <2>1. Disjoint(lg[q], lg[p]) /\ Disjoint(lg[p], qu[q])
    BY DEF InOrder
  <2>2. /\ lg[p] \in Seq(Message) /\ lg[q] \in Seq(Message)
        /\ qu[q] \in Seq(Message)
    BY DEF Sequences
  <2>3. Disjoint(qu[q], lg[p])
    BY <2>1, DisjointSymmetric
  <2>4. fewer[q] = qu[q]
    BY <1>2
  <2> QED
    BY <1>3, <1>5, <1>6, <2>1, <2>2, <2>3, <2>4, DisjointAppend
<1>11. InOrder(longer, fewer, un)
  BY <1>1, <1>6, <1>7, <1>8, <1>9, <1>10 DEF InOrder
<1> QED
  BY <1>6, <1>11 DEF longer, fewer, m

-----------------------------------------------------------------------------
(***************************************************************************)
(* The inductive invariant.  Nothing has a number that was not sent.       *)
(***************************************************************************)
UpTo(s, n) == \A i \in 1..Len(s) : s[i].number <= n

SentOnly ==
  /\ UpTo(inbox, sent)
  /\ \A p \in Partitions : UpTo(log[p], sent) /\ UpTo(queue[p], sent)

BridgeInvariant ==
  /\ BridgeTypeOK
  /\ InOrder(log, queue, Unpublished)
  /\ Increasing(inbox)
  /\ SentOnly

LEMMA InvariantImpliesOrder == BridgeInvariant => BridgeKeepsOrder
  BY DEF BridgeInvariant, InOrder, BridgeKeepsOrder

LEMMA UpToElements ==
  ASSUME NEW s \in Seq(Message), NEW n \in Nat, UpTo(s, n)
  PROVE  /\ s # << >> => UpTo(Tail(s), n) /\ Head(s).number <= n
         /\ \A k \in 0..Len(s) : UpTo(SubSeq(s, 1, k), n)
         /\ \A m \in Message : m.number <= n => UpTo(Append(s, m), n)
         /\ UpTo(s, n + 1)
<1>1. ASSUME s # << >>
      PROVE  UpTo(Tail(s), n) /\ Head(s).number <= n
  BY <1>1, TailElements DEF UpTo
<1>2. ASSUME NEW k \in 0..Len(s)
      PROVE  UpTo(SubSeq(s, 1, k), n)
  BY DEF UpTo
<1>3. ASSUME NEW m \in Message, m.number <= n
      PROVE  UpTo(Append(s, m), n)
  <2> SUFFICES ASSUME NEW i \in 1..Len(Append(s, m))
               PROVE  Append(s, m)[i].number <= n
    BY DEF UpTo
  <2>1. CASE i = Len(s) + 1
    <3>1. Append(s, m)[i] = m
      BY <2>1
    <3> QED
      BY <3>1, <1>3
  <2>2. CASE i \in 1..Len(s)
    BY <2>2 DEF UpTo
  <2> QED
    BY <2>1, <2>2
<1>4. UpTo(s, n + 1)
  BY MessageNumber DEF UpTo
<1> QED
  BY <1>1, <1>2, <1>3, <1>4

LEMMA TypesOf ==
  ASSUME BridgeTypeOK
  PROVE  /\ log \in Sequences /\ queue \in Sequences
         /\ inbox \in Seq(Message) /\ Unpublished \in Seq(Message)
         /\ sent \in Nat
         /\ waiting \in Partitions => Tail(inbox) \in Seq(Message)
  BY BridgeAssumption, TopicAssumption
     DEF BridgeTypeOK, TopicTypeOK, Sequences, Unpublished

(* Steps of the client, and others that touch no message. *)
LEMMA MessagesUntouched ==
  ASSUME BridgeInvariant, BridgeTypeOK',
         UNCHANGED <<log, queue, inbox, waiting, sent>>
  PROVE  BridgeInvariant'
<1>1. InOrder(log, queue, Unpublished)'
  BY DEF BridgeInvariant, InOrder, Unpublished
<1>2. SentOnly'
  BY DEF BridgeInvariant, SentOnly
<1>3. Increasing(inbox)'
  BY DEF BridgeInvariant, Increasing
<1> QED
  BY <1>1, <1>2, <1>3 DEF BridgeInvariant

LEMMA ClientKeepsInvariant ==
  ASSUME BridgeInvariant,
         \/ Connect \/ ConnectTimesOut \/ Subscribe \/ SubscribeFails
         \/ CloseProducer
         \/ Cancel /\ UNCHANGED bridgeVars
  PROVE  BridgeInvariant'
<1>1. UNCHANGED <<log, queue, inbox, waiting, sent>>
  BY DEF Connect, ConnectTimesOut, Subscribe, SubscribeFails, CloseProducer,
         Cancel, bridgeVars, topicVars
<1>2. /\ server' \in {"running", "stopping", "down"}
      /\ faults' \in 0..MaxFaults
      /\ link' \in {"connecting", "connected", "subscribed", "deaf", "off"}
      /\ starter' \in {"waiting", "serving", "failed", "ended"}
      /\ writer' \in {"open", "closed"}
  BY TopicAssumption
     DEF BridgeInvariant, BridgeTypeOK, TopicTypeOK, Connect, ConnectTimesOut,
         Subscribe, SubscribeFails, CloseProducer, Cancel, Fault, bridgeVars,
         topicVars
<1>3. BridgeTypeOK'
  BY <1>1, <1>2 DEF BridgeInvariant, BridgeTypeOK, TopicTypeOK
<1> QED
  BY <1>1, <1>3, MessagesUntouched

(* The invariant of the next state, part by part. *)
LEMMA NextInvariant ==
  ASSUME BridgeTypeOK', InOrder(log', queue', Unpublished'), Increasing(inbox'),
         UpTo(inbox', sent'),
         \A p \in Partitions : UpTo(log'[p], sent') /\ UpTo(queue'[p], sent')
  PROVE  BridgeInvariant'
  BY DEF BridgeInvariant, SentOnly, InOrder, Increasing, UpTo, Before, Disjoint

(* Messages lost with the connection. *)
LEMMA ConnectionKeepsInvariant ==
  ASSUME BridgeInvariant, NEW n, ConnectionLost(n) \/ Disconnect(n)
  PROVE  BridgeInvariant'
<1>1. /\ n \in 0..Len(inbox) /\ inbox' = SubSeq(inbox, 1, n)
      /\ waiting # NoPartition => n > 0
      /\ UNCHANGED <<log, queue, waiting, sent>>
  BY DEF ConnectionLost, Disconnect, Keep, topicVars
<1>2. /\ BridgeTypeOK /\ InOrder(log, queue, Unpublished)
      /\ Increasing(inbox) /\ SentOnly
  BY DEF BridgeInvariant
<1>3. /\ log \in Sequences /\ queue \in Sequences /\ inbox \in Seq(Message)
      /\ Unpublished \in Seq(Message) /\ sent \in Nat
  BY <1>2, TypesOf
<1>4. /\ inbox' \in Seq(Message) /\ Len(inbox') = n /\ Increasing(inbox')
      /\ \A i \in 1..n : inbox'[i] = inbox[i]
  BY <1>1, <1>2, <1>3, IncreasingPrefix
<1>5. UpTo(inbox', sent)
  BY <1>1, <1>2, <1>3, UpToElements DEF SentOnly
<1>6. BridgeTypeOK'
  <2>1. /\ server' \in {"running", "stopping", "down"}
        /\ faults' \in 0..MaxFaults
        /\ link' \in {"connecting", "connected", "subscribed", "deaf", "off"}
        /\ starter' \in {"waiting", "serving", "failed", "ended"}
        /\ writer' = writer
    BY <1>2, TopicAssumption DEF BridgeTypeOK, TopicTypeOK, ConnectionLost,
       Disconnect, Fault, topicVars
  <2>2. waiting # NoPartition => inbox' # << >>
    BY <1>1, <1>4
  <2> QED
    BY <1>1, <1>2, <1>4, <2>1, <2>2 DEF BridgeTypeOK, TopicTypeOK
<1>7. Unpublished' \in Seq(Message) /\ Within(Unpublished', Unpublished)
  <2>1. CASE waiting = NoPartition
    <3>1. Unpublished' = inbox' /\ Unpublished = inbox
      BY <1>1, <2>1 DEF Unpublished
    <3> QED
      BY <1>1, <1>3, <1>4, <3>1 DEF Within
  <2>2. CASE waiting # NoPartition
    <3>1. Unpublished' = Tail(inbox') /\ Unpublished = Tail(inbox)
      BY <1>1, <2>2 DEF Unpublished
    <3>2. inbox # << >> /\ inbox' # << >>
      BY <1>1, <1>3, <1>4, <2>2
    <3>3. \A i \in 1..Len(Tail(inbox')) :
            i \in 1..Len(Tail(inbox)) /\ Tail(inbox')[i] = Tail(inbox)[i]
      BY <1>1, <1>3, <1>4, <3>2
    <3>4. Tail(inbox') \in Seq(Message)
      BY <1>4, <3>2
    <3>5. Within(Tail(inbox'), Tail(inbox))
      BY <3>3 DEF Within
    <3> QED
      BY <3>1, <3>4, <3>5
  <2> QED
    BY <2>1, <2>2
<1>8. InOrder(log', queue', Unpublished')
  BY <1>1, <1>2, <1>3, <1>7, FewerUnpublished
<1>9. \A p \in Partitions : UpTo(log'[p], sent') /\ UpTo(queue'[p], sent')
  BY <1>1, <1>2 DEF SentOnly
<1> QED
  BY <1>1, <1>4, <1>5, <1>6, <1>8, <1>9, NextInvariant

(* A new message comes after all others. *)
LEMMA SendKeepsInvariant ==
  ASSUME BridgeInvariant, NEW payload \in Payloads, SendReading(payload)
  PROVE  BridgeInvariant'
<1> DEFINE m == [number |-> sent + 1, payload |-> payload]
<1>1. /\ sent < MaxMessages /\ sent' = sent + 1
      /\ inbox' = IF link = "subscribed" THEN Append(inbox, m) ELSE inbox
      /\ UNCHANGED <<log, server, faults, link, starter, waiting, queue, writer>>
  BY DEF SendReading, topicVars
<1>2. /\ BridgeTypeOK /\ InOrder(log, queue, Unpublished)
      /\ Increasing(inbox) /\ SentOnly
  BY DEF BridgeInvariant
<1>3. /\ log \in Sequences /\ queue \in Sequences /\ inbox \in Seq(Message)
      /\ Unpublished \in Seq(Message) /\ sent \in Nat
      /\ \A p \in Partitions : log[p] \in Seq(Message) /\ queue[p] \in Seq(Message)
  BY <1>2, TypesOf DEF Sequences
<1>4. m \in Message /\ m.number = sent + 1
  BY <1>1, <1>3, TopicAssumption DEF Message
<1> HIDE DEF m
<1>5. /\ UpTo(inbox, sent') /\ UpTo(Append(inbox, m), sent')
      /\ \A p \in Partitions : UpTo(log[p], sent') /\ UpTo(queue[p], sent')
  <2>1. ASSUME NEW s \in Seq(Message), UpTo(s, sent)
        PROVE  UpTo(s, sent + 1)
    BY <1>3, <2>1, UpToElements
  <2>2. UpTo(inbox, sent + 1)
    BY <1>2, <1>3, <2>1 DEF SentOnly
  <2>3. sent + 1 \in Nat /\ m.number <= sent + 1
    BY <1>3, <1>4
  <2>4. UpTo(Append(inbox, m), sent + 1)
    BY <1>3, <1>4, <2>2, <2>3, UpToElements
  <2> QED
    BY <1>1, <1>2, <1>3, <2>1, <2>2, <2>4 DEF SentOnly
<1>6. /\ \A i \in 1..Len(inbox) : inbox[i].number < m.number
      /\ \A p \in Partitions :
           /\ \A i \in 1..Len(log[p]) : log[p][i].number < m.number
           /\ \A i \in 1..Len(queue[p]) : queue[p][i].number < m.number
  BY <1>2, <1>3, <1>4, MessageNumber DEF SentOnly, UpTo
<1>7. inbox' \in Seq(Message) /\ Increasing(inbox') /\ (inbox # << >> => inbox' # << >>)
  BY <1>1, <1>2, <1>3, <1>4, <1>6, IncreasingAppend
<1>8. Unpublished' = Unpublished \/ Unpublished' = Append(Unpublished, m)
  <2>1. CASE waiting = NoPartition
    BY <1>1, <2>1 DEF Unpublished
  <2>2. CASE waiting # NoPartition
    <3>1. inbox # << >>
      BY <1>2, <2>2 DEF BridgeTypeOK
    <3>2. Tail(Append(inbox, m)) = Append(Tail(inbox), m)
      BY <1>3, <1>4, <3>1
    <3> QED
      BY <1>1, <2>2, <3>2 DEF Unpublished
  <2> QED
    BY <2>1, <2>2
<1>9. InOrder(log', queue', Unpublished')
  <2>1. InOrder(log, queue, Append(Unpublished, m))
    BY <1>2, <1>3, <1>4, <1>6, OneMoreUnpublished
  <2> QED
    BY <1>1, <1>2, <1>8, <2>1
<1>10. BridgeTypeOK'
  <2>1. sent' \in 0..MaxMessages
    BY <1>1, <1>3, TopicAssumption
  <2> QED
    BY <1>1, <1>2, <1>7, <2>1 DEF BridgeTypeOK, TopicTypeOK
<1> QED
  BY <1>1, <1>5, <1>7, <1>9, <1>10, NextInvariant

(* The first unpublished message goes to a partition's queue. *)
LEMMA PublishKeepsInvariant ==
  ASSUME BridgeInvariant, NEW p \in Partitions, Publish(p)
  PROVE  BridgeInvariant'
<1>1. /\ waiting = NoPartition /\ waiting' = p
      /\ inbox # << >>
      /\ queue' = [queue EXCEPT ![p] = Append(@, Head(inbox))]
      /\ UNCHANGED <<log, server, faults, sent, link, starter, inbox, writer>>
  BY DEF Publish, Handling, topicVars
<1>2. /\ BridgeTypeOK /\ InOrder(log, queue, Unpublished)
      /\ Increasing(inbox) /\ SentOnly
  BY DEF BridgeInvariant
<1>3. /\ log \in Sequences /\ queue \in Sequences /\ inbox \in Seq(Message)
      /\ sent \in Nat
  BY <1>2, TypesOf
<1>4. Unpublished = inbox /\ Unpublished' = Tail(inbox)
  <2>1. waiting' # NoPartition
    BY <1>1, BridgeAssumption
  <2> QED
    BY <1>1, <2>1 DEF Unpublished
<1>5. queue' \in Sequences /\ InOrder(log', queue', Unpublished')
  <2>1. InOrder(log, queue, inbox)
    BY <1>2, <1>4
  <2>2. queue' \in Sequences /\ InOrder(log, queue', Tail(inbox))
    BY <1>1, <1>2, <1>3, <2>1, PublishInOrder
  <2> QED
    BY <1>1, <1>4, <2>2
<1>6. /\ queue[p] \in Seq(Message) /\ Head(inbox) \in Message
      /\ UpTo(inbox, sent) /\ UpTo(queue[p], sent)
      /\ Head(inbox).number <= sent
  <2>1. UpTo(inbox, sent) /\ UpTo(queue[p], sent)
    BY <1>2 DEF SentOnly
  <2> QED
    BY <1>1, <1>2, <1>3, <2>1, IncreasingTail, UpToElements DEF Sequences
<1>7. /\ queue'[p] = Append(queue[p], Head(inbox))
      /\ \A q \in Partitions \ {p} : queue'[q] = queue[q]
  BY <1>1, <1>3 DEF Sequences
<1>8. \A q \in Partitions : UpTo(log'[q], sent') /\ UpTo(queue'[q], sent')
  <2>1. UpTo(queue'[p], sent)
    BY <1>3, <1>6, <1>7, UpToElements
  <2> QED
    BY <1>1, <1>2, <1>7, <2>1 DEF SentOnly
<1>9. BridgeTypeOK'
  <2>1. queue'[p] # << >>
    BY <1>6, <1>7
  <2> QED
    BY <1>1, <1>2, <1>5, <2>1 DEF BridgeTypeOK, TopicTypeOK, Sequences
<1> QED
  BY <1>1, <1>2, <1>5, <1>6, <1>8, <1>9, NextInvariant

(* The handler goes on to its next message. *)
LEMMA HandlerTail ==
  ASSUME BridgeInvariant, inbox # << >>
  PROVE  /\ Tail(inbox) \in Seq(Message)
         /\ Increasing(Tail(inbox))
         /\ UpTo(Tail(inbox), sent)
         /\ Within(Tail(inbox), Unpublished)
<1>1. /\ BridgeTypeOK /\ Increasing(inbox) /\ UpTo(inbox, sent)
      /\ inbox \in Seq(Message) /\ sent \in Nat
  BY TypesOf DEF BridgeInvariant, SentOnly
<1>2. /\ Tail(inbox) \in Seq(Message) /\ Increasing(Tail(inbox))
      /\ UpTo(Tail(inbox), sent)
  BY <1>1, IncreasingTail, UpToElements
<1>3. Within(Tail(inbox), inbox)
  BY <1>1, TailElements DEF Within
<1>4. Within(Tail(inbox), Tail(inbox))
  BY DEF Within
<1> QED
  BY <1>2, <1>3, <1>4 DEF Unpublished

(* A publication fails, or nobody waits for it any more. *)
LEMMA GiveUpKeepsInvariant ==
  ASSUME BridgeInvariant, PublishFails \/ PublishTimesOut
  PROVE  BridgeInvariant'
<1>1. /\ inbox # << >> /\ inbox' = Tail(inbox) /\ waiting' = NoPartition
      /\ faults' \in 0..MaxFaults
      /\ UNCHANGED <<log, server, sent, link, starter, queue, writer>>
  BY TopicAssumption
     DEF PublishFails, PublishTimesOut, Handling, Fault, topicVars,
         BridgeInvariant, BridgeTypeOK, TopicTypeOK
<1>2. /\ BridgeTypeOK /\ InOrder(log, queue, Unpublished) /\ SentOnly
  BY DEF BridgeInvariant
<1>3. /\ log \in Sequences /\ queue \in Sequences
      /\ Unpublished \in Seq(Message)
  BY <1>2, TypesOf
<1>4. /\ inbox' \in Seq(Message) /\ Increasing(inbox') /\ UpTo(inbox', sent')
      /\ Within(inbox', Unpublished)
  BY <1>1, HandlerTail
<1>5. InOrder(log', queue', Unpublished')
  <2>1. InOrder(log, queue, inbox')
    BY <1>2, <1>3, <1>4, FewerUnpublished
  <2>2. Unpublished' = inbox'
    BY <1>1 DEF Unpublished
  <2> QED
    BY <1>1, <2>1, <2>2
<1>6. BridgeTypeOK'
  BY <1>1, <1>2, <1>4 DEF BridgeTypeOK, TopicTypeOK
<1>7. \A p \in Partitions : UpTo(log'[p], sent') /\ UpTo(queue'[p], sent')
  BY <1>1, <1>2 DEF SentOnly
<1> QED
  BY <1>4, <1>5, <1>6, <1>7, NextInvariant

(* A batch is written or lost; the handler may be waiting for it. *)
LEMMA BatchKeepsInvariant ==
  ASSUME BridgeInvariant, NEW p \in Partitions, WriteBatch(p) \/ LoseBatch(p)
  PROVE  BridgeInvariant'
<1> DEFINE fewer == [queue EXCEPT ![p] = Tail(@)]
           longer == [log EXCEPT ![p] = Append(@, Head(queue[p]))]
<1>1. /\ queue[p] # << >> /\ queue' = fewer
      /\ log' = log \/ log' = longer
      /\ \/ waiting = p /\ waiting' = NoPartition /\ inbox' = Tail(inbox)
         \/ /\ ~(waiting = p /\ Len(queue[p]) = 1)
            /\ UNCHANGED <<waiting, inbox>>
      /\ faults' \in 0..MaxFaults
      /\ UNCHANGED <<server, sent, link, starter, writer>>
  BY TopicAssumption DEF WriteBatch, LoseBatch, BatchDone, Fault,
     BridgeInvariant, BridgeTypeOK, TopicTypeOK
<1>2. /\ BridgeTypeOK /\ InOrder(log, queue, Unpublished)
      /\ Increasing(inbox) /\ SentOnly
  BY DEF BridgeInvariant
<1>3. /\ log \in Sequences /\ queue \in Sequences /\ inbox \in Seq(Message)
      /\ Unpublished \in Seq(Message) /\ sent \in Nat
      /\ queue[p] \in Seq(Message) /\ log[p] \in Seq(Message)
      /\ Head(queue[p]) \in Message
  BY <1>1, <1>2, TypesOf DEF Sequences
<1>4. /\ fewer \in Sequences /\ InOrder(log, fewer, Unpublished)
      /\ longer \in Sequences /\ InOrder(longer, fewer, Unpublished)
  BY <1>1, <1>2, <1>3, LoseInOrder, WriteInOrder
<1>5. /\ fewer[p] = Tail(queue[p]) /\ longer[p] = Append(log[p], Head(queue[p]))
      /\ \A q \in Partitions \ {p} : fewer[q] = queue[q] /\ longer[q] = log[q]
  BY <1>3 DEF Sequences
<1> HIDE DEF fewer, longer
<1>6. /\ inbox' \in Seq(Message) /\ Increasing(inbox') /\ UpTo(inbox', sent')
      /\ Unpublished' = Unpublished
  <2>1. CASE waiting = p /\ waiting' = NoPartition /\ inbox' = Tail(inbox)
    <3>1. inbox # << >> /\ waiting # NoPartition
      BY <1>2, <2>1, BridgeAssumption DEF BridgeTypeOK
    <3>2. Unpublished' = Unpublished
      BY <2>1, <3>1 DEF Unpublished
    <3> QED
      BY <1>1, <2>1, <3>1, <3>2, HandlerTail
  <2>2. CASE UNCHANGED <<waiting, inbox>>
    BY <1>1, <1>2, <1>3, <2>2 DEF Unpublished, SentOnly
  <2> QED
    BY <1>1, <2>1, <2>2
<1>7. log' \in Sequences /\ InOrder(log', queue', Unpublished')
  BY <1>1, <1>3, <1>4, <1>6
<1>8. \A q \in Partitions : UpTo(log'[q], sent') /\ UpTo(queue'[q], sent')
  <2>1. UpTo(queue[p], sent) /\ UpTo(log[p], sent)
    BY <1>2 DEF SentOnly
  <2>2. UpTo(fewer[p], sent) /\ UpTo(longer[p], sent)
    <3>1. UpTo(Tail(queue[p]), sent) /\ Head(queue[p]).number <= sent
      BY <1>1, <1>3, <2>1, UpToElements
    <3>2. UpTo(Append(log[p], Head(queue[p])), sent)
      BY <1>3, <2>1, <3>1, UpToElements
    <3> QED
      BY <1>5, <3>1, <3>2
  <2> QED
    BY <1>1, <1>2, <1>5, <2>2 DEF SentOnly
<1>9. BridgeTypeOK'
  <2>1. ASSUME waiting' # NoPartition
        PROVE  inbox' # << >> /\ queue'[waiting'] # << >>
    <3>1. /\ UNCHANGED <<waiting, inbox>> /\ ~(waiting = p /\ Len(queue[p]) = 1)
          /\ waiting \in Partitions
      BY <1>1, <1>2, <2>1 DEF BridgeTypeOK
    <3>2. inbox # << >> /\ queue[waiting] # << >>
      BY <1>2, <2>1, <3>1 DEF BridgeTypeOK
    <3>3. CASE waiting = p
      <4>1. Len(queue[p]) # 1
        BY <3>1, <3>3
      <4>2. Tail(queue[p]) # << >>
        BY <1>1, <1>3, <4>1, LongTail
      <4> QED
        BY <1>1, <1>5, <3>1, <3>2, <3>3, <4>2
    <3>4. CASE waiting # p
      BY <1>1, <1>5, <3>1, <3>2, <3>4
    <3> QED
      BY <3>3, <3>4
  <2>2. waiting' \in Partitions \cup {NoPartition}
    BY <1>1, <1>2 DEF BridgeTypeOK
  <2> QED
    BY <1>1, <1>2, <1>4, <1>6, <1>7, <2>1, <2>2
       DEF BridgeTypeOK, TopicTypeOK, Sequences
<1> QED
  BY <1>6, <1>7, <1>8, <1>9, NextInvariant

-----------------------------------------------------------------------------
LEMMA BridgeStepKeepsInvariant ==
  ASSUME BridgeInvariant, BridgeStep
  PROVE  BridgeInvariant'
<1>1. CASE ClientStep \/ ConnectTimesOut \/ CloseProducer
  BY <1>1, ClientKeepsInvariant DEF ClientStep
<1>2. CASE \E n \in 0..MaxMessages : ConnectionLost(n) \/ Disconnect(n)
  BY <1>2, ConnectionKeepsInvariant
<1>3. CASE \E payload \in Payloads : SendReading(payload)
  BY <1>3, SendKeepsInvariant
<1>4. CASE HandlerStep
  BY <1>4, PublishKeepsInvariant, GiveUpKeepsInvariant DEF HandlerStep
<1>5. CASE WriterStep
  BY <1>5, BatchKeepsInvariant DEF WriterStep
<1>6. CASE PublishTimesOut
  BY <1>6, GiveUpKeepsInvariant
<1> QED
  BY <1>1, <1>2, <1>3, <1>4, <1>5, <1>6 DEF BridgeStep

LEMMA InitBridgeInvariant ==
  ASSUME BridgeInit
  PROVE  BridgeInvariant
<1>1. /\ log = [p \in Partitions |-> << >>] /\ queue = [p \in Partitions |-> << >>]
      /\ inbox = << >> /\ waiting = NoPartition /\ sent = 0
      /\ server = "running" /\ faults = 0
      /\ link = "connecting" /\ starter = "waiting" /\ writer = "open"
  BY DEF TopicInit, BridgeInit, BridgeStarted
<1>2. << >> \in Seq(Message) /\ Len(<< >>) = 0
  OBVIOUS
<1>3. BridgeTypeOK
  BY <1>1, <1>2, TopicAssumption DEF BridgeTypeOK, TopicTypeOK
<1>4. Unpublished = << >>
  BY <1>1 DEF Unpublished
<1>5. InOrder(log, queue, Unpublished)
  <2>1. \A s : Increasing(<< >>) /\ Before(<< >>, s) /\ Before(s, << >>)
                /\ Disjoint(<< >>, s)
    BY <1>2 DEF Increasing, Before, Disjoint
  <2>2. \A p \in Partitions : log[p] = << >> /\ queue[p] = << >>
    BY <1>1
  <2> QED
    BY <1>4, <2>1, <2>2 DEF InOrder
<1>6. Increasing(inbox) /\ SentOnly
  BY <1>1, <1>2 DEF Increasing, SentOnly, UpTo
<1> QED
  BY <1>3, <1>5, <1>6 DEF BridgeInvariant

(* The invariant of the bridge running alone. *)
LEMMA BridgeInvariantHolds == BridgeSpec => []BridgeInvariant
<1>1. BridgeInit => BridgeInvariant
  BY InitBridgeInvariant
<1>2. BridgeInvariant /\ [BridgeNext]_<<topicVars, bridgeVars>> => BridgeInvariant'
  <2>1. ASSUME BridgeInvariant, UNCHANGED <<topicVars, bridgeVars>>
        PROVE  BridgeInvariant'
    <3>1. BridgeTypeOK'
      BY <2>1 DEF BridgeInvariant, BridgeTypeOK, TopicTypeOK, topicVars, bridgeVars
    <3> QED
      BY <2>1, <3>1, MessagesUntouched DEF topicVars, bridgeVars
  <2> QED
    BY <2>1, BridgeStepKeepsInvariant, ClientKeepsInvariant DEF BridgeNext
<1> QED
  BY <1>1, <1>2, PTL DEF BridgeSpec

(* The variables of the bridge have the types that BridgeTypeOK gives; in  *)
(* particular a handler that waits has a message, in the queue it waits for. *)
THEOREM BridgeTypesCorrect == BridgeSpec => []BridgeTypeOK
<1>1. BridgeInvariant => BridgeTypeOK
  BY DEF BridgeInvariant
<1> QED
  BY <1>1, BridgeInvariantHolds, PTL

(* No reading is forwarded to Kafka twice, and the readings of a partition *)
(* are in the order in which they were sent over MQTT.                     *)
THEOREM BridgeOrder == BridgeSpec => []BridgeKeepsOrder
  BY InvariantImpliesOrder, BridgeInvariantHolds, PTL
=============================================================================
