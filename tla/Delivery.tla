------------------------------ MODULE Delivery ------------------------------
(***************************************************************************)
(* What the pipeline promises of the messages of a topic: each partition   *)
(* is gone through in order, possibly several times; a message may fail    *)
(* and be passed over, but it is never passed over without having been     *)
(* tried, and the group's offset rests on a message that was dealt with.   *)
(***************************************************************************)
EXTENDS Integers

CONSTANT Partitions

VARIABLES
  length,    \* partition -> its number of messages
  tried,     \* partition -> the messages that were tried
  settled,   \* partition -> those an attempt dealt with: stored or refused
  offset     \* partition -> the last message the group will not see again

deliveryVars == <<length, tried, settled, offset>>

Init ==
  /\ length = [p \in Partitions |-> 0]
  /\ tried = [p \in Partitions |-> {}]
  /\ settled = [p \in Partitions |-> {}]
  /\ offset = [p \in Partitions |-> 0]

Append(p) ==
  /\ length' = [length EXCEPT ![p] = @ + 1]
  /\ UNCHANGED <<tried, settled, offset>>

(* An attempt at a message: all messages before it were tried. *)
Try(p, o, success) ==
  /\ 1..(o - 1) \subseteq tried[p]
  /\ tried' = [tried EXCEPT ![p] = @ \cup {o}]
  /\ settled' = IF success THEN [settled EXCEPT ![p] = @ \cup {o}] ELSE settled
  /\ UNCHANGED <<length, offset>>

(* The offset may go back, when messages are delivered again. *)
Acknowledge(p, o) ==
  /\ o \in settled[p]
  /\ 1..o \subseteq tried[p]
  /\ offset' = [offset EXCEPT ![p] = o]
  /\ UNCHANGED <<length, tried, settled>>

Next ==
  \E p \in Partitions :
    \/ Append(p)
    \/ \E o \in 1..length[p] :
         \/ \E success \in BOOLEAN : Try(p, o, success)
         \/ Acknowledge(p, o)

Spec == Init /\ [][Next]_deliveryVars
=============================================================================
