----------------------------- MODULE AlarmPanel -----------------------------
(***************************************************************************)
(* What the alert subsystem promises an operator: one alarm per parameter. *)
(* It is raised by the first abnormal reading, reassessed by the following *)
(* ones, acknowledged by an operator, and cleared by a normal reading or   *)
(* by a technologist.  Reassessing an alarm does not take back its         *)
(* acknowledgement, and an alarm that is not raised cannot be acknowledged.*)
(***************************************************************************)
CONSTANT Parameters

VARIABLE alarm   \* the alarm of every parameter

Levels == {"warning", "critical"}

NoAlarm == [status |-> "none", level |-> "none"]

Alarm == {NoAlarm} \cup [status : {"active", "acknowledged"}, level : Levels]

PanelTypeOK == alarm \in [Parameters -> Alarm]

Init == alarm = [p \in Parameters |-> NoAlarm]

Raise(p, level) ==
  /\ alarm[p] = NoAlarm
  /\ alarm' = [alarm EXCEPT ![p] = [status |-> "active", level |-> level]]

Reassess(p, level) ==
  /\ alarm[p] # NoAlarm
  /\ alarm' = [alarm EXCEPT ![p].level = level]

Clear(p) ==
  /\ alarm[p] # NoAlarm
  /\ alarm' = [alarm EXCEPT ![p] = NoAlarm]

AcknowledgeAlarm(p) ==
  /\ alarm[p] # NoAlarm
  /\ alarm' = [alarm EXCEPT ![p].status = "acknowledged"]

Next ==
  \E p \in Parameters :
    \/ \E level \in Levels : Raise(p, level) \/ Reassess(p, level)
    \/ Clear(p)
    \/ AcknowledgeAlarm(p)

Spec == Init /\ [][Next]_alarm
=============================================================================
