------------------------------ MODULE Pipeline ------------------------------
(***************************************************************************)
(* The telemetry pipeline in the life of the server: startTelemetryPipeline *)
(* and Run (internal/app/server).  The bridge and the consumer meet in the *)
(* topic; a signal cancels the context of both, a goroutine closes the     *)
(* writer and then the reader, and Run returns when the HTTP server has    *)
(* shut down, without waiting for any of them.                             *)
(***************************************************************************)
EXTENDS Bridge, Consumer

CONSTANT MaxStarts   \* bound on the restarts and rebalances

ASSUME PipelineAssumption == MaxStarts \in Nat

vars == <<topicVars, bridgeVars, consumerVars>>

TypeOK == BridgeTypeOK /\ ConsumerTypeOK

Init == BridgeInit /\ ConsumerInit

-----------------------------------------------------------------------------
(* The closing goroutine has waited for Producer.Close, which returns when *)
(* the writer has flushed its queues.                                      *)
CloseConsumer ==
  /\ writer = "closed"
  /\ \A p \in Partitions : queue[p] = << >>
  /\ CloseReader
  /\ UNCHANGED bridgeVars

(* The process is gone, and with it what was in memory.                    *)
Gone ==
  /\ server' = "down"
  /\ link' = "off"
  /\ starter' = "ended"
  /\ inbox' = << >>
  /\ waiting' = NoPartition
  /\ queue' = [p \in Partitions |-> << >>]
  /\ writer' = "closed"
  /\ at' = "ended"
  /\ held' = Nothing
  /\ reader' = "closed"
  /\ UNCHANGED <<log, sent, sessionVars, historyVars>>

(* Run returns, whatever the other goroutines are doing. *)
Exit ==
  /\ server = "stopping"
  /\ Gone
  /\ UNCHANGED faults

(* The process is killed, or Run returns the error of ListenAndServe. *)
Crash ==
  /\ server # "down"
  /\ Fault
  /\ Gone

(* Run, again.  The client connects, the reader starts at the committed    *)
(* offsets.                                                                *)
Start ==
  /\ server = "down"
  /\ starts < MaxStarts
  /\ server' = "running"
  /\ link' = "connecting"
  /\ starter' = "waiting"
  /\ writer' = "open"
  /\ at' = "fetch"
  /\ reader' = "open"
  /\ position' = committed
  /\ starts' = starts + 1
  /\ UNCHANGED <<log, faults, sent, inbox, waiting, queue, committed, held,
                 rebalances, historyVars>>

-----------------------------------------------------------------------------
Next ==
  \/ BridgeStep /\ UNCHANGED consumerVars
  \/ LoopStep /\ UNCHANGED bridgeVars
  \/ starts < MaxStarts /\ Rebalance /\ UNCHANGED bridgeVars
  \/ Cancel /\ UNCHANGED <<bridgeVars, consumerVars>>
  \/ CloseConsumer
  \/ Exit
  \/ Crash
  \/ Start

Spec == Init /\ [][Next]_vars

(* The loop of the consumer runs; the brokers and the database can be      *)
(* reached, except for the faults.  Nobody restarts the server for sure.   *)
FairSpec ==
  /\ Spec
  /\ WF_vars(LoopStep /\ UNCHANGED bridgeVars)
  /\ WF_vars(ClientStep /\ UNCHANGED consumerVars)

-----------------------------------------------------------------------------
D == INSTANCE Delivery WITH
  length  <- [p \in Partitions |-> Len(log[p])],
  tried   <- [p \in Partitions |-> {o \in AllOffsets : attempts[p][o] # "none"}],
  settled <- handled,
  offset  <- committed

(* The pipeline keeps the promises of Delivery. *)
ImplementsDelivery == D!Spec
=============================================================================
