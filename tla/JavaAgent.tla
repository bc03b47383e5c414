------------------------------ MODULE JavaAgent ------------------------------
(* The lifecycle of the Java A2A agent, Mq9A2AAgent, whose methods are       *)
(* chains of futures and whose heartbeat is a task of a scheduler with one   *)
(* thread.  The owner joins a method's future before it calls the next.      *)
EXTENDS AgentLife

(* createMailbox(): the continuation stores the address and starts the       *)
(* consume loop.                                                             *)
CreateDone ==
  /\ Answered("create")
  /\ mailbox' = TRUE /\ consumer' = "live"
  /\ call' = "idle"
  /\ UNCHANGED <<brokerVars, nc, beatVars, published>>

(* The scheduler runs the heartbeat, which blocks its thread till the reply. *)
Beat ==
  /\ nc = "open" /\ reporting = {}
  /\ \E h \in beating : reporting' = {h}
  /\ UNCHANGED <<brokerVars, ownVars, call, reply, heartbeat, beating, published>>

(* unregister(): cancel(false) lets a report that has begun run on.          *)
Unregister ==
  /\ call = "idle" /\ nc # "none"
  /\ beating' = beating \ {heartbeat} /\ heartbeat' = 0
  /\ SendUnregister
  /\ published' = FALSE
  /\ UNCHANGED <<brokerVars, ownVars, reporting>>

(* close() does not wait for the consume loop; shutting down the scheduler   *)
(* ends the periodic task.                                                   *)
CloseDone ==
  /\ call = "close"
  /\ nc' = "closed" /\ call' = "idle"
  /\ beating' = {}
  /\ published' = FALSE
  /\ UNCHANGED <<brokerVars, mailbox, consumer, reply, heartbeat, reporting>>
=============================================================================
