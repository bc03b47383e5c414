------------------------------- MODULE PyAgent -------------------------------
(* The lifecycle of the Python A2A agent, Mq9A2AAgent.  AgentLife has the    *)
(* state and the steps it shares with the Java agent.                        *)
EXTENDS AgentLife

(* Faulty: the tasks mailbox is asked for like the inbox.                    *)
FaultyCreateDone ==
  /\ call = "create" /\ reply = "applied"
  /\ mailbox' = TRUE
  /\ Ask("tasks")
  /\ UNCHANGED <<brokerVars, nc, consumer, beatVars, published>>

(* create_mailbox(): the inbox is known as soon as its request is answered;  *)
(* then the tasks mailbox is asked for, and whatever comes of that, the      *)
(* consume loop is started.                                                  *)
CreateDone ==
  /\ Answered("create")
  /\ mailbox' = TRUE
  /\ call' = "tasks"
  /\ UNCHANGED <<brokerVars, nc, consumer, beatVars, published>>

(* Faulty: a tasks mailbox that cannot be created fails create_mailbox().    *)
FaultyTasksDone ==
  /\ call = "tasks"
  /\ call' = "idle"
  /\ consumer' \in {consumer, "live"}
  /\ UNCHANGED <<brokerVars, nc, mailbox, reply, beatVars, published>>

TasksDone ==
  /\ call = "tasks"
  /\ call' = "idle"
  /\ consumer' = "live"
  /\ UNCHANGED <<brokerVars, nc, mailbox, reply, beatVars, published>>

(* The heartbeat's task has slept and reports.  On a closed connection it    *)
(* only logs the error.                                                      *)
Beat ==
  /\ nc = "open" /\ mailbox
  /\ \E h \in beating \ reporting : reporting' = reporting \cup {h}
  /\ UNCHANGED <<brokerVars, ownVars, call, reply, heartbeat, beating, published>>

(* Faulty: unregister() leaves the heartbeat alone.                          *)
FaultyUnregister ==
  /\ call = "idle" /\ nc # "none"
  /\ SendUnregister
  /\ published' = FALSE
  /\ UNCHANGED <<brokerVars, ownVars, beatVars>>

(* unregister(): the task is cancelled and awaited before the request is     *)
(* sent; the handle is kept.                                                 *)
Unregister ==
  /\ call = "idle" /\ nc # "none"
  /\ beating' = beating \ {heartbeat}
  /\ reporting' = reporting \ {heartbeat}
  /\ SendUnregister
  /\ published' = FALSE
  /\ UNCHANGED <<brokerVars, ownVars, heartbeat>>

(* close() has waited for the consume loop; the heartbeat's task goes on.    *)
CloseDone ==
  /\ call = "close" /\ consumer # "stopping"
  /\ nc' = "closed" /\ call' = "idle"
  /\ published' = FALSE
  /\ UNCHANGED <<brokerVars, mailbox, consumer, reply, beatVars>>
=============================================================================
