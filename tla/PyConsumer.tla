----------------------------- MODULE PyConsumer ------------------------------
(* The consume loop and the Consumer handle of the Python SDK                *)
(* (python/mq9/client.py).  The loop is an asyncio task: stop() cancels it,  *)
(* and CancelledError is raised at the await where the loop happens to be.   *)
EXTENDS ConsumeLoop

Awaits == {"fetch", "sleep", "handler", "ack", "error_handler"}

(* The loop is at this await and no cancellation is on its way.              *)
At(label) == pc = label /\ stop # "requested"

Init == LoopInit

Consume == StartLoop("fetch")

Fetch == At("fetch") /\ FetchAnswered("fetch", "handler")

FetchError == At("fetch") /\ CanLose /\ GoTo("sleep")

Wake == At("sleep") /\ GoTo("fetch")

HandlerOk ==
  /\ At("handler")
  /\ HandlerReturned
  /\ IF AutoAck
     THEN pc' = "ack" /\ ack' = "sent" /\ UNCHANGED <<batch, pos, count, counted>>
     ELSE NextMessage("handler", "fetch") /\ Counted /\ UNCHANGED ack
  /\ UNCHANGED <<mailboxVars, running, stop>>

(* processed_count comes after the ACK.                                      *)
AckOk ==
  /\ At("ack") /\ ack = "applied"
  /\ ack' = "none"
  /\ Counted
  /\ NextMessage("handler", "fetch")
  /\ UNCHANGED <<mailboxVars, running, stop, history>>

(* except Exception: a failed handler and a failed ACK end up here alike.    *)
OnError == IF HasErrorHandler
           THEN pc' = "error_handler" /\ UNCHANGED <<batch, pos>>
           ELSE NextMessage("handler", "fetch")

(* Faulty: a message whose handler failed is acknowledged, too.              *)
HandlerErrorAcks ==
  /\ At("handler")
  /\ HandlerFailed
  /\ pc' = "ack" /\ ack' = "sent"
  /\ UNCHANGED <<mailboxVars, batch, pos, count, running, stop, counted>>

HandlerError ==
  /\ At("handler")
  /\ HandlerFailed
  /\ OnError
  /\ UNCHANGED <<mailboxVars, ack, count, running, stop, counted>>

(* Faulty: a failed ACK does not keep the message from being counted.        *)
AckErrorCounts ==
  /\ At("ack") /\ CanLose
  /\ AbandonAck
  /\ Counted
  /\ OnError
  /\ UNCHANGED <<log, offset, running, stop, history>>

(* Faulty: the ACK has no timeout.                                           *)
AckErrorWaits ==
  /\ At("ack") /\ CanLose
  /\ AbandonAck
  /\ UNCHANGED <<log, offset, pc, batch, pos, count, running, stop, history, counted>>

AckError ==
  /\ At("ack") /\ CanLose
  /\ AbandonAck
  /\ OnError
  /\ UNCHANGED <<log, offset, count, running, stop, history, counted>>

(* The error handler returned, or raised an Exception, which is dropped.     *)
ErrorHandled ==
  /\ At("error_handler")
  /\ NextMessage("handler", "fetch")
  /\ UNCHANGED <<mailboxVars, ack, count, running, stop, history, counted>>

(* Faulty: the ACK is in a finally clause and is sent on cancellation, too.  *)
CancelledAcks ==
  /\ stop = "requested" /\ pc \in Awaits
  /\ pc' = "done" /\ ack' = "none"
  /\ late' = IF InBatch THEN late \cup {Current} ELSE late
  /\ UNCHANGED <<log, offset, batch, pos, count, running, stop, history, counted>>

(* CancelledError leaves the loop: raised by stop(), or by the handler's own *)
(* awaiting of something cancelled, which `except Exception` does not catch. *)
Cancelled ==
  /\ \/ stop = "requested" /\ pc \in Awaits
     \/ stop = "none" /\ pc \in {"handler", "error_handler"} /\ CanPanic
  /\ pc' = "done"
  /\ AbandonAck
  /\ UNCHANGED <<log, offset, batch, pos, count, running, stop, history, counted>>

Stop == StopCalled /\ UNCHANGED running

StopReturn == StopReturned /\ running' = FALSE

Loop ==
  \/ Fetch \/ FetchError \/ Wake \/ HandlerOk \/ HandlerError
  \/ AckOk \/ AckError \/ ErrorHandled \/ Cancelled

Next == Broker \/ Consume \/ Loop \/ Stop \/ StopReturn \/ Crash

Spec == Init /\ [][Next]_vars
-----------------------------------------------------------------------------
TypeOK ==
  /\ TypeOKLoop
  /\ pc \in Awaits \cup {"off", "done"}
  /\ pc \in {"handler", "ack", "error_handler"} => InBatch
  /\ pc \in {"ack", "error_handler"} => Current \in attempted
  /\ ack # "none" => pc = "ack"
=============================================================================
