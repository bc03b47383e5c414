----------------------------- MODULE JsConsumer ------------------------------
(* The consume loop and the Consumer handle of the JavaScript SDK            *)
(* (javascript/src/client.ts).  stop() lowers the running flag, ends a sleep *)
(* that is under way, and resolves when the loop has left its while.         *)
EXTENDS ConsumeLoop

Places == {"top", "fetch", "sleep", "msg", "handler", "ack", "error_handler"}

Init == LoopInit

Consume == StartLoop("top")

(* while (!_shouldStop()) ... _markStopped()                                 *)
Top ==
  /\ pc = "top"
  /\ GoTo(IF running THEN "fetch" ELSE "done")

(* An empty answer is followed by a short sleep.                             *)
Fetch == pc = "fetch" /\ FetchAnswered("sleep", "msg")

FetchError == pc = "fetch" /\ CanLose /\ GoTo("sleep")

(* The timer of _interruptibleSleep fires, or stop() has resolved it.        *)
Wake == pc = "sleep" /\ GoTo("top")

(* Faulty: no look at the stop signal between two messages.                  *)
CheckMessageBlind == pc = "msg" /\ GoTo("handler")

CheckMessage ==
  /\ pc = "msg"
  /\ IF running
     THEN pc' = "handler" /\ UNCHANGED <<batch, pos>>
     ELSE pc' = "top" /\ pos' = 1 /\ batch' = <<>>
  /\ UNCHANGED <<mailboxVars, ack, count, running, stop, history, counted>>

HandlerOk ==
  /\ pc = "handler"
  /\ HandlerReturned
  /\ IF AutoAck
     THEN pc' = "ack" /\ ack' = "sent" /\ UNCHANGED <<batch, pos, count, counted>>
     ELSE NextMessage("msg", "top") /\ Counted /\ UNCHANGED ack
  /\ UNCHANGED <<mailboxVars, running, stop>>

(* _incrementProcessed comes after the ACK.                                  *)
AckOk ==
  /\ pc = "ack" /\ ack = "applied"
  /\ ack' = "none"
  /\ Counted
  /\ NextMessage("msg", "top")
  /\ UNCHANGED <<mailboxVars, running, stop, history>>

(* catch: a failed handler and a failed ACK end up here alike.               *)
OnError == IF HasErrorHandler
           THEN pc' = "error_handler" /\ UNCHANGED <<batch, pos>>
           ELSE NextMessage("msg", "top")

HandlerError ==
  /\ pc = "handler"
  /\ HandlerFailed
  /\ OnError
  /\ UNCHANGED <<mailboxVars, ack, count, running, stop, counted>>

AckError ==
  /\ pc = "ack" /\ CanLose
  /\ AbandonAck
  /\ OnError
  /\ UNCHANGED <<log, offset, count, running, stop, history, counted>>

(* errorHandler settled; what it throws is logged.                           *)
ErrorHandled ==
  /\ pc = "error_handler"
  /\ NextMessage("msg", "top")
  /\ UNCHANGED <<mailboxVars, ack, count, running, stop, history, counted>>

Stop == StopCalled /\ running' = FALSE

(* The promise _stopped has resolved.                                        *)
StopReturn == StopReturned /\ UNCHANGED running

Loop ==
  \/ Top \/ Fetch \/ FetchError \/ Wake \/ CheckMessage \/ HandlerOk
  \/ HandlerError \/ AckOk \/ AckError \/ ErrorHandled

Next == Broker \/ Consume \/ Loop \/ Stop \/ StopReturn \/ Crash

Spec == Init /\ [][Next]_vars
-----------------------------------------------------------------------------
TypeOK ==
  /\ TypeOKLoop
  /\ pc \in Places \cup {"off", "done"}
  /\ pc \in {"msg", "handler", "ack", "error_handler"} => InBatch
  /\ ack # "none" => pc = "ack"
=============================================================================
