----------------------------- MODULE CsConsumer ------------------------------
(* The consume loop and the Consumer handle of the C# SDK (csharp/Mq9/       *)
(* Client.cs, Types.cs).  StopAsync cancels a token that ends a fetch, a     *)
(* delay and also an ACK under way, and that the loop reads before a fetch   *)
(* and before a message; then it awaits the loop's task.                     *)
EXTENDS ConsumeLoop

Places == {"top", "fetch", "sleep", "msg", "call", "handler", "ack", "error_handler"}

Init == LoopInit

Consume == StartLoop("top")

(* The task has completed, and IsRunning is false with it.                   *)
Return == Leave

Top ==
  /\ pc = "top"
  /\ IF stop = "requested" THEN Return ELSE GoTo("fetch")

Fetch == pc = "fetch" /\ FetchAnswered("top", "msg")

FetchError == pc = "fetch" /\ CanLose /\ GoTo("sleep")

(* OperationCanceledException from the fetch or from the delay.              *)
Cancelled ==
  /\ pc \in {"fetch", "sleep"} /\ stop = "requested"
  /\ Return

Wake == pc = "sleep" /\ GoTo("top")

CheckMessage ==
  /\ pc = "msg"
  /\ IF stop = "requested" THEN Return ELSE GoTo("call")

(* A stop may come between the look at the signal and the call.              *)
CallHandler == pc = "call" /\ GoTo("handler")

(* AckAsync is called with the token: once StopAsync has cancelled it, the   *)
(* request may fail before anything is sent.                                 *)
HandlerOk ==
  /\ pc = "handler"
  /\ HandlerReturned
  /\ CountUp
  /\ IF AutoAck
     THEN /\ pc' = "ack"
          /\ ack' \in (IF stop = "requested" THEN {"none", "sent"} ELSE {"sent"})
          /\ UNCHANGED <<batch, pos>>
     ELSE NextMessage("msg", "top") /\ UNCHANGED ack
  /\ UNCHANGED <<mailboxVars, running, stop, counted>>

AckOk ==
  /\ pc = "ack" /\ ack = "applied"
  /\ ack' = "none"
  /\ NextMessage("msg", "top")
  /\ UNCHANGED <<mailboxVars, count, running, stop, history, counted>>

(* catch (Exception): a failed handler, a failed ACK and an ACK cancelled by *)
(* StopAsync end up here alike.                                              *)
OnError == IF HasErrorHandler
           THEN pc' = "error_handler" /\ UNCHANGED <<batch, pos>>
           ELSE NextMessage("msg", "top")

(* Faulty: a message whose handler failed is acknowledged, too.              *)
HandlerErrorAcks ==
  /\ pc = "handler"
  /\ HandlerFailed
  /\ pc' = "ack" /\ ack' = "sent"
  /\ UNCHANGED <<mailboxVars, batch, pos, count, running, stop, counted>>

HandlerError ==
  /\ pc = "handler"
  /\ HandlerFailed
  /\ OnError
  /\ UNCHANGED <<mailboxVars, ack, count, running, stop, counted>>

AckError ==
  /\ pc = "ack"
  /\ CanLose \/ stop = "requested"
  /\ AbandonAck
  /\ OnError
  /\ UNCHANGED <<log, offset, count, running, stop, history, counted>>

ErrorHandled ==
  /\ pc = "error_handler"
  /\ NextMessage("msg", "top")
  /\ UNCHANGED <<mailboxVars, ack, count, running, stop, history, counted>>

(* What ErrorHandler throws is not caught: the task faults.                  *)
ErrorHandlerThrows ==
  /\ pc = "error_handler" /\ CanFail
  /\ Return

Stop == StopCalled /\ UNCHANGED running

(* StopAsync returns, or throws what the task faulted with.                  *)
StopReturn == StopReturned /\ UNCHANGED running

Loop ==
  \/ Top \/ Fetch \/ FetchError \/ Cancelled \/ Wake \/ CheckMessage \/ CallHandler
  \/ HandlerOk \/ AckOk \/ HandlerError \/ AckError
  \/ ErrorHandled \/ ErrorHandlerThrows

Next == Broker \/ Consume \/ Loop \/ Stop \/ StopReturn \/ Crash

Spec == Init /\ [][Next]_vars
-----------------------------------------------------------------------------
TypeOK ==
  /\ TypeOKLoop
  /\ pc \in Places \cup {"off", "done"}
  /\ pc \in {"msg", "call", "handler", "ack", "error_handler"} => InBatch
  /\ ack # "none" => pc = "ack"
=============================================================================
