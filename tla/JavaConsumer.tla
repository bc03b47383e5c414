---------------------------- MODULE JavaConsumer -----------------------------
(* The consume loop of the Java SDK (Mq9Client.java, Consumer.java).  The    *)
(* loop is a virtual thread; stop() lowers the running flag, which the loop  *)
(* reads before a fetch, after a failed one and before a message, and hands  *)
(* out the future that the loop completes when it exits.                     *)
EXTENDS ConsumeLoop

Places == {"top", "fetch", "sleep", "msg", "call", "handler", "ack"}

Init == LoopInit

Consume == StartLoop("top")

(* finally: the flag goes down, doneFuture is completed.                     *)
Finally == Leave

Top ==
  /\ pc = "top"
  /\ IF running THEN GoTo("fetch") ELSE Finally

Fetch == pc = "fetch" /\ FetchAnswered("top", "msg")

FetchError ==
  /\ pc = "fetch" /\ CanLose
  /\ IF running THEN GoTo("sleep") ELSE Finally

(* sleepQuietly: a stop does not interrupt it.                               *)
Wake == pc = "sleep" /\ GoTo("top")

(* break leaves the batch; the loop's head then ends the loop.               *)
CheckMessage ==
  /\ pc = "msg"
  /\ IF running
     THEN pc' = "call" /\ UNCHANGED <<batch, pos>>
     ELSE pc' = "top" /\ pos' = 1 /\ batch' = <<>>
  /\ UNCHANGED <<mailboxVars, ack, count, running, stop, history, counted>>

(* A stop may come between the look at the flag and the call.                *)
CallHandler == pc = "call" /\ GoTo("handler")

(* Faulty: the ACK is sent and not waited for.                               *)
HandlerOkNoWait ==
  /\ pc = "handler"
  /\ HandlerReturned
  /\ CountUp
  /\ late' = late \cup {Current}
  /\ NextMessage("msg", "top")
  /\ UNCHANGED <<log, offset, ack, running, stop, counted>>

HandlerOk ==
  /\ pc = "handler"
  /\ HandlerReturned
  /\ CountUp
  /\ IF AutoAck
     THEN pc' = "ack" /\ ack' = "sent" /\ UNCHANGED <<batch, pos>>
     ELSE NextMessage("msg", "top") /\ UNCHANGED ack
  /\ UNCHANGED <<mailboxVars, running, stop, counted>>

(* The failure goes to errorHandler, whose own failure is logged, or to the  *)
(* log.                                                                      *)
HandlerError ==
  /\ pc = "handler"
  /\ HandlerFailed
  /\ NextMessage("msg", "top")
  /\ UNCHANGED <<mailboxVars, ack, count, running, stop, counted>>

(* An Error is not an Exception: it ends the thread, through the finally.    *)
HandlerDies == pc = "handler" /\ CanPanic /\ Finally

AckOk ==
  /\ pc = "ack" /\ ack = "applied"
  /\ ack' = "none"
  /\ NextMessage("msg", "top")
  /\ UNCHANGED <<mailboxVars, count, running, stop, history, counted>>

AckError ==
  /\ pc = "ack" /\ CanLose
  /\ AbandonAck
  /\ NextMessage("msg", "top")
  /\ UNCHANGED <<log, offset, count, running, stop, history, counted>>

Stop == StopCalled /\ running' = FALSE

(* The future of stop() is complete.                                         *)
StopReturn == StopReturned /\ UNCHANGED running

Loop ==
  \/ Top \/ Fetch \/ FetchError \/ Wake \/ CheckMessage \/ CallHandler
  \/ HandlerOk \/ HandlerError \/ HandlerDies \/ AckOk \/ AckError

Next == Broker \/ Consume \/ Loop \/ Stop \/ StopReturn \/ Crash

Spec == Init /\ [][Next]_vars
-----------------------------------------------------------------------------
TypeOK ==
  /\ TypeOKLoop
  /\ pc \in Places \cup {"off", "done"}
  /\ pc \in {"msg", "call", "handler", "ack"} => InBatch
  /\ ack # "none" => pc = "ack"
=============================================================================
