----------------------------- MODULE GoConsumer ------------------------------
(* The consume loop and the Consumer handle of the Go SDK (go/client.go,     *)
(* go/types.go).  The loop is a goroutine; Stop closes a channel that the    *)
(* loop looks at before a fetch, before a message and while it sleeps, and   *)
(* waits for the goroutine.                                                  *)
EXTENDS ConsumeLoop

Places == {"top", "fetch", "sleep", "msg", "call", "handler", "ack"}

Init == LoopInit

Consume == StartLoop("top")

(* Faulty: the goroutine returns without lowering the running flag.          *)
ReturnStaysRunning == GoTo("done")

(* The deferred calls: the running flag goes down before wg.Done lets Stop   *)
(* return.                                                                   *)
Return == Leave

Top ==
  /\ pc = "top"
  /\ IF stop = "requested" THEN Return ELSE GoTo("fetch")

Fetch == pc = "fetch" /\ FetchAnswered("top", "msg")

FetchError == pc = "fetch" /\ CanLose /\ GoTo("sleep")

Sleep ==
  /\ pc = "sleep"
  /\ GoTo("top") \/ (stop = "requested" /\ Return)

CheckMessage ==
  /\ pc = "msg"
  /\ IF stop = "requested" THEN Return ELSE GoTo("call")

(* A stop may come between the look at the signal and the call.              *)
CallHandler == pc = "call" /\ GoTo("handler")

HandlerOk ==
  /\ pc = "handler"
  /\ HandlerReturned
  /\ CountUp
  /\ IF AutoAck
     THEN pc' = "ack" /\ ack' = "sent" /\ UNCHANGED <<batch, pos>>
     ELSE NextMessage("msg", "top") /\ UNCHANGED ack
  /\ UNCHANGED <<mailboxVars, running, stop, counted>>

(* The error goes to opts.ErrorHandler or to the log.                        *)
HandlerError ==
  /\ pc = "handler"
  /\ HandlerFailed
  /\ NextMessage("msg", "top")
  /\ UNCHANGED <<mailboxVars, ack, count, running, stop, counted>>

AckOk ==
  /\ pc = "ack" /\ ack = "applied"
  /\ ack' = "none"
  /\ NextMessage("msg", "top")
  /\ UNCHANGED <<mailboxVars, count, running, stop, history, counted>>

(* A failed ACK is logged, and the message left for redelivery.              *)
AckError ==
  /\ pc = "ack" /\ CanLose
  /\ AbandonAck
  /\ NextMessage("msg", "top")
  /\ UNCHANGED <<log, offset, count, running, stop, history, counted>>

Stop == StopCalled /\ UNCHANGED running

StopReturn == StopReturned /\ UNCHANGED running

Loop ==
  \/ Top \/ Fetch \/ FetchError \/ Sleep \/ CheckMessage \/ CallHandler
  \/ HandlerOk \/ HandlerError \/ AckOk \/ AckError

Next == Broker \/ Consume \/ Loop \/ Stop \/ StopReturn \/ Crash

Spec == Init /\ [][Next]_vars
-----------------------------------------------------------------------------
TypeOK ==
  /\ TypeOKLoop
  /\ pc \in Places \cup {"off", "done"}
  /\ pc \in {"msg", "call", "handler", "ack"} => InBatch
  /\ ack # "none" => pc = "ack"
=============================================================================
