---------------------------- MODULE RustConsumer -----------------------------
(* The consume loop and the Consumer handle of the Rust SDK                  *)
(* (rust/src/client.rs, rust/src/types.rs).  The loop is a tokio task that   *)
(* polls a oneshot channel before a fetch and before a message; stop() takes *)
(* the handle, sends on the channel and joins the task.                      *)
EXTENDS ConsumeLoop

Places == {"top", "fetch", "sleep", "msg", "call", "handler", "ack"}

Init == LoopInit

Consume == StartLoop("top")

Return == Leave

(* Faulty: the loop's head does not look at the stop signal.                 *)
TopBlind == pc = "top" /\ GoTo("fetch")

Top ==
  /\ pc = "top"
  /\ IF stop = "requested" THEN Return ELSE GoTo("fetch")

Fetch == pc = "fetch" /\ FetchAnswered("top", "msg")

FetchError == pc = "fetch" /\ CanLose /\ GoTo("sleep")

(* The sleep is not cut short by a stop.                                     *)
Wake == pc = "sleep" /\ GoTo("top")

CheckMessage ==
  /\ pc = "msg"
  /\ IF stop = "requested" THEN Return ELSE GoTo("call")

(* A stop may come between the look at the signal and the call.              *)
CallHandler == pc = "call" /\ GoTo("handler")

HandlerOk ==
  /\ pc = "handler"
  /\ HandlerReturned
  /\ CountUp
  /\ IF AutoAck
     THEN pc' = "ack" /\ ack' = "sent" /\ UNCHANGED <<batch, pos>>
     ELSE NextMessage("msg", "top") /\ UNCHANGED ack
  /\ UNCHANGED <<mailboxVars, running, stop, counted>>

HandlerError ==
  /\ pc = "handler"
  /\ HandlerFailed
  /\ NextMessage("msg", "top")
  /\ UNCHANGED <<mailboxVars, ack, count, running, stop, counted>>

(* A panic unwinds the task, past the store that lowers the running flag.    *)
HandlerPanic == pc = "handler" /\ CanPanic /\ GoTo("done")

AckOk ==
  /\ pc = "ack" /\ ack = "applied"
  /\ ack' = "none"
  /\ NextMessage("msg", "top")
  /\ UNCHANGED <<mailboxVars, count, running, stop, history, counted>>

AckError ==
  /\ pc = "ack" /\ CanLose
  /\ AbandonAck
  /\ NextMessage("msg", "top")
  /\ UNCHANGED <<log, offset, count, running, stop, history, counted>>

(* A send to a task that has ended fails, and is ignored.                    *)
Stop == StopCalled /\ UNCHANGED running

(* The join returns, with or without a panic, and the handle is gone.        *)
StopReturn == StopReturned /\ UNCHANGED running

Loop ==
  \/ Top \/ Fetch \/ FetchError \/ Wake \/ CheckMessage \/ CallHandler
  \/ HandlerOk \/ HandlerError \/ HandlerPanic \/ AckOk \/ AckError

Next == Broker \/ Consume \/ Loop \/ Stop \/ StopReturn \/ Crash

Spec == Init /\ [][Next]_vars
-----------------------------------------------------------------------------
TypeOK ==
  /\ TypeOKLoop
  /\ pc \in Places \cup {"off", "done"}
  /\ pc \in {"msg", "call", "handler", "ack"} => InBatch
  /\ ack # "none" => pc = "ack"
=============================================================================
