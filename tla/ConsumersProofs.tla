--------------------------- MODULE ConsumersProofs ---------------------------
(* Proofs about all six consume loops behind one group, for any number of    *)
(* messages, any batch size, any set of SDKs that take turns, and any        *)
(* failures, losses and crashes.  The steps of the SDKs are sorted into six  *)
(* kinds; the invariants are proved once for the kinds.                      *)
EXTENDS Consumers, ConsumeLoopProofs

(* What the six loops have in common: where a loop may be when it has a      *)
(* message in hand, and that it waits for an ACK at one place only.          *)
Shape ==
  /\ TypeOKLoop
  /\ pc \in {"msg", "call", "handler", "ack", "error_handler"} => InBatch
  /\ pc \in {"ack", "error_handler"} => Current \in attempted
  /\ ack # "none" => pc = "ack"

(* The places of each SDK's loop.                                            *)
PlacesOf(name) ==
  CASE name = "py" -> {"fetch", "sleep", "handler", "ack", "error_handler"}
    [] name \in {"go", "rust", "java"} ->
         {"top", "fetch", "sleep", "msg", "call", "handler", "ack"}
    [] name = "js" ->
         {"top", "fetch", "sleep", "msg", "handler", "ack", "error_handler"}
    [] name = "cs" ->
         {"top", "fetch", "sleep", "msg", "call", "handler", "ack", "error_handler"}

InPlace == pc \in PlacesOf(sdk) \cup {"off", "done"}

(* The flag is the stop signal of the Java and the JavaScript loop.          *)
StopSeen == sdk \in {"java", "js"} /\ stop = "requested" => running = FALSE

ConsumersInv ==
  /\ sdk \in SDKs /\ Shape /\ InPlace /\ DeliveryInv
  /\ StopSeen /\ HandleIsExact

(* The kinds of step.  MovesOn: the message in hand is done with.            *)
MovesOn ==
  \/ NextMessage("msg", "top") \/ NextMessage("handler", "fetch")
  \/ pc' = "error_handler" /\ UNCHANGED <<batch, pos>>

MayCount ==
  \/ UNCHANGED count /\ UNCHANGED counted
  \/ CountUp /\ UNCHANGED counted
  \/ Counted /\ Current \in handled'

(* A message goes into the history of counts only after its ACK.             *)
CountsAcked ==
  \/ UNCHANGED counted
  \/ /\ pc = "ack" /\ ack = "applied"
     /\ NextMessage("msg", "top") \/ NextMessage("handler", "fetch")

(* The loop goes to another place, or ends, at a message or between two.     *)
Goes ==
  /\ AbandonAck
  /\ \/ pc' \in {"top", "fetch", "sleep", "done"}
     \/ pc = "msg" /\ pc' \in {"call", "handler"}
     \/ pc = "call" /\ pc' = "handler"
  /\ running' \in {running, FALSE}
  /\ UNCHANGED <<log, offset, batch, pos, count, stop, history, counted>>

Fetches ==
  /\ pc = "fetch"
  /\ \/ FetchAnswered("top", "msg")
     \/ FetchAnswered("sleep", "msg")
     \/ FetchAnswered("fetch", "handler")

(* The rest of the batch is dropped.                                         *)
Breaks ==
  /\ pc = "msg" /\ pc' = "top" /\ batch' = <<>> /\ pos' = 1
  /\ UNCHANGED <<mailboxVars, ack, count, running, stop, history, counted>>

Returns ==
  /\ pc = "handler"
  /\ HandlerReturned /\ MayCount
  /\ \/ pc' = "ack" /\ ack' \in {"none", "sent"} /\ UNCHANGED <<batch, pos>>
     \/ ack' = "none" /\ MovesOn
  /\ UNCHANGED <<mailboxVars, running, stop>>

Fails ==
  /\ pc = "handler"
  /\ HandlerFailed
  /\ ack' = "none" /\ MovesOn
  /\ UNCHANGED <<mailboxVars, count, running, stop, counted>>

(* The ACK is applied or given up, or the error handler has returned.        *)
Settles ==
  /\ pc \in {"ack", "error_handler"}
  /\ AbandonAck /\ MayCount /\ MovesOn
  /\ UNCHANGED <<log, offset, running, stop, history>>

LoopKinds == Goes \/ Fetches \/ Breaks \/ Returns \/ Fails \/ Settles

(* With auto_ack, and nothing lost, a loop that waits for every ACK.         *)
Patient ==
  \/ Goes /\ ack = "none"
  \/ Fetches \/ Breaks \/ Fails
  \/ Returns /\ pc' = "ack" /\ ack' = "sent"
  \/ Settles /\ (pc = "ack" => ack = "applied" /\ pc' # "error_handler")

(* What keeps a handled message from being handled again: it is behind the   *)
(* offset, or it is the one in hand and its ACK is awaited.                  *)
OnceInv ==
  /\ late = {} /\ repeated = {}
  /\ pc = "ack" => ack # "none"
  /\ ack = "applied" => Current < offset
  /\ \A m \in handled : m < offset \/ (pc = "ack" /\ m = Current)
  /\ \A i \in pos..Len(batch) : batch[i] \in handled => i = pos /\ pc = "ack"

(* A message is let through to the handler only before stop().               *)
LetsThrough ==
  stop = "requested" /\ LetThrough' => LetThrough /\ UNCHANGED <<batch, pos>>

(* The steps of the Go loop.                                                 *)
LEMMA GoLoop ==
  ASSUME Shape, Go!Loop
  PROVE  /\ LoopKinds /\ (AutoAck /\ ~CanLose => Patient)
         /\ pc' \in PlacesOf("go") \cup {"done"}
         /\ LetsThrough /\ (AutoAck => CountsAcked)
         /\ (pc' = "done" /\ running' = FALSE) \/ (pc' # "done" /\ running' = running)
<1> USE DEF mailboxVars, history, Go!mailboxVars, Go!history, PlacesOf, LetsThrough,
            LetThrough, CountsAcked
<1>1. CASE Go!Top \/ Go!FetchError \/ Go!Sleep \/ Go!CheckMessage \/ Go!CallHandler
  <2>1. Goes /\ ack = "none"
    BY <1>1 DEF Go!Top, Go!FetchError, Go!Sleep,
       Go!CheckMessage, Go!CallHandler, Go!Return, Go!Leave, Go!GoTo, Goes, AbandonAck, Shape
  <2>2. QED
    BY <1>1, <2>1 DEF LoopKinds, Patient, Go!Top, Go!FetchError, Go!Sleep,
       Go!CheckMessage, Go!CallHandler, Go!Return, Go!Leave, Go!GoTo
<1>2. CASE Go!Fetch
  <2>1. Fetches
    BY <1>2 DEF Go!Fetch, Go!FetchAnswered, Go!Batches, Go!BatchesOf, Go!Pending, Go!Before,
       Fetches, FetchAnswered, Batches, BatchesOf, Pending, Before
  <2>2. QED
    BY <1>2, <2>1 DEF LoopKinds, Patient, Go!Fetch, Go!FetchAnswered
<1>3. CASE Go!HandlerOk
  <2>1. Returns /\ (AutoAck => pc' = "ack" /\ ack' = "sent")
    BY <1>3 DEF Go!HandlerOk, Go!HandlerReturned, Go!CountUp, Go!Current, Go!NextMessage,
       Returns, HandlerReturned, MayCount, CountUp, Current, MovesOn, NextMessage, Shape
  <2>2. QED
    BY <1>3, <2>1 DEF LoopKinds, Patient, Go!HandlerOk, Go!NextMessage
<1>4. CASE Go!HandlerError
  <2>1. Fails
    BY <1>4 DEF Go!HandlerError, Go!HandlerFailed, Go!Current, Go!NextMessage,
       Fails, HandlerFailed, Current, MovesOn, NextMessage, Shape
  <2>2. QED
    BY <1>4, <2>1 DEF LoopKinds, Patient, Go!HandlerError, Go!NextMessage
<1>5. CASE Go!AckOk \/ Go!AckError
  <2>1. Settles /\ (~CanLose => ack = "applied" /\ pc' # "error_handler")
    BY <1>5 DEF Go!AckOk, Go!AckError, Go!AbandonAck, Go!Current, Go!NextMessage,
       Settles, AbandonAck, MayCount, Current, MovesOn, NextMessage
  <2>2. QED
    BY <1>5, <2>1 DEF LoopKinds, Patient, Go!AckOk, Go!AckError, Go!NextMessage
<1>6. QED
  BY <1>1, <1>2, <1>3, <1>4, <1>5 DEF Go!Loop

(* The steps of the Rust loop, which a panic ends with the flag up.          *)
LEMMA RustLoop ==
  ASSUME Shape, Rust!Loop
  PROVE  /\ LoopKinds /\ (AutoAck /\ ~CanLose => Patient)
         /\ pc' \in PlacesOf("rust") \cup {"done"}
         /\ LetsThrough /\ (AutoAck => CountsAcked)
<1> USE DEF mailboxVars, history, Rust!mailboxVars, Rust!history, PlacesOf, LetsThrough,
            LetThrough, CountsAcked
<1>1. CASE Rust!Top \/ Rust!FetchError \/ Rust!Wake \/ Rust!CheckMessage
           \/ Rust!CallHandler \/ Rust!HandlerPanic
  <2>1. Goes /\ ack = "none"
    BY <1>1 DEF Rust!Top, Rust!FetchError, Rust!Wake, Rust!CheckMessage, Rust!CallHandler,
       Rust!HandlerPanic, Rust!Return, Rust!Leave, Rust!GoTo, Goes, AbandonAck, Shape
  <2>2. QED
    BY <1>1, <2>1 DEF LoopKinds, Patient, Rust!Top, Rust!FetchError, Rust!Wake,
       Rust!CheckMessage, Rust!CallHandler, Rust!HandlerPanic, Rust!Return, Rust!Leave, Rust!GoTo
<1>2. CASE Rust!Fetch
  <2>1. Fetches
    BY <1>2 DEF Rust!Fetch, Rust!FetchAnswered, Rust!Batches, Rust!BatchesOf, Rust!Pending,
       Rust!Before, Fetches, FetchAnswered, Batches, BatchesOf, Pending, Before
  <2>2. QED
    BY <1>2, <2>1 DEF LoopKinds, Patient, Rust!Fetch, Rust!FetchAnswered
<1>3. CASE Rust!HandlerOk
  <2>1. Returns /\ (AutoAck => pc' = "ack" /\ ack' = "sent")
    BY <1>3 DEF Rust!HandlerOk, Rust!HandlerReturned, Rust!CountUp, Rust!Current,
       Rust!NextMessage, Returns, HandlerReturned, MayCount, CountUp, Current, MovesOn,
       NextMessage, Shape
  <2>2. QED
    BY <1>3, <2>1 DEF LoopKinds, Patient, Rust!HandlerOk, Rust!NextMessage
<1>4. CASE Rust!HandlerError
  <2>1. Fails
    BY <1>4 DEF Rust!HandlerError, Rust!HandlerFailed, Rust!Current, Rust!NextMessage,
       Fails, HandlerFailed, Current, MovesOn, NextMessage, Shape
  <2>2. QED
    BY <1>4, <2>1 DEF LoopKinds, Patient, Rust!HandlerError, Rust!NextMessage
<1>5. CASE Rust!AckOk \/ Rust!AckError
  <2>1. Settles /\ (~CanLose => ack = "applied" /\ pc' # "error_handler")
    BY <1>5 DEF Rust!AckOk, Rust!AckError, Rust!AbandonAck, Rust!Current, Rust!NextMessage,
       Settles, AbandonAck, MayCount, Current, MovesOn, NextMessage
  <2>2. QED
    BY <1>5, <2>1 DEF LoopKinds, Patient, Rust!AckOk, Rust!AckError, Rust!NextMessage
<1>6. QED
  BY <1>1, <1>2, <1>3, <1>4, <1>5 DEF Rust!Loop

(* The steps of the Java loop, to which the flag is the stop signal.         *)
LEMMA JavaLoop ==
  ASSUME Shape, stop = "requested" => running = FALSE, Java!Loop
  PROVE  /\ LoopKinds /\ (AutoAck /\ ~CanLose => Patient)
         /\ pc' \in PlacesOf("java") \cup {"done"}
         /\ LetsThrough /\ (AutoAck => CountsAcked)
<1> USE DEF mailboxVars, history, Java!mailboxVars, Java!history, PlacesOf, LetsThrough,
            LetThrough, CountsAcked
<1>1. CASE Java!Top \/ Java!FetchError \/ Java!Wake \/ Java!CallHandler \/ Java!HandlerDies
  <2>1. Goes /\ ack = "none"
    BY <1>1 DEF Java!Top, Java!FetchError, Java!Wake, Java!CallHandler, Java!HandlerDies,
       Java!Finally, Java!Leave, Java!GoTo, Goes, AbandonAck, Shape
  <2>2. QED
    BY <1>1, <2>1 DEF LoopKinds, Patient, Java!Top, Java!FetchError, Java!Wake,
       Java!CallHandler, Java!HandlerDies, Java!Finally, Java!Leave, Java!GoTo
<1>2. CASE Java!CheckMessage
  <2>1. (Goes /\ ack = "none") \/ Breaks
    BY <1>2 DEF Java!CheckMessage, Goes, Breaks, AbandonAck, Shape
  <2>2. QED
    BY <1>2, <2>1 DEF LoopKinds, Patient, Java!CheckMessage
<1>3. CASE Java!Fetch
  <2>1. Fetches
    BY <1>3 DEF Java!Fetch, Java!FetchAnswered, Java!Batches, Java!BatchesOf, Java!Pending,
       Java!Before, Fetches, FetchAnswered, Batches, BatchesOf, Pending, Before
  <2>2. QED
    BY <1>3, <2>1 DEF LoopKinds, Patient, Java!Fetch, Java!FetchAnswered
<1>4. CASE Java!HandlerOk
  <2>1. Returns /\ (AutoAck => pc' = "ack" /\ ack' = "sent")
    BY <1>4 DEF Java!HandlerOk, Java!HandlerReturned, Java!CountUp, Java!Current,
       Java!NextMessage, Returns, HandlerReturned, MayCount, CountUp, Current, MovesOn,
       NextMessage, Shape
  <2>2. QED
    BY <1>4, <2>1 DEF LoopKinds, Patient, Java!HandlerOk, Java!NextMessage
<1>5. CASE Java!HandlerError
  <2>1. Fails
    BY <1>5 DEF Java!HandlerError, Java!HandlerFailed, Java!Current, Java!NextMessage,
       Fails, HandlerFailed, Current, MovesOn, NextMessage, Shape
  <2>2. QED
    BY <1>5, <2>1 DEF LoopKinds, Patient, Java!HandlerError, Java!NextMessage
<1>6. CASE Java!AckOk \/ Java!AckError
  <2>1. Settles /\ (~CanLose => ack = "applied" /\ pc' # "error_handler")
    BY <1>6 DEF Java!AckOk, Java!AckError, Java!AbandonAck, Java!Current, Java!NextMessage,
       Settles, AbandonAck, MayCount, Current, MovesOn, NextMessage
  <2>2. QED
    BY <1>6, <2>1 DEF LoopKinds, Patient, Java!AckOk, Java!AckError, Java!NextMessage
<1>7. QED
  BY <1>1, <1>2, <1>3, <1>4, <1>5, <1>6 DEF Java!Loop

(* The steps of the JavaScript loop, which counts after the ACK.             *)
LEMMA JsLoop ==
  ASSUME Shape, DeliveryInv, stop = "requested" => running = FALSE, Js!Loop
  PROVE  /\ LoopKinds /\ (AutoAck /\ ~CanLose => Patient)
         /\ pc' \in PlacesOf("js") \cup {"done"}
         /\ LetsThrough /\ (AutoAck => CountsAcked)
<1> USE DEF mailboxVars, history, Js!mailboxVars, Js!history, PlacesOf, LetsThrough,
            LetThrough, CountsAcked
<1>1. CASE Js!Top \/ Js!FetchError \/ Js!Wake
  <2>1. Goes /\ ack = "none"
    BY <1>1 DEF Js!Top, Js!FetchError, Js!Wake, Js!GoTo, Goes, AbandonAck, Shape
  <2>2. QED
    BY <1>1, <2>1 DEF LoopKinds, Patient, Js!Top, Js!FetchError, Js!Wake, Js!GoTo
<1>2. CASE Js!CheckMessage
  <2>1. (Goes /\ ack = "none") \/ Breaks
    BY <1>2 DEF Js!CheckMessage, Goes, Breaks, AbandonAck, Shape
  <2>2. QED
    BY <1>2, <2>1 DEF LoopKinds, Patient, Js!CheckMessage
<1>3. CASE Js!Fetch
  <2>1. Fetches
    BY <1>3 DEF Js!Fetch, Js!FetchAnswered, Js!Batches, Js!BatchesOf, Js!Pending,
       Js!Before, Fetches, FetchAnswered, Batches, BatchesOf, Pending, Before
  <2>2. QED
    BY <1>3, <2>1 DEF LoopKinds, Patient, Js!Fetch, Js!FetchAnswered
<1>4. CASE Js!HandlerOk
  <2>1. Returns /\ (AutoAck => pc' = "ack" /\ ack' = "sent")
    BY <1>4 DEF Js!HandlerOk, Js!HandlerReturned, Js!Counted, Js!CountUp, Js!Current, Js!NextMessage,
       Returns, HandlerReturned, MayCount, Counted, CountUp, Current, MovesOn, NextMessage, Shape
  <2>2. QED
    BY <1>4, <2>1 DEF LoopKinds, Patient, Js!HandlerOk, Js!NextMessage
<1>5. CASE Js!HandlerError
  <2>1. Fails
    BY <1>5 DEF Js!HandlerError, Js!HandlerFailed, Js!Current, Js!NextMessage, Js!OnError,
       Fails, HandlerFailed, Current, MovesOn, NextMessage, Shape
  <2>2. QED
    BY <1>5, <2>1 DEF LoopKinds, Patient, Js!HandlerError, Js!NextMessage, Js!OnError
<1>6. CASE Js!AckOk
  <2>1. Current \in handled
    BY <1>6 DEF Js!AckOk, DeliveryInv, AckedWasHandled
  <2>2. Settles /\ ack = "applied" /\ pc' # "error_handler"
    BY <1>6, <2>1 DEF Js!AckOk, Js!Counted, Js!CountUp, Js!Current, Js!NextMessage,
       Settles, AbandonAck, MayCount, Counted, CountUp, Current, MovesOn, NextMessage
  <2>3. QED
    BY <1>6, <2>2 DEF LoopKinds, Patient, Js!AckOk, Js!NextMessage, NextMessage
<1>7. CASE Js!AckError \/ Js!ErrorHandled
  <2>1. Settles /\ (~CanLose => pc # "ack")
    BY <1>7 DEF Js!AckError, Js!ErrorHandled, Js!AbandonAck, Js!Current, Js!NextMessage,
       Js!OnError, Settles, AbandonAck, MayCount, Current, MovesOn, NextMessage, Shape
  <2>2. QED
    BY <1>7, <2>1 DEF LoopKinds, Patient, Js!AckError, Js!ErrorHandled, Js!NextMessage,
       Js!OnError
<1>8. QED
  BY <1>1, <1>2, <1>3, <1>4, <1>5, <1>6, <1>7 DEF Js!Loop

(* The steps of the C# loop.                                                 *)
LEMMA CsLoop ==
  ASSUME Shape, Cs!Loop
  PROVE  /\ LoopKinds
         /\ pc' \in PlacesOf("cs") \cup {"done"}
         /\ LetsThrough /\ (AutoAck => CountsAcked)
         /\ (pc' = "done" /\ running' = FALSE) \/ (pc' # "done" /\ running' = running)
<1> USE DEF mailboxVars, history, Cs!mailboxVars, Cs!history, PlacesOf, LetsThrough,
            LetThrough, CountsAcked
<1>1. CASE Cs!Top \/ Cs!FetchError \/ Cs!Cancelled \/ Cs!Wake \/ Cs!CheckMessage \/ Cs!CallHandler
           \/ Cs!ErrorHandlerThrows
  <2>1. Goes
    BY <1>1 DEF Cs!Top, Cs!FetchError, Cs!Cancelled, Cs!Wake, Cs!CheckMessage, Cs!CallHandler,
       Cs!ErrorHandlerThrows, Cs!Return, Cs!Leave, Cs!GoTo, Goes, AbandonAck, Shape
  <2>2. QED
    BY <1>1, <2>1 DEF LoopKinds, Cs!Top, Cs!FetchError, Cs!Cancelled, Cs!Wake,
       Cs!CheckMessage, Cs!CallHandler, Cs!ErrorHandlerThrows, Cs!Return, Cs!Leave, Cs!GoTo
<1>2. CASE Cs!Fetch
  <2>1. Fetches
    BY <1>2 DEF Cs!Fetch, Cs!FetchAnswered, Cs!Batches, Cs!BatchesOf, Cs!Pending,
       Cs!Before, Fetches, FetchAnswered, Batches, BatchesOf, Pending, Before
  <2>2. QED
    BY <1>2, <2>1 DEF LoopKinds, Cs!Fetch, Cs!FetchAnswered
<1>3. CASE Cs!HandlerOk
  <2>1. Returns
    BY <1>3 DEF Cs!HandlerOk, Cs!HandlerReturned, Cs!CountUp, Cs!Current, Cs!NextMessage,
       Returns, HandlerReturned, MayCount, CountUp, Current, MovesOn, NextMessage, Shape
  <2>2. QED
    BY <1>3, <2>1 DEF LoopKinds, Cs!HandlerOk, Cs!NextMessage
<1>4. CASE Cs!HandlerError
  <2>1. Fails
    BY <1>4 DEF Cs!HandlerError, Cs!HandlerFailed, Cs!Current, Cs!NextMessage, Cs!OnError,
       Fails, HandlerFailed, Current, MovesOn, NextMessage, Shape
  <2>2. QED
    BY <1>4, <2>1 DEF LoopKinds, Cs!HandlerError, Cs!NextMessage, Cs!OnError
<1>5. CASE Cs!AckOk \/ Cs!AckError \/ Cs!ErrorHandled
  <2>1. Settles
    BY <1>5 DEF Cs!AckOk, Cs!AckError, Cs!ErrorHandled, Cs!AbandonAck, Cs!Current,
       Cs!NextMessage, Cs!OnError, Settles, AbandonAck, MayCount, Current, MovesOn,
       NextMessage, Shape
  <2>2. QED
    BY <1>5, <2>1 DEF LoopKinds, Cs!AckOk, Cs!AckError, Cs!ErrorHandled, Cs!NextMessage,
       Cs!OnError
<1>6. QED
  BY <1>1, <1>2, <1>3, <1>4, <1>5 DEF Cs!Loop

(* The steps of the Python loop.                                             *)
LEMMA PyLoop ==
  ASSUME Shape, DeliveryInv, Py!Loop
  PROVE  /\ LoopKinds
         /\ pc' \in PlacesOf("py") \cup {"done"}
         /\ LetsThrough /\ (AutoAck => CountsAcked)
<1> USE DEF mailboxVars, history, Py!mailboxVars, Py!history, PlacesOf, LetsThrough,
            LetThrough, CountsAcked, Py!At
<1>1. CASE Py!FetchError \/ Py!Wake \/ Py!Cancelled
  <2>1. Goes
    BY <1>1 DEF Py!FetchError, Py!Wake, Py!Cancelled, Py!GoTo, Py!AbandonAck, Py!Current,
       Goes, AbandonAck, Current, Shape
  <2>2. QED
    BY <1>1, <2>1 DEF LoopKinds, Py!FetchError, Py!Wake, Py!Cancelled, Py!GoTo
<1>2. CASE Py!Fetch
  <2>1. Fetches
    BY <1>2 DEF Py!Fetch, Py!FetchAnswered, Py!Batches, Py!BatchesOf, Py!Pending,
       Py!Before, Fetches, FetchAnswered, Batches, BatchesOf, Pending, Before
  <2>2. QED
    BY <1>2, <2>1 DEF LoopKinds, Py!Fetch, Py!FetchAnswered
<1>3. CASE Py!HandlerOk
  <2>1. Returns
    BY <1>3 DEF Py!HandlerOk, Py!HandlerReturned, Py!Counted, Py!CountUp, Py!Current, Py!NextMessage,
       Returns, HandlerReturned, MayCount, Counted, CountUp, Current, MovesOn, NextMessage, Shape
  <2>2. QED
    BY <1>3, <2>1 DEF LoopKinds, Py!HandlerOk, Py!NextMessage
<1>4. CASE Py!HandlerError
  <2>1. Fails
    BY <1>4 DEF Py!HandlerError, Py!HandlerFailed, Py!Current, Py!NextMessage, Py!OnError,
       Fails, HandlerFailed, Current, MovesOn, NextMessage, Shape
  <2>2. QED
    BY <1>4, <2>1 DEF LoopKinds, Py!HandlerError, Py!NextMessage, Py!OnError
<1>5. CASE Py!AckOk
  <2>1. Current \in handled
    BY <1>5 DEF Py!AckOk, DeliveryInv, AckedWasHandled
  <2>2. Settles
    BY <1>5, <2>1 DEF Py!AckOk, Py!Counted, Py!CountUp, Py!Current, Py!NextMessage,
       Settles, AbandonAck, MayCount, Counted, CountUp, Current, MovesOn, NextMessage
  <2>3. QED
    BY <1>5, <2>2 DEF LoopKinds, Py!AckOk, Py!NextMessage, NextMessage, Shape
<1>6. CASE Py!AckError \/ Py!ErrorHandled
  <2>1. Settles
    BY <1>6 DEF Py!AckError, Py!ErrorHandled, Py!AbandonAck, Py!Current, Py!NextMessage,
       Py!OnError, Settles, AbandonAck, MayCount, Current, MovesOn, NextMessage, Shape
  <2>2. QED
    BY <1>6, <2>1 DEF LoopKinds, Py!AckError, Py!ErrorHandled, Py!NextMessage, Py!OnError
<1>7. QED
  BY <1>1, <1>2, <1>3, <1>4, <1>5, <1>6 DEF Py!Loop

(* Being done with a message that has been attempted keeps the batch covered.*)
LEMMA MovesOnKeeps ==
  ASSUME TypeOKLoop, DeliveryInv, InBatch, MovesOn,
         UNCHANGED log, attempted \subseteq attempted', Current \in attempted'
  PROVE  /\ Distinct' /\ (Uniform => Covered')
         /\ batch' \in Seq(MsgIds) /\ pos' \in Nat \ {0}
         /\ pc' \in {"msg", "top", "handler", "fetch", "error_handler"}
         /\ pc' \in {"msg", "handler", "error_handler"} => InBatch'
         /\ pc' = "error_handler" => Current' \in attempted'
<1>1. CASE NextMessage("msg", "top")
  <2>1. pc' \in {"msg", "top"}
    BY <1>1 DEF NextMessage
  <2>2. QED
    BY <1>1, <2>1, NextMessageKeeps
<1>2. CASE NextMessage("handler", "fetch")
  <2>1. pc' \in {"handler", "fetch"}
    BY <1>2 DEF NextMessage
  <2>2. QED
    BY <1>2, <2>1, NextMessageKeeps
<1>3. CASE pc' = "error_handler" /\ UNCHANGED <<batch, pos>>
  BY <1>3 DEF DeliveryInv, Distinct, Covered, TypeOKLoop, InBatch, Current, MsgIds
<1>4. QED
  BY <1>1, <1>2, <1>3 DEF MovesOn

(* The count stays within its bound, and counts what has been handled.       *)
LEMMA CountKeeps ==
  ASSUME TypeOKLoop, MayCount, handled \subseteq handled'
  PROVE  count' \in 0..MaxCount /\ counted' \subseteq handled'
BY ConsumeAssumption DEF MayCount, Counted, CountUp, TypeOKLoop

(* Every kind of step keeps the shape of the loop and what delivery rests on.*)
LEMMA KindsKeep ==
  ASSUME Shape, DeliveryInv, LoopKinds
  PROVE  Shape' /\ DeliveryInv' /\ running' \in {running, FALSE} /\ stop' = stop
<1> USE DEF mailboxVars, history
<1>a. TypeOKLoop /\ (ack # "none" => InBatch)
  BY DEF Shape
<1>1. CASE Goes
  <2>1. /\ AbandonAck /\ ack' = "none" /\ running' \in {running, FALSE}
        /\ UNCHANGED <<log, offset, batch, pos, count, stop, attempted, handled,
                       repeated, counted>>
        /\ \/ pc' \in {"top", "fetch", "sleep", "done"}
           \/ pc \in {"msg", "call"} /\ pc' \in {"call", "handler"}
    BY <1>1 DEF Goes, AbandonAck
  <2>2. /\ late' \subseteq MsgIds /\ AckedWasHandled'
        /\ Uniform => NothingSkipped' /\ LateCovered'
    BY <1>a, <2>1, AbandonKeeps
  <2>3. Distinct' /\ (Uniform => Covered')
    BY <2>1 DEF DeliveryInv, Distinct, Covered, MsgIds
  <2>4. TypeOKLoop'
    BY <1>a, <2>1, <2>2 DEF TypeOKLoop, MsgIds
  <2>5. Shape'
    BY <2>1, <2>4 DEF Shape, InBatch
  <2>6. QED
    BY <2>1, <2>2, <2>3, <2>5 DEF DeliveryInv
<1>2. CASE Fetches
  <2>1. PICK b \in Batches :
          /\ batch' = b
          /\ (b # <<>> /\ pc' \in {"msg", "handler"}) \/ pc' \in {"top", "sleep", "fetch"}
    BY <1>2 DEF Fetches, FetchAnswered
  <2>2. /\ pos' = 1 /\ ack = "none"
        /\ UNCHANGED <<log, offset, late, ack, count, running, stop, attempted,
                       handled, repeated, counted>>
    BY <1>2 DEF Fetches, FetchAnswered, Shape
  <2>3. DeliveryInv'
    BY <1>a, <2>1, <2>2, FetchKeeps
  <2>4. b \in Seq(MsgIds)
    BY <1>a, <2>1, BatchFacts
  <2>5. pc' \in {"msg", "handler"} => InBatch'
    BY <2>1, <2>2, <2>4 DEF InBatch
  <2>6. TypeOKLoop'
    BY <1>a, <2>1, <2>2, <2>4 DEF TypeOKLoop, MsgIds
  <2>7. Shape'
    BY <2>1, <2>2, <2>5, <2>6 DEF Shape
  <2>8. QED
    BY <2>2, <2>3, <2>7
<1>3. CASE Breaks
  <2>1. /\ pc' = "top" /\ batch' = <<>> /\ pos' = 1 /\ ack = "none"
        /\ UNCHANGED <<log, offset, late, ack, count, running, stop, attempted,
                       handled, repeated, counted>>
    BY <1>3 DEF Breaks, Shape
  <2>2. DeliveryInv'
    BY <2>1 DEF DeliveryInv, NothingSkipped, AckedWasHandled, Distinct, Covered,
       LateCovered, MsgIds
  <2>3. TypeOKLoop'
    BY <1>a, <2>1 DEF TypeOKLoop, MsgIds
  <2>4. QED
    BY <2>1, <2>2, <2>3 DEF Shape
<1>4. CASE Returns
  <2>1. /\ pc = "handler" /\ InBatch /\ ack = "none" /\ HandlerReturned /\ MayCount
        /\ UNCHANGED <<log, offset, late, running, stop>>
    BY <1>4 DEF Returns, Shape
  <2>2. ack' = "none" \/ (HandlerReturned /\ UNCHANGED <<batch, pos>>)
    BY <1>4, <2>1 DEF Returns
  <2>3. /\ attempted' \subseteq MsgIds /\ handled' \subseteq attempted'
        /\ repeated' \subseteq handled' /\ attempted \subseteq attempted'
        /\ handled \subseteq handled' /\ Current \in attempted'
        /\ AckedWasHandled' /\ (Uniform => NothingSkipped' /\ LateCovered')
    BY <1>a, <2>1, <2>2, HandledKeeps
  <2>4. count' \in 0..MaxCount /\ counted' \subseteq handled'
    BY <1>a, <2>1, <2>3, CountKeeps
  <2>5. CASE pc' = "ack" /\ ack' \in {"none", "sent"} /\ UNCHANGED <<batch, pos>>
    <3>1. Distinct' /\ (Uniform => Covered')
      BY <2>1, <2>3, <2>5 DEF DeliveryInv, Distinct, Covered, MsgIds
    <3>2. TypeOKLoop'
      BY <1>a, <2>1, <2>3, <2>4, <2>5 DEF TypeOKLoop, MsgIds
    <3>3. Shape'
      BY <2>1, <2>3, <2>5, <3>2 DEF Shape, InBatch, Current
    <3>4. QED
      BY <2>1, <2>3, <3>1, <3>3 DEF DeliveryInv
  <2>6. CASE ack' = "none" /\ MovesOn
    <3>1. /\ Distinct' /\ (Uniform => Covered')
          /\ batch' \in Seq(MsgIds) /\ pos' \in Nat \ {0}
          /\ pc' \in {"msg", "top", "handler", "fetch", "error_handler"}
          /\ pc' \in {"msg", "handler", "error_handler"} => InBatch'
          /\ pc' = "error_handler" => Current' \in attempted'
      BY <1>a, <2>1, <2>3, <2>6, MovesOnKeeps
    <3>2. TypeOKLoop'
      BY <1>a, <2>1, <2>3, <2>4, <2>6, <3>1 DEF TypeOKLoop, MsgIds
    <3>3. Shape'
      BY <2>6, <3>1, <3>2 DEF Shape
    <3>4. QED
      BY <2>1, <2>3, <3>1, <3>3 DEF DeliveryInv
  <2>7. QED
    BY <1>4, <2>5, <2>6 DEF Returns
<1>5. CASE Fails
  <2>1. /\ pc = "handler" /\ InBatch /\ ack = "none" /\ HandlerFailed
        /\ ack' = "none" /\ MovesOn
        /\ UNCHANGED <<log, offset, late, count, running, stop, counted>>
    BY <1>5 DEF Fails, Shape
  <2>2. /\ attempted' \subseteq MsgIds /\ handled' \subseteq attempted'
        /\ repeated' \subseteq handled' /\ attempted \subseteq attempted'
        /\ handled \subseteq handled' /\ Current \in attempted'
        /\ AckedWasHandled' /\ (Uniform => NothingSkipped' /\ LateCovered')
    BY <1>a, <2>1, HandledKeeps
  <2>3. /\ Distinct' /\ (Uniform => Covered')
        /\ batch' \in Seq(MsgIds) /\ pos' \in Nat \ {0}
        /\ pc' \in {"msg", "top", "handler", "fetch", "error_handler"}
        /\ pc' \in {"msg", "handler", "error_handler"} => InBatch'
        /\ pc' = "error_handler" => Current' \in attempted'
    BY <1>a, <2>1, <2>2, MovesOnKeeps
  <2>4. TypeOKLoop'
    BY <1>a, <2>1, <2>2, <2>3 DEF TypeOKLoop, MsgIds
  <2>5. Shape'
    BY <2>1, <2>3, <2>4 DEF Shape
  <2>6. QED
    BY <2>1, <2>2, <2>3, <2>5 DEF DeliveryInv
<1>6. CASE Settles
  <2>1. /\ InBatch /\ Current \in attempted /\ AbandonAck /\ ack' = "none"
        /\ MayCount /\ MovesOn
        /\ UNCHANGED <<log, offset, running, stop, attempted, handled, repeated>>
    BY <1>6 DEF Settles, AbandonAck, Shape
  <2>2. /\ late' \subseteq MsgIds /\ AckedWasHandled'
        /\ Uniform => NothingSkipped' /\ LateCovered'
    BY <1>a, <2>1, AbandonKeeps
  <2>3. /\ Distinct' /\ (Uniform => Covered')
        /\ batch' \in Seq(MsgIds) /\ pos' \in Nat \ {0}
        /\ pc' \in {"msg", "top", "handler", "fetch", "error_handler"}
        /\ pc' \in {"msg", "handler", "error_handler"} => InBatch'
        /\ pc' = "error_handler" => Current' \in attempted'
    BY <1>a, <2>1, MovesOnKeeps
  <2>4. count' \in 0..MaxCount /\ counted' \subseteq handled'
    BY <1>a, <2>1, CountKeeps
  <2>5. TypeOKLoop'
    BY <1>a, <2>1, <2>2, <2>3, <2>4 DEF TypeOKLoop, MsgIds
  <2>6. Shape'
    BY <2>1, <2>3, <2>5 DEF Shape
  <2>7. QED
    BY <2>1, <2>2, <2>3, <2>6 DEF DeliveryInv
<1>7. QED
  BY <1>1, <1>2, <1>3, <1>4, <1>5, <1>6 DEF LoopKinds

(* What a step of the current loop is, whichever SDK it is written with.     *)
LEMMA LoopStep ==
  ASSUME Shape, DeliveryInv, StopSeen, Loop
  PROVE  /\ LoopKinds /\ sdk' = sdk
         /\ pc' \in PlacesOf(sdk) \cup {"done"}
         /\ LetsThrough /\ (AutoAck => CountsAcked)
         /\ sdk \in {"go", "cs"} =>
              \/ pc' = "done" /\ running' = FALSE
              \/ pc' # "done" /\ running' = running
         /\ sdk \in {"go", "rust", "java", "js"} /\ AutoAck /\ ~CanLose => Patient
<1>1. CASE sdk = "py" /\ Py!Loop
  BY <1>1, PyLoop DEF Loop, Step
<1>2. CASE sdk = "go" /\ Go!Loop
  BY <1>2, GoLoop DEF Loop, Step
<1>3. CASE sdk = "rust" /\ Rust!Loop
  BY <1>3, RustLoop DEF Loop, Step
<1>4. CASE sdk = "java" /\ Java!Loop
  BY <1>4, JavaLoop DEF Loop, Step, StopSeen
<1>5. CASE sdk = "js" /\ Js!Loop
  BY <1>5, JsLoop DEF Loop, Step, StopSeen
<1>6. CASE sdk = "cs" /\ Cs!Loop
  BY <1>6, CsLoop DEF Loop, Step
<1>7. QED
  BY <1>1, <1>2, <1>3, <1>4, <1>5, <1>6 DEF Loop, Step

(* consume() starts the loop of each SDK at its first place.                 *)
LEMMA ConsumeStep ==
  ASSUME Consume
  PROVE  sdk' = sdk /\ \E entry \in PlacesOf(sdk) \cap {"top", "fetch"} : StartLoop(entry)
<1>1. CASE sdk = "py" /\ Py!Consume
  <2>1. StartLoop("fetch")
    BY <1>1 DEF Py!Consume, Py!StartLoop, StartLoop, Py!mailboxVars, mailboxVars,
       Py!history, history
  <2>2. QED
    BY <1>1, <2>1 DEF Consume, Step, PlacesOf
<1>2. CASE sdk # "py"
  <2>1. StartLoop("top")
    BY <1>2 DEF Consume, Step, StartLoop, mailboxVars, history,
       Go!Consume, Go!StartLoop, Go!mailboxVars, Go!history,
       Rust!Consume, Rust!StartLoop, Rust!mailboxVars, Rust!history,
       Java!Consume, Java!StartLoop, Java!mailboxVars, Java!history,
       Js!Consume, Js!StartLoop, Js!mailboxVars, Js!history,
       Cs!Consume, Cs!StartLoop, Cs!mailboxVars, Cs!history
  <2>2. QED
    BY <1>2, <2>1 DEF Consume, Step, PlacesOf
<1>3. QED
  BY <1>1, <1>2 DEF Consume, Step

(* stop() and its return leave the loop alone; where the flag is the stop    *)
(* signal, stop() lowers it, and in Python its return does.                  *)
LEMMA StopStep ==
  ASSUME Stop \/ StopReturn
  PROVE  /\ UNCHANGED <<log, offset, late, pc, batch, pos, ack, count, attempted,
                        handled, repeated, counted, sdk>>
         /\ stop' \in {"requested", "returned"} /\ running' \in {running, FALSE}
         /\ sdk \in {"go", "cs"} => running' = running
         /\ sdk \in {"java", "js"} /\ stop' = "requested" => running' = FALSE
BY DEF Stop, StopReturn, Step,
   Py!Stop, Py!StopReturn, Py!StopCalled, Py!StopReturned, Py!mailboxVars, Py!loopVars,
   Py!history, Go!Stop, Go!StopReturn, Go!StopCalled, Go!StopReturned, Go!mailboxVars,
   Go!loopVars, Go!history, Rust!Stop, Rust!StopReturn, Rust!StopCalled,
   Rust!StopReturned, Rust!mailboxVars, Rust!loopVars, Rust!history, Java!Stop,
   Java!StopReturn, Java!StopCalled, Java!StopReturned, Java!mailboxVars, Java!loopVars,
   Java!history, Js!Stop, Js!StopReturn, Js!StopCalled, Js!StopReturned, Js!mailboxVars,
   Js!loopVars, Js!history, Cs!Stop, Cs!StopReturn, Cs!StopCalled, Cs!StopReturned,
   Cs!mailboxVars, Cs!loopVars, Cs!history

(* The invariant holds before the first consume().                           *)
LEMMA ConsumersInit == Init => ConsumersInv
<1> SUFFICES ASSUME Init PROVE ConsumersInv
  OBVIOUS
<1>1. TypeOKLoop /\ DeliveryInv
  BY LoopInitTyped DEF Init
<1>2. pc = "off" /\ ack = "none" /\ stop = "none" /\ running = FALSE /\ sdk \in SDKs
  BY DEF Init, LoopInit
<1>3. QED
  BY <1>1, <1>2 DEF ConsumersInv, Shape, InPlace, StopSeen, HandleIsExact, RunningIsAlive, Alive

(* Every step keeps it: of any SDK's loop and handle, of the broker, the     *)
(* death of the process, and the change to another SDK.                      *)
LEMMA ConsumersNext == ConsumersInv /\ [Next]_<<vars, sdk>> => ConsumersInv'
<1> SUFFICES ASSUME ConsumersInv, [Next]_<<vars, sdk>> PROVE ConsumersInv'
  OBVIOUS
<1>a. /\ sdk \in SDKs /\ Shape /\ InPlace /\ DeliveryInv /\ StopSeen /\ HandleIsExact
      /\ TypeOKLoop /\ (ack # "none" => InBatch)
  BY DEF ConsumersInv, Shape
<1>1. CASE Broker /\ UNCHANGED sdk
  <2>1. TypeOKLoop' /\ DeliveryInv'
    BY <1>a, <1>1, BrokerKeeps
  <2>2. /\ UNCHANGED <<pc, batch, pos, running, stop, attempted, sdk>>
        /\ ack' # "none" => ack # "none"
    BY <1>1 DEF Broker, Produce, BrokerAck, BrokerLateAck, history
  <2>3. Shape'
    BY <1>a, <2>1, <2>2 DEF Shape, InBatch, Current
  <2>4. QED
    BY <1>a, <2>1, <2>2, <2>3
    DEF ConsumersInv, InPlace, StopSeen, HandleIsExact, RunningIsAlive, Alive
<1>2. CASE Crash /\ UNCHANGED sdk
  <2>1. TypeOKLoop' /\ DeliveryInv'
    BY <1>a, <1>2, CrashKeeps
  <2>2. pc' = "off" /\ ack' = "none" /\ running' = FALSE /\ stop' = "none" /\ sdk' = sdk
    BY <1>2 DEF Crash, AbandonAck
  <2>3. QED
    BY <1>a, <2>1, <2>2
    DEF ConsumersInv, Shape, InPlace, StopSeen, HandleIsExact, RunningIsAlive, Alive
<1>3. CASE Switch
  <2>1. /\ sdk' \in SDKs /\ pc' = "off" /\ batch' = <<>> /\ pos' = 1 /\ count' = 0
        /\ running' = FALSE /\ stop' = "none" /\ ack = "none"
        /\ UNCHANGED <<log, offset, late, ack, attempted, handled, repeated, counted>>
    BY <1>a, <1>3 DEF Switch, Alive, Shape, mailboxVars, history
  <2>2. TypeOKLoop' /\ DeliveryInv'
    <3>1. count' \in 0..MaxCount /\ pos' \in Nat \ {0} /\ batch' \in Seq(MsgIds')
      BY <2>1, ConsumeAssumption
    <3>2. running' \in BOOLEAN
      BY <2>1
    <3>3. TypeOKLoop'
      BY <1>a, <2>1, <3>1, <3>2 DEF TypeOKLoop, MsgIds
    <3>4. DeliveryInv'
      BY <1>a, <2>1 DEF DeliveryInv, NothingSkipped, AckedWasHandled, Distinct, Covered,
         LateCovered, MsgIds
    <3>5. QED
      BY <3>3, <3>4
  <2>3. QED
    BY <2>1, <2>2
    DEF ConsumersInv, Shape, InPlace, StopSeen, HandleIsExact, RunningIsAlive, Alive
<1>4. CASE Consume
  <2>1. PICK entry \in PlacesOf(sdk) \cap {"top", "fetch"} : StartLoop(entry)
    BY <1>4, ConsumeStep
  <2>2. TypeOKLoop' /\ DeliveryInv'
    BY <1>a, <2>1, StartKeeps
  <2>3. pc' = entry /\ ack' = "none" /\ running' = TRUE /\ stop' = "none" /\ sdk' = sdk
    BY <1>4, <2>1, ConsumeStep DEF StartLoop
  <2>4. QED
    BY <1>a, <2>2, <2>3
    DEF ConsumersInv, Shape, InPlace, StopSeen, HandleIsExact, RunningIsAlive, Alive
<1>5. CASE Loop
  <2>1. Shape' /\ DeliveryInv' /\ running' \in {running, FALSE} /\ stop' = stop
    BY <1>a, <1>5, LoopStep, KindsKeep
  <2>2. /\ sdk' = sdk /\ pc' \in PlacesOf(sdk) \cup {"done"}
        /\ sdk \in {"go", "cs"} =>
             \/ pc' = "done" /\ running' = FALSE
             \/ pc' # "done" /\ running' = running
    BY <1>a, <1>5, LoopStep
  <2>3. StopSeen' /\ InPlace'
    BY <1>a, <2>1, <2>2 DEF StopSeen, InPlace
  <2>4. HandleIsExact'
    <3>1. CASE sdk \in {"go", "cs"}
      <4>1. pc' # "off"
        BY <2>2, <3>1 DEF PlacesOf
      <4>2. Alive
        BY <1>5, <3>1 DEF Loop, Step, Alive, Go!Loop, Go!Top, Go!Fetch, Go!FetchError,
           Go!Sleep, Go!CheckMessage, Go!CallHandler, Go!HandlerOk, Go!HandlerError,
           Go!AckOk, Go!AckError,
           Cs!Loop, Cs!Top, Cs!Fetch, Cs!FetchError, Cs!Cancelled, Cs!Wake,
           Cs!CheckMessage, Cs!CallHandler, Cs!HandlerOk, Cs!AckOk, Cs!HandlerError, Cs!AckError,
           Cs!ErrorHandled, Cs!ErrorHandlerThrows
      <4>3. QED
        BY <1>a, <2>2, <3>1, <4>1, <4>2 DEF HandleIsExact, RunningIsAlive, Alive
    <3>2. CASE sdk \notin {"go", "cs"}
      BY <2>2, <3>2 DEF HandleIsExact
    <3>3. QED
      BY <3>1, <3>2
  <2>5. QED
    BY <1>a, <2>1, <2>2, <2>3, <2>4 DEF ConsumersInv
<1>6. CASE Stop \/ StopReturn
  <2>1. /\ UNCHANGED <<log, offset, late, pc, batch, pos, ack, count, attempted,
                       handled, repeated, counted, sdk>>
        /\ stop' \in {"requested", "returned"} /\ running' \in {running, FALSE}
        /\ sdk \in {"go", "cs"} => running' = running
        /\ sdk \in {"java", "js"} /\ stop' = "requested" => running' = FALSE
    BY <1>6, StopStep
  <2>2. TypeOKLoop' /\ DeliveryInv'
    <3>1. running' \in BOOLEAN
      BY <1>a, <2>1 DEF TypeOKLoop
    <3>2. TypeOKLoop'
      BY <1>a, <2>1, <3>1 DEF TypeOKLoop, MsgIds
    <3>3. DeliveryInv'
      BY <1>a, <2>1 DEF DeliveryInv, NothingSkipped, AckedWasHandled, Distinct, Covered,
         LateCovered, Current, MsgIds
    <3>4. QED
      BY <3>2, <3>3
  <2>3. Shape' /\ InPlace' /\ StopSeen'
    BY <1>a, <2>1, <2>2 DEF Shape, InPlace, StopSeen, InBatch, Current
  <2>4. HandleIsExact'
    BY <1>a, <2>1 DEF HandleIsExact, RunningIsAlive, Alive
  <2>5. QED
    BY <1>a, <2>1, <2>2, <2>3, <2>4 DEF ConsumersInv
<1>7. CASE UNCHANGED <<vars, sdk>>
  BY <1>a, <1>7 DEF vars, ConsumersInv, Shape, InPlace, StopSeen, HandleIsExact,
     RunningIsAlive, Alive, TypeOKLoop, DeliveryInv, NothingSkipped, AckedWasHandled,
     Distinct, Covered, LateCovered, Current, InBatch, MsgIds
<1>8. QED
  BY <1>1, <1>2, <1>3, <1>4, <1>5, <1>6, <1>7 DEF Next, Environment

(* So it holds throughout.                                                   *)
LEMMA ConsumersInvariant == Spec => []ConsumersInv
BY ConsumersInit, ConsumersNext, PTL DEF Spec

(* Type correctness of the six loops that take over from each other.         *)
THEOREM SdkTypeOK == Spec => []TypeOK
<1>1. ConsumersInv => TypeOK
  <2> SUFFICES ASSUME ConsumersInv PROVE TypeOK
    OBVIOUS
  <2>1. sdk \in SDKs /\ Shape /\ pc \in PlacesOf(sdk) \cup {"off", "done"}
    BY DEF ConsumersInv, InPlace
  <2>2. sdk = "py" => Py!TypeOK
    BY <2>1 DEF PlacesOf, Shape, TypeOKLoop, MsgIds, InBatch, Current, Py!TypeOK,
       Py!TypeOKLoop, Py!MsgIds, Py!InBatch, Py!Current, Py!Awaits
  <2>3. sdk = "go" => Go!TypeOK
    BY <2>1 DEF PlacesOf, Shape, TypeOKLoop, MsgIds, InBatch, Go!TypeOK, Go!TypeOKLoop,
       Go!MsgIds, Go!InBatch, Go!Places
  <2>4. sdk = "rust" => Rust!TypeOK
    BY <2>1 DEF PlacesOf, Shape, TypeOKLoop, MsgIds, InBatch, Rust!TypeOK, Rust!TypeOKLoop,
       Rust!MsgIds, Rust!InBatch, Rust!Places
  <2>5. sdk = "java" => Java!TypeOK
    BY <2>1 DEF PlacesOf, Shape, TypeOKLoop, MsgIds, InBatch, Java!TypeOK, Java!TypeOKLoop,
       Java!MsgIds, Java!InBatch, Java!Places
  <2>6. sdk = "js" => Js!TypeOK
    BY <2>1 DEF PlacesOf, Shape, TypeOKLoop, MsgIds, InBatch, Js!TypeOK, Js!TypeOKLoop,
       Js!MsgIds, Js!InBatch, Js!Places
  <2>7. sdk = "cs" => Cs!TypeOK
    BY <2>1 DEF PlacesOf, Shape, TypeOKLoop, MsgIds, InBatch, Cs!TypeOK, Cs!TypeOKLoop,
       Cs!MsgIds, Cs!InBatch, Cs!Places
  <2>8. QED
    BY <2>1, <2>2, <2>3, <2>4, <2>5, <2>6, <2>7 DEF TypeOK
<1>2. QED
  BY <1>1, ConsumersInvariant, PTL

(* IsRunning of the Go and the C# handle says exactly whether the loop runs, *)
(* after any failure, stop, crash and restart.                               *)
THEOREM SdkHandleIsExact == Spec => []HandleIsExact
<1>1. ConsumersInv => HandleIsExact
  BY DEF ConsumersInv
<1>2. QED
  BY <1>1, ConsumersInvariant, PTL

(* In every SDK, and across changes of SDK, only successful handling moves   *)
(* the group, whatever the priorities.                                       *)
THEOREM SdkAckedWasHandled == Spec => []AckedWasHandled
<1>1. ConsumersInv => AckedWasHandled
  BY DEF ConsumersInv, DeliveryInv
<1>2. QED
  BY <1>1, ConsumersInvariant, PTL

(* With messages of one priority nothing is skipped, whichever SDKs take     *)
(* turns.                                                                    *)
THEOREM SdkNothingSkipped == ASSUME Uniform PROVE Spec => []NothingSkipped
<1>1. ConsumersInv => NothingSkipped
  BY DEF ConsumersInv, DeliveryInv
<1>2. QED
  BY <1>1, ConsumersInvariant, PTL

(* With messages of one priority, all six loops implement the contract, also *)
(* when one takes over what another has left behind.                         *)
THEOREM SdkImplementsContract == ASSUME Uniform PROVE Spec => ImplementsContract
<1>1. Init => Contract!Init
  BY DEF Init, LoopInit, MailboxInit, Contract!Init
<1>2. ConsumersInv /\ [Next]_<<vars, sdk>> => [Contract!Next]_(Contract!contractVars)
  <2> SUFFICES ASSUME ConsumersInv, [Next]_<<vars, sdk>>
               PROVE  [Contract!Next]_(Contract!contractVars)
    OBVIOUS
  <2>a. TypeOKLoop /\ Shape /\ DeliveryInv /\ StopSeen /\ (ack # "none" => InBatch)
    BY DEF ConsumersInv, Shape
  <2>1. CASE Broker
    BY <2>a, <2>1, BrokerImplements
  <2>2. CASE Loop
    <3>1. LoopKinds
      BY <2>a, <2>2, LoopStep
    <3>2. CASE Returns \/ Fails
      <4>1. InBatch /\ (HandlerReturned \/ HandlerFailed) /\ UNCHANGED <<log, offset>>
        BY <2>a, <3>2 DEF Returns, Fails, Shape, mailboxVars
      <4>2. QED
        BY <2>a, <4>1, HandlerImplements
    <3>3. CASE Goes \/ Fetches \/ Breaks \/ Settles
      <4>1. UNCHANGED <<log, offset, attempted, handled>>
        BY <3>3 DEF Goes, Fetches, FetchAnswered, Breaks, Settles, mailboxVars, history
      <4>2. QED
        BY <4>1, OthersImplement
    <3>4. QED
      BY <3>1, <3>2, <3>3 DEF LoopKinds
  <2>3. CASE Crash \/ Switch \/ Consume \/ Stop \/ StopReturn \/ UNCHANGED <<vars, sdk>>
    <3>1. UNCHANGED <<log, offset, attempted, handled>>
      BY <2>3, ConsumeStep, StopStep DEF Crash, Switch, StartLoop, mailboxVars, history, vars
    <3>2. QED
      BY <3>1, OthersImplement
  <2>4. QED
    BY <2>1, <2>2, <2>3 DEF Next, Environment
<1>3. QED
  BY <1>1, <1>2, ConsumersInvariant, PTL DEF Spec, ImplementsContract, Contract!Spec

(* In every SDK, a loop that was asked to stop lets no further message       *)
(* through to the handler, wherever the stop met it.                         *)
THEOREM SdkStopLetsNoneThrough == Spec => StopLetsNoneThrough
<1>1. ConsumersInv /\ [Next]_<<vars, sdk>> =>
        [stop' = "requested" /\ LetThrough' => LetThrough /\ UNCHANGED <<batch, pos>>]_vars
  <2> SUFFICES ASSUME ConsumersInv, Next, stop' = "requested", LetThrough'
               PROVE  LetThrough /\ UNCHANGED <<batch, pos>>
    BY DEF vars
  <2>a. Shape /\ DeliveryInv /\ StopSeen
    BY DEF ConsumersInv
  <2>1. CASE Broker
    BY <2>1 DEF Broker, Produce, BrokerAck, BrokerLateAck, LetThrough
  <2>2. CASE Loop
    <3>1. LetsThrough /\ LoopKinds
      BY <2>a, <2>2, LoopStep
    <3>2. stop' = stop
      BY <2>a, <3>1, KindsKeep
    <3>3. QED
      BY <3>1, <3>2 DEF LetsThrough
  <2>3. CASE Crash \/ Switch \/ Consume
    BY <2>3, ConsumeStep DEF Crash, Switch, StartLoop
  <2>4. CASE Stop \/ StopReturn
    BY <2>4, StopStep DEF LetThrough
  <2>5. QED
    BY <2>1, <2>2, <2>3, <2>4 DEF Next, Environment
<1>2. QED
  BY <1>1, ConsumersInvariant, PTL DEF Spec, StopLetsNoneThrough

(* What the counts rest on: a counted message is behind the offset, and what *)
(* is left of the batch is not counted yet.                                  *)
CountInv ==
  AutoAck =>
    /\ \A m \in counted : m < offset
    /\ ack = "applied" => Current < offset
    /\ \A i \in pos..Len(batch) : batch[i] \notin counted

(* Every kind of step keeps it.                                              *)
LEMMA CountKindsKeep ==
  ASSUME AutoAck, Shape, DeliveryInv, CountInv, LoopKinds, CountsAcked
  PROVE  CountInv'
<1> USE DEF mailboxVars, history
<1>a. /\ TypeOKLoop /\ pos \in Int /\ Len(batch) \in Nat /\ offset \in Int
      /\ \A m \in counted : m \in Int
      /\ \A i \in pos..Len(batch) : i \in 1..Len(batch) /\ i \in Int
      /\ \A i \in (pos + 1)..Len(batch) : i \in pos..Len(batch) /\ i # pos
  BY DEF Shape, TypeOKLoop, MsgIds
<1>1. CASE Fetches
  <2>1. PICK b \in Batches : batch' = b
    BY <1>1 DEF Fetches, FetchAnswered
  <2>2. pos' = 1 /\ ack' = "none" /\ UNCHANGED <<offset, counted>>
    BY <1>1 DEF Fetches, FetchAnswered, Shape
  <2>3. \A i \in 1..Len(b) : b[i] \in Int /\ b[i] >= offset
    BY <1>a, <2>1, BatchFacts DEF MsgIds
  <2>4. \A i \in 1..Len(b) : b[i] \notin counted
    BY <1>a, <2>3 DEF CountInv
  <2>5. QED
    BY <2>1, <2>2, <2>4 DEF CountInv
<1>2. ASSUME MovesOn \/ UNCHANGED <<batch, pos>> \/ (batch' = <<>> /\ pos' = 1),
             ack' # "applied", UNCHANGED <<offset, counted>>
      PROVE  CountInv'
  BY <1>2, <1>a DEF MovesOn, NextMessage, CountInv
<1>3. CASE Goes \/ Breaks \/ Returns \/ Fails
  <2>1. /\ ack' # "applied" /\ UNCHANGED <<offset, counted>>
        /\ MovesOn \/ UNCHANGED <<batch, pos>> \/ (batch' = <<>> /\ pos' = 1)
    BY <1>3 DEF Goes, AbandonAck, Breaks, Returns, Fails, Shape, CountsAcked
  <2>2. QED
    BY <1>2, <2>1
<1>4. CASE Settles
  <2>1. /\ pc \in {"ack", "error_handler"} /\ ack' = "none" /\ UNCHANGED offset
        /\ MayCount /\ MovesOn
    BY <1>4 DEF Settles, AbandonAck
  <2>2. CASE UNCHANGED counted
    BY <1>2, <2>1, <2>2
  <2>3. CASE ~ UNCHANGED counted
    <3>1. /\ counted' = counted \cup {Current} /\ ack = "applied" /\ InBatch
          /\ NextMessage("msg", "top") \/ NextMessage("handler", "fetch")
      BY <2>1, <2>3 DEF MayCount, Counted, CountsAcked, Shape
    <3>2. \A m \in counted' : m < offset'
      BY <2>1, <3>1 DEF CountInv
    <3>3. \A i \in (pos + 1)..Len(batch) : batch[i] # Current
      BY <1>a, <3>1 DEF DeliveryInv, Distinct, Current, InBatch
    <3>4. \A i \in (pos + 1)..Len(batch) : batch[i] \notin counted'
      BY <1>a, <3>1, <3>3 DEF CountInv
    <3>5. \A i \in pos'..Len(batch') : batch'[i] \notin counted'
      BY <1>a, <3>1, <3>4 DEF NextMessage
    <3>6. QED
      BY <2>1, <3>2, <3>5 DEF CountInv
  <2>4. QED
    BY <2>2, <2>3
<1>5. QED
  BY <1>1, <1>3, <1>4 DEF LoopKinds

(* So do the other steps.                                                    *)
LEMMA CountNext == ConsumersInv /\ CountInv /\ [Next]_<<vars, sdk>> => CountInv'
<1> SUFFICES ASSUME ConsumersInv, CountInv, AutoAck, [Next]_<<vars, sdk>>
             PROVE  CountInv'
  BY DEF CountInv
<1>a. /\ Shape /\ DeliveryInv /\ StopSeen /\ TypeOKLoop /\ offset \in Int
      /\ \A m \in counted : m \in Int
      /\ ack # "none" => InBatch /\ Current \in Int
  BY DEF ConsumersInv, Shape, TypeOKLoop, MsgIds, InBatch, Current
<1>1. CASE Produce
  BY <1>1 DEF Produce, Send, CountInv, Current
<1>2. CASE BrokerAck
  <2>1. offset' = Advanced(Current) /\ ack # "none" /\ UNCHANGED <<batch, pos, counted>>
    BY <1>2 DEF BrokerAck
  <2>2. offset' >= offset /\ Current < offset' /\ offset' \in Int
    BY <1>a, <2>1 DEF Advanced
  <2>3. QED
    BY <1>a, <2>1, <2>2 DEF CountInv, Current
<1>3. CASE BrokerLateAck
  <2>1. PICK m \in late : offset' = Advanced(m)
    BY <1>3 DEF BrokerLateAck, LateAck
  <2>2. UNCHANGED <<batch, pos, ack, counted>>
    BY <1>3 DEF BrokerLateAck
  <2>3. m \in Int
    BY <1>a DEF TypeOKLoop, MsgIds
  <2>4. offset' >= offset /\ offset' \in Int
    BY <1>a, <2>1, <2>3 DEF Advanced
  <2>5. QED
    BY <1>a, <2>2, <2>4 DEF CountInv, Current
<1>4. CASE Crash \/ Switch \/ Consume
  <2>1. ack' = "none" /\ batch' = <<>> /\ pos' = 1 /\ UNCHANGED <<offset, counted>>
    BY <1>a, <1>4, ConsumeStep DEF StartLoop, Crash, AbandonAck, Switch, Alive, Shape,
       mailboxVars
  <2>2. QED
    BY <2>1 DEF CountInv
<1>5. CASE Loop
  BY <1>a, <1>5, LoopStep, CountKindsKeep
<1>6. CASE Stop \/ StopReturn
  BY <1>6, StopStep DEF CountInv, Current
<1>7. CASE UNCHANGED <<vars, sdk>>
  BY <1>7 DEF vars, CountInv, Current
<1>8. QED
  BY <1>1, <1>2, <1>3, <1>4, <1>5, <1>6, <1>7 DEF Next, Environment, Broker

(* So it holds throughout.                                                   *)
LEMMA CountInvariant == Spec => []CountInv
<1>1. Init => CountInv
  BY DEF Init, LoopInit, CountInv
<1>2. QED
  BY <1>1, CountNext, ConsumersInvariant, PTL DEF Spec

(* What Python and JavaScript have counted has been acknowledged and         *)
(* applied, for any priorities and whichever SDKs go on with the group.      *)
THEOREM SdkCountedIsAcked == Spec => []CountedIsAcked
<1>1. CountInv => CountedIsAcked
  BY DEF CountInv, CountedIsAcked
<1>2. QED
  BY <1>1, CountInvariant, PTL

(* With auto_ack, no SDK counts again what was counted after its ACK.        *)
THEOREM SdkCountedOnce == ASSUME AutoAck PROVE Spec => CountedOnce
<1>1. ConsumersInv /\ CountInv /\ [Next]_<<vars, sdk>>
        => [count' > count => Current \notin counted]_vars
  <2> SUFFICES ASSUME ConsumersInv, CountInv, Next, count' > count
               PROVE  Current \notin counted
    BY DEF vars
  <2>a. /\ Shape /\ DeliveryInv /\ StopSeen /\ TypeOKLoop /\ count \in Int /\ count >= 0
        /\ pos \in Int /\ Len(batch) \in Nat
    BY DEF ConsumersInv, Shape, TypeOKLoop
  <2>1. CASE Loop
    <3>1. LoopKinds
      BY <2>a, <2>1, LoopStep
    <3>2. pc \in {"handler", "ack", "error_handler"}
      <4>1. Goes \/ Fetches \/ Breaks \/ Fails => count' = count
        BY DEF Goes, Fetches, FetchAnswered, Breaks, Fails
      <4>2. Returns \/ Settles => pc \in {"handler", "ack", "error_handler"}
        BY DEF Returns, Settles
      <4>3. QED
        BY <2>a, <3>1, <4>1, <4>2 DEF LoopKinds
    <3>3. InBatch
      BY <2>a, <3>2 DEF Shape
    <3>4. pos \in pos..Len(batch)
      BY <2>a, <3>3 DEF InBatch
    <3>5. QED
      BY <3>4 DEF CountInv, Current
  <2>2. CASE Broker
    BY <2>a, <2>2 DEF Broker, Produce, BrokerAck, BrokerLateAck
  <2>3. CASE Crash \/ Switch \/ Consume
    <3>1. count' = 0
      BY <2>3, ConsumeStep DEF Crash, Switch, StartLoop
    <3>2. QED
      BY <2>a, <3>1
  <2>4. CASE Stop \/ StopReturn
    <3>1. count' = count
      BY <2>4, StopStep
    <3>2. QED
      BY <2>a, <3>1
  <2>5. QED
    BY <2>1, <2>2, <2>3, <2>4 DEF Next, Environment
<1>2. QED
  BY <1>1, ConsumersInvariant, CountInvariant, PTL DEF Spec, CountedOnce

(* When nothing is lost and the process does not die, every kind of step of  *)
(* a loop that waits for its ACKs keeps OnceInv: what has been handled is    *)
(* behind the offset before the loop fetches again.                          *)
LEMMA PatientKeeps ==
  ASSUME Shape, DeliveryInv, OnceInv, Patient
  PROVE  OnceInv'
<1> USE DEF mailboxVars, history
<1>a. /\ TypeOKLoop /\ offset \in Int /\ pos \in Int /\ Len(batch) \in Nat
      /\ (\A m \in handled : m \in Int) /\ handled \subseteq attempted
      /\ \A i \in pos..Len(batch) : i \in 1..Len(batch) /\ i \in Int
  BY DEF Shape, TypeOKLoop, MsgIds
<1>b. \A i \in (pos + 1)..Len(batch) : i \in pos..Len(batch) /\ i # pos
  BY <1>a
<1>1. CASE Goes /\ ack = "none"
  <2>1. /\ ack' = "none" /\ pc # "ack" /\ pc' # "ack"
        /\ UNCHANGED <<late, offset, batch, pos, handled, repeated>>
    BY <1>1 DEF Goes, AbandonAck, OnceInv
  <2>2. QED
    BY <2>1 DEF OnceInv
<1>2. CASE Fetches
  <2>1. PICK b \in Batches : batch' = b
    BY <1>2 DEF Fetches, FetchAnswered
  <2>2. /\ pos' = 1 /\ ack' = "none" /\ pc # "ack" /\ pc' # "ack"
        /\ UNCHANGED <<late, offset, handled, repeated>>
    BY <1>2 DEF Fetches, FetchAnswered, Shape
  <2>3. \A i \in 1..Len(b) : b[i] \in Int /\ b[i] >= offset
    BY <1>a, <2>1, BatchFacts DEF MsgIds
  <2>4. \A i \in 1..Len(b) : b[i] \notin handled
    BY <1>a, <2>2, <2>3 DEF OnceInv
  <2>5. QED
    BY <2>1, <2>2, <2>4 DEF OnceInv
<1>3. CASE Breaks
  <2>1. /\ batch' = <<>> /\ pos' = 1 /\ ack' = "none" /\ pc # "ack" /\ pc' # "ack"
        /\ UNCHANGED <<late, offset, handled, repeated>>
    BY <1>3 DEF Breaks, Shape
  <2>2. QED
    BY <2>1 DEF OnceInv
<1>4. CASE Returns /\ pc' = "ack" /\ ack' = "sent"
  <2>1. /\ InBatch /\ pc # "ack" /\ ack' = "sent" /\ pc' = "ack"
        /\ handled' = handled \cup {Current}
        /\ repeated' = repeated \cup ({Current} \cap handled)
        /\ UNCHANGED <<late, offset>>
    BY <1>4 DEF Returns, HandlerReturned, Shape
  <2>2. UNCHANGED <<batch, pos>>
    BY <1>4 DEF Returns, MovesOn, NextMessage
  <2>3. Current \notin handled
    BY <1>a, <2>1 DEF InBatch, Current, OnceInv
  <2>4. \A i \in pos..Len(batch) : batch[i] = Current => i = pos
    BY <1>a, <2>1 DEF DeliveryInv, Distinct, InBatch, Current
  <2>5. QED
    BY <1>a, <2>1, <2>2, <2>3, <2>4 DEF OnceInv, Current
<1>5. ASSUME NextMessage("msg", "top") \/ NextMessage("handler", "fetch")
             \/ (pc' = "error_handler" /\ UNCHANGED <<batch, pos>>),
             ack' = "none", UNCHANGED <<late, offset, handled, repeated>>,
             \A m \in handled : m < offset,
             pc = "ack" => pc' # "error_handler"
      PROVE  OnceInv'
  <2>1. pc' # "ack"
    BY <1>5 DEF NextMessage
  <2>2. CASE pc' = "error_handler"
    <3>1. UNCHANGED <<batch, pos>> /\ pc # "ack"
      BY <1>5, <2>2 DEF NextMessage
    <3>2. QED
      BY <1>5, <2>1, <3>1 DEF OnceInv
  <2>3. CASE pc' # "error_handler" /\ pos < Len(batch)
    <3>1. batch' = batch /\ pos' = pos + 1
      BY <1>5, <2>3 DEF NextMessage
    <3>2. QED
      BY <1>5, <1>b, <2>1, <3>1 DEF OnceInv
  <2>4. CASE pc' # "error_handler" /\ ~ (pos < Len(batch))
    <3>1. batch' = <<>> /\ pos' = 1
      BY <1>5, <2>4 DEF NextMessage
    <3>2. QED
      BY <1>5, <2>1, <3>1 DEF OnceInv
  <2>5. QED
    BY <2>2, <2>3, <2>4
<1>6. CASE Fails
  <2>1. /\ pc = "handler" /\ ack' = "none" /\ MovesOn
        /\ UNCHANGED <<late, offset, handled, repeated>>
    BY <1>6 DEF Fails, HandlerFailed
  <2>2. \A m \in handled : m < offset
    BY <2>1 DEF OnceInv
  <2>3. QED
    BY <1>5, <2>1, <2>2 DEF MovesOn
<1>7. CASE Settles /\ (pc = "ack" => ack = "applied" /\ pc' # "error_handler")
  <2>1. /\ ack' = "none" /\ MovesOn /\ UNCHANGED <<late, offset, handled, repeated>>
        /\ (pc = "ack" => ack = "applied" /\ pc' # "error_handler")
    BY <1>7 DEF Settles, AbandonAck, Shape
  <2>2. \A m \in handled : m < offset
    BY <2>1 DEF OnceInv
  <2>3. QED
    BY <1>5, <2>1, <2>2 DEF MovesOn
<1>8. QED
  BY <1>1, <1>2, <1>3, <1>4, <1>6, <1>7 DEF Patient

(* The other steps keep it as well.                                          *)
LEMMA OnceNext ==
  ASSUME AutoAck, ~CanLose, ~CanCrash, SDKs \subseteq {"go", "rust", "java", "js"},
         ConsumersInv, OnceInv, [Next]_<<vars, sdk>>
  PROVE  OnceInv'
<1>a. /\ sdk \in {"go", "rust", "java", "js"}
      /\ Shape /\ DeliveryInv /\ StopSeen /\ TypeOKLoop
  BY DEF ConsumersInv, Shape
<1>1. CASE Broker
  <2>1. CASE Produce
    BY <2>1 DEF Produce, Send, history, OnceInv, Current
  <2>2. CASE BrokerAck
    <3>1. /\ offset' = Advanced(Current) /\ InBatch /\ pc = "ack"
          /\ UNCHANGED <<late, pc, batch, pos, handled, repeated>> /\ ack' = "applied"
      BY <1>a, <2>2 DEF BrokerAck, history, Shape
    <3>2. Current \in Int /\ offset \in Int /\ \A m \in handled : m \in Int
      BY <1>a, <3>1 DEF InBatch, Current, TypeOKLoop, MsgIds
    <3>3. offset' >= offset /\ Current < offset' /\ offset' \in Int
      BY <3>1, <3>2 DEF Advanced
    <3>4. QED
      BY <3>1, <3>2, <3>3 DEF OnceInv, Current
  <2>3. CASE BrokerLateAck
    BY <2>3 DEF BrokerLateAck, LateAck, OnceInv
  <2>4. QED
    BY <1>1, <2>1, <2>2, <2>3 DEF Broker
<1>2. CASE Crash
  BY <1>2 DEF Crash
<1>3. CASE Switch
  <2>1. /\ pc # "ack" /\ ack' = "none" /\ pc' = "off" /\ batch' = <<>> /\ pos' = 1
        /\ UNCHANGED <<late, offset, handled, repeated>>
    BY <1>a, <1>3 DEF Switch, Alive, Shape, mailboxVars, history
  <2>2. QED
    BY <2>1 DEF OnceInv
<1>4. CASE Consume
  <2>1. PICK entry \in PlacesOf(sdk) \cap {"top", "fetch"} : StartLoop(entry)
    BY <1>4, ConsumeStep
  <2>2. /\ pc # "ack" /\ ack' = "none" /\ pc' # "ack" /\ batch' = <<>> /\ pos' = 1
        /\ UNCHANGED <<late, offset, handled, repeated>>
    BY <2>1 DEF StartLoop, mailboxVars, history
  <2>3. QED
    BY <2>2 DEF OnceInv
<1>5. CASE Loop
  BY <1>a, <1>5, LoopStep, PatientKeeps
<1>6. CASE Stop \/ StopReturn
  BY <1>6, StopStep DEF OnceInv, Current
<1>7. CASE UNCHANGED <<vars, sdk>>
  BY <1>7 DEF vars, OnceInv, Current
<1>8. QED
  BY <1>1, <1>2, <1>3, <1>4, <1>5, <1>6, <1>7 DEF Next, Environment

(* With auto_ack, when no request is lost and the process does not die, no   *)
(* stop(), failure or restart makes the Go, Rust, Java or JavaScript SDK     *)
(* handle a message twice, whatever the priorities: the loop waits for its   *)
(* ACK before it ends.                                                       *)
THEOREM SdkHandledOnce ==
  ASSUME AutoAck, ~CanLose, ~CanCrash, SDKs \subseteq {"go", "rust", "java", "js"}
  PROVE  Spec => []HandledOnce
<1>1. Init => OnceInv
  BY DEF Init, LoopInit, MailboxInit, OnceInv
<1>2. ConsumersInv /\ OnceInv /\ [Next]_<<vars, sdk>> => OnceInv'
  BY OnceNext
<1>3. OnceInv => HandledOnce
  BY DEF OnceInv, HandledOnce
<1>4. QED
  BY <1>1, <1>2, <1>3, ConsumersInvariant, PTL DEF Spec
=============================================================================
