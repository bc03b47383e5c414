-------------------------- MODULE PyConsumerProofs ---------------------------
(* Proofs about the consume loop of the Python SDK, for any number of        *)
(* messages, any batch size, and any failures, losses and crashes.           *)
EXTENDS PyConsumer, ConsumeLoopProofs

PyInv == TypeOK /\ DeliveryInv

(* The loop moves on after a message that has been attempted.                *)
LEMMA MovesOn ==
  ASSUME TypeOK, DeliveryInv, InBatch, NextMessage("handler", "fetch"),
         UNCHANGED log, attempted \subseteq attempted', Current \in attempted'
  PROVE  /\ Distinct' /\ (Uniform => Covered')
         /\ batch' \in Seq(MsgIds) /\ pos' \in Nat \ {0}
         /\ pc' \in {"handler", "fetch"} /\ (pc' = "handler" => InBatch')
<1>1. pc' \in {"handler", "fetch"}
  BY DEF NextMessage
<1>2. QED
  BY <1>1, NextMessageKeeps DEF TypeOK

(* The except branch does, too, at once or after the error handler.          *)
LEMMA OnErrorMovesOn ==
  ASSUME TypeOK, DeliveryInv, InBatch, OnError,
         UNCHANGED log, attempted \subseteq attempted', Current \in attempted'
  PROVE  /\ Distinct' /\ (Uniform => Covered')
         /\ batch' \in Seq(MsgIds) /\ pos' \in Nat \ {0}
         /\ pc' \in {"handler", "fetch", "error_handler"}
         /\ pc' \in {"handler", "error_handler"} => InBatch'
         /\ pc' = "error_handler" => Current' \in attempted'
<1>1. CASE HasErrorHandler
  <2>1. pc' = "error_handler" /\ UNCHANGED <<batch, pos>>
    BY <1>1 DEF OnError
  <2>2. QED
    BY <2>1 DEF DeliveryInv, Distinct, Covered, TypeOK, TypeOKLoop, InBatch, Current, MsgIds
<1>2. CASE ~ HasErrorHandler
  BY <1>2, MovesOn DEF OnError
<1>3. QED
  BY <1>1, <1>2

(* The invariant holds before consume() is first called.                     *)
LEMMA PyInit == Init => PyInv
BY LoopInitTyped DEF Init, LoopInit, PyInv, TypeOK

(* Every step of the loop, of stop(), of the broker and a crash keeps it.    *)
LEMMA PyNext == PyInv /\ [Next]_vars => PyInv'
<1> SUFFICES ASSUME TypeOK, DeliveryInv, [Next]_vars
             PROVE  TypeOK' /\ DeliveryInv'
  BY DEF PyInv
<1>a. TypeOKLoop /\ (ack # "none" => InBatch)
  BY DEF TypeOK
<1>1. CASE Broker
  <2>1. TypeOKLoop' /\ DeliveryInv'
    BY <1>a, <1>1, BrokerKeeps
  <2>2. UNCHANGED <<pc, batch, pos, attempted>> /\ (ack' # "none" => ack # "none")
    BY <1>1 DEF Broker, Produce, BrokerAck, BrokerLateAck, history
  <2>3. QED
    BY <2>1, <2>2 DEF TypeOK, InBatch, Current
<1>2. CASE Consume
  <2>1. TypeOKLoop' /\ DeliveryInv'
    BY <1>a, <1>2, StartKeeps DEF Consume
  <2>2. QED
    BY <1>2, <2>1 DEF TypeOK, Consume, StartLoop, Awaits
<1>3. CASE Fetch
  <2>1. PICK b \in Batches : /\ batch' = b
                             /\ pc' = IF b = <<>> THEN "fetch" ELSE "handler"
    BY <1>3 DEF Fetch, FetchAnswered
  <2>2. /\ pos' = 1 /\ ack = "none"
        /\ UNCHANGED <<log, offset, late, ack, count, running, stop, attempted,
                       handled, repeated, counted>>
    BY <1>3 DEF Fetch, FetchAnswered, At, TypeOK, mailboxVars, history
  <2>3. DeliveryInv'
    BY <1>a, <2>1, <2>2, FetchKeeps DEF mailboxVars
  <2>4. b \in Seq(MsgIds)
    BY <1>a, <2>1, BatchFacts
  <2>5. pc' = "handler" => InBatch'
    BY <2>1, <2>2, <2>4 DEF InBatch
  <2>6. TypeOK'
    BY <1>a, <2>1, <2>2, <2>4, <2>5 DEF TypeOK, TypeOKLoop, MsgIds, Awaits
  <2>7. QED
    BY <2>3, <2>6
<1>4. CASE FetchError \/ Wake \/ Stop \/ StopReturn
  <2>1. /\ UNCHANGED <<log, offset, late, batch, pos, ack, count, attempted, handled,
                       repeated, counted>>
        /\ pc' \in {pc, "fetch", "sleep"} /\ (pc' # pc => ack = "none")
        /\ stop' \in {stop, "requested", "returned"} /\ running' \in {running, FALSE}
    BY <1>4 DEF FetchError, Wake, GoTo, Stop, StopCalled, StopReturn, StopReturned, At,
       mailboxVars, loopVars, history, TypeOK
  <2>2. DeliveryInv'
    BY <2>1 DEF DeliveryInv, NothingSkipped, AckedWasHandled, Distinct, Covered,
                LateCovered, Current, MsgIds
  <2>3. QED
    BY <2>1, <2>2 DEF TypeOK, TypeOKLoop, InBatch, Current, MsgIds, Awaits
<1>5. CASE HandlerOk
  <2>1. /\ pc = "handler" /\ InBatch /\ ack = "none" /\ HandlerReturned
        /\ UNCHANGED <<log, offset, late, running, stop>> /\ UNCHANGED mailboxVars
    BY <1>5 DEF HandlerOk, At, TypeOK, mailboxVars
  <2>2. ack' = "none" \/ (HandlerReturned /\ UNCHANGED <<batch, pos>>)
    BY <1>5, <2>1 DEF HandlerOk
  <2>3. /\ attempted' \subseteq MsgIds /\ handled' \subseteq attempted'
        /\ repeated' \subseteq handled' /\ attempted \subseteq attempted'
        /\ handled \subseteq handled' /\ Current \in attempted'
        /\ AckedWasHandled' /\ (Uniform => NothingSkipped' /\ LateCovered')
    BY <1>a, <2>1, <2>2, HandledKeeps
  <2>4. Current \in handled'
    BY <2>1 DEF HandlerReturned
  <2>5. CASE AutoAck
    <3>1. pc' = "ack" /\ ack' = "sent" /\ UNCHANGED <<batch, pos, count, counted>>
      BY <1>5, <2>5 DEF HandlerOk
    <3>2. Distinct' /\ (Uniform => Covered')
      BY <2>1, <2>3, <3>1 DEF DeliveryInv, Distinct, Covered, MsgIds
    <3>3. TypeOK'
      BY <1>a, <2>1, <2>3, <3>1 DEF TypeOK, TypeOKLoop, InBatch, Current, MsgIds, Awaits
    <3>4. QED
      BY <2>3, <3>2, <3>3 DEF DeliveryInv
  <2>6. CASE ~ AutoAck
    <3>1. NextMessage("handler", "fetch") /\ Counted /\ ack' = "none"
      BY <1>5, <2>1, <2>6 DEF HandlerOk
    <3>2. /\ Distinct' /\ (Uniform => Covered')
          /\ batch' \in Seq(MsgIds) /\ pos' \in Nat \ {0}
          /\ pc' \in {"handler", "fetch"} /\ (pc' = "handler" => InBatch')
      BY <2>1, <2>3, <3>1, MovesOn
    <3>3. count' \in 0..MaxCount /\ counted' \subseteq handled'
      BY <1>a, <2>3, <2>4, <3>1, ConsumeAssumption DEF Counted, CountUp, TypeOKLoop
    <3>4. TypeOK'
      BY <1>a, <2>1, <2>3, <3>1, <3>2, <3>3 DEF TypeOK, TypeOKLoop, MsgIds, Awaits
    <3>5. QED
      BY <2>3, <3>2, <3>4 DEF DeliveryInv
  <2>7. QED
    BY <2>5, <2>6
<1>6. CASE HandlerError
  <2>1. /\ pc = "handler" /\ InBatch /\ ack = "none" /\ HandlerFailed /\ OnError
        /\ UNCHANGED <<log, offset, late, ack, count, running, stop, counted>>
        /\ UNCHANGED mailboxVars
    BY <1>6 DEF HandlerError, At, TypeOK, mailboxVars
  <2>2. /\ attempted' \subseteq MsgIds /\ handled' \subseteq attempted'
        /\ repeated' \subseteq handled' /\ attempted \subseteq attempted'
        /\ handled \subseteq handled' /\ Current \in attempted'
        /\ AckedWasHandled' /\ (Uniform => NothingSkipped' /\ LateCovered')
    BY <1>a, <2>1, HandledKeeps
  <2>3. /\ Distinct' /\ (Uniform => Covered')
        /\ batch' \in Seq(MsgIds) /\ pos' \in Nat \ {0}
        /\ pc' \in {"handler", "fetch", "error_handler"}
        /\ pc' \in {"handler", "error_handler"} => InBatch'
        /\ pc' = "error_handler" => Current' \in attempted'
    BY <2>1, <2>2, OnErrorMovesOn
  <2>4. TypeOK'
    BY <1>a, <2>1, <2>2, <2>3 DEF TypeOK, TypeOKLoop, MsgIds, Awaits
  <2>5. QED
    BY <2>2, <2>3, <2>4 DEF DeliveryInv
<1>7. CASE AckOk \/ ErrorHandled
  <2>1. /\ InBatch /\ Current \in attempted /\ NextMessage("handler", "fetch")
        /\ UNCHANGED <<log, offset, late, running, stop, attempted, handled, repeated>>
        /\ ack' = "none"
    BY <1>7 DEF AckOk, ErrorHandled, At, TypeOK, mailboxVars, history
  <2>2. /\ Distinct' /\ (Uniform => Covered')
        /\ batch' \in Seq(MsgIds) /\ pos' \in Nat \ {0}
        /\ pc' \in {"handler", "fetch"} /\ (pc' = "handler" => InBatch')
    BY <2>1, MovesOn
  <2>3. count' \in 0..MaxCount /\ counted' \subseteq handled
    <3>1. CASE AckOk
      <4>1. Counted /\ Current \in handled
        BY <3>1 DEF AckOk, DeliveryInv, AckedWasHandled
      <4>2. QED
        BY <1>a, <4>1, ConsumeAssumption DEF Counted, CountUp, TypeOKLoop
    <3>2. CASE ErrorHandled
      BY <1>a, <3>2 DEF ErrorHandled, TypeOKLoop
    <3>3. QED
      BY <1>7, <3>1, <3>2
  <2>4. TypeOK'
    BY <1>a, <2>1, <2>2, <2>3 DEF TypeOK, TypeOKLoop, MsgIds, Awaits
  <2>5. AckedWasHandled' /\ (Uniform => NothingSkipped' /\ LateCovered')
    BY <2>1 DEF DeliveryInv, NothingSkipped, AckedWasHandled, LateCovered, MsgIds
  <2>6. QED
    BY <2>2, <2>4, <2>5 DEF DeliveryInv
<1>8. CASE AckError
  <2>1. /\ InBatch /\ Current \in attempted /\ AbandonAck /\ OnError /\ ack' = "none"
        /\ UNCHANGED <<log, offset, count, running, stop, attempted, handled, repeated, counted>>
    BY <1>8 DEF AckError, At, TypeOK, history, AbandonAck
  <2>2. /\ late' \subseteq MsgIds /\ AckedWasHandled'
        /\ Uniform => NothingSkipped' /\ LateCovered'
    BY <1>a, <2>1, AbandonKeeps
  <2>3. /\ Distinct' /\ (Uniform => Covered')
        /\ batch' \in Seq(MsgIds) /\ pos' \in Nat \ {0}
        /\ pc' \in {"handler", "fetch", "error_handler"}
        /\ pc' \in {"handler", "error_handler"} => InBatch'
        /\ pc' = "error_handler" => Current' \in attempted'
    BY <2>1, OnErrorMovesOn
  <2>4. TypeOK'
    BY <1>a, <2>1, <2>2, <2>3 DEF TypeOK, TypeOKLoop, MsgIds, Awaits
  <2>5. QED
    BY <2>2, <2>3, <2>4 DEF DeliveryInv
<1>9. CASE Cancelled
  <2>1. /\ AbandonAck /\ pc' = "done" /\ ack' = "none"
        /\ UNCHANGED <<log, offset, batch, pos, count, running, stop, attempted,
                       handled, repeated, counted>>
    BY <1>9 DEF Cancelled, history, AbandonAck
  <2>2. /\ late' \subseteq MsgIds /\ AckedWasHandled'
        /\ Uniform => NothingSkipped' /\ LateCovered'
    BY <1>a, <2>1, AbandonKeeps
  <2>3. Distinct' /\ (Uniform => Covered')
    BY <2>1 DEF DeliveryInv, Distinct, Covered, MsgIds
  <2>4. TypeOK'
    BY <1>a, <2>1, <2>2 DEF TypeOK, TypeOKLoop, MsgIds
  <2>5. QED
    BY <2>2, <2>3, <2>4 DEF DeliveryInv
<1>10. CASE Crash
  <2>1. TypeOKLoop' /\ DeliveryInv'
    BY <1>a, <1>10, CrashKeeps
  <2>2. QED
    BY <1>10, <2>1 DEF TypeOK, Crash, AbandonAck
<1>11. CASE UNCHANGED vars
  BY <1>11 DEF vars, TypeOK, TypeOKLoop, DeliveryInv, NothingSkipped, AckedWasHandled,
     Distinct, Covered, LateCovered, Current, InBatch, MsgIds
<1>12. QED
  BY <1>1, <1>2, <1>3, <1>4, <1>5, <1>6, <1>7, <1>8, <1>9, <1>10, <1>11 DEF Next, Loop

(* So the invariant holds throughout.                                        *)
LEMMA PyInvariant == Spec => []PyInv
BY PyInit, PyNext, PTL DEF Spec

(* Type correctness.                                                         *)
THEOREM PyTypeOK == Spec => []TypeOK
<1>1. PyInv => TypeOK
  BY DEF PyInv
<1>2. QED
  BY <1>1, PyInvariant, PTL

(* Whatever the priorities, only successful handling moves the group.        *)
THEOREM PyAckedWasHandled == Spec => []AckedWasHandled
<1>1. PyInv => AckedWasHandled
  BY DEF PyInv, DeliveryInv
<1>2. QED
  BY <1>1, PyInvariant, PTL

(* With messages of one priority, nothing is skipped.                        *)
THEOREM PyNothingSkipped == ASSUME Uniform PROVE Spec => []NothingSkipped
<1>1. PyInv => NothingSkipped
  BY DEF PyInv, DeliveryInv
<1>2. QED
  BY <1>1, PyInvariant, PTL

(* Every step is one of the contract's, or stutters there.                   *)
THEOREM PyImplementsContract == ASSUME Uniform PROVE Spec => ImplementsContract
<1>1. Init => Contract!Init
  BY DEF Init, LoopInit, MailboxInit, Contract!Init
<1>2. PyInv /\ [Next]_vars => [Contract!Next]_(Contract!contractVars)
  <2> SUFFICES ASSUME TypeOK, DeliveryInv, [Next]_vars
               PROVE  [Contract!Next]_(Contract!contractVars)
    BY DEF PyInv
  <2>1. CASE Broker
    BY <2>1, BrokerImplements DEF TypeOK
  <2>2. CASE HandlerOk \/ HandlerError
    <3>1. InBatch /\ (HandlerReturned \/ HandlerFailed) /\ UNCHANGED <<log, offset>>
      BY <2>2 DEF HandlerOk, HandlerError, At, TypeOK, mailboxVars
    <3>2. QED
      BY <3>1, HandlerImplements DEF TypeOK
  <2>3. CASE Consume \/ Fetch \/ FetchError \/ Wake \/ AckOk \/ AckError \/ ErrorHandled
             \/ Cancelled \/ Stop \/ StopReturn \/ Crash \/ UNCHANGED vars
    <3>1. UNCHANGED <<log, offset, attempted, handled>>
      BY <2>3 DEF Consume, StartLoop, Fetch, FetchAnswered, FetchError, Wake, GoTo, AckOk,
         AckError, ErrorHandled, Cancelled, Stop, StopCalled, StopReturn, StopReturned,
         Crash, mailboxVars, history, vars
    <3>2. QED
      BY <3>1, OthersImplement
  <2>4. QED
    BY <2>1, <2>2, <2>3 DEF Next, Loop
<1>3. QED
  BY <1>1, <1>2, PyInvariant, PTL DEF Spec, ImplementsContract, Contract!Spec

(* What the count rests on: a counted message is behind the offset, and what *)
(* is left of the batch is not counted yet.                                  *)
CountInv ==
  AutoAck =>
    /\ \A m \in counted : m < offset
    /\ ack = "applied" => Current < offset
    /\ \A i \in pos..Len(batch) : batch[i] \notin counted

(* Every step keeps CountInv; only the step after an applied ACK counts.     *)
LEMMA PyCountNext == PyInv /\ CountInv /\ [Next]_vars => CountInv'
<1> SUFFICES ASSUME TypeOK, DeliveryInv, CountInv, AutoAck, [Next]_vars
             PROVE  /\ \A m \in counted' : m < offset'
                    /\ ack' = "applied" => Current' < offset'
                    /\ \A i \in pos'..Len(batch') : batch'[i] \notin counted'
  BY DEF PyInv, CountInv
<1>a. /\ TypeOKLoop /\ offset \in Int /\ pos \in Int /\ Len(batch) \in Nat
      /\ \A m \in counted : m \in Int
      /\ \A i \in pos..Len(batch) : i \in 1..Len(batch)
  BY DEF TypeOK, TypeOKLoop, MsgIds
<1>b. InBatch => pos \in pos..Len(batch) /\ Current \in Int
  BY <1>a DEF InBatch, Current, TypeOKLoop, MsgIds
<1>1. CASE Produce
  BY <1>1 DEF Produce, Send, CountInv, Current
<1>2. CASE BrokerAck
  <2>1. /\ offset' = Advanced(Current) /\ InBatch
        /\ UNCHANGED <<batch, pos, counted>>
    BY <1>2 DEF BrokerAck, TypeOK
  <2>2. offset' >= offset /\ Current < offset' /\ offset' \in Int
    BY <1>a, <1>b, <2>1 DEF Advanced
  <2>3. QED
    BY <1>a, <2>1, <2>2 DEF CountInv, Current
<1>3. CASE BrokerLateAck
  <2>1. PICK m \in late : offset' = Advanced(m)
    BY <1>3 DEF BrokerLateAck, LateAck
  <2>2. UNCHANGED <<batch, pos, ack, counted>>
    BY <1>3 DEF BrokerLateAck
  <2>3. m \in Int
    BY <1>a DEF TypeOKLoop, MsgIds
  <2>4. offset' >= offset /\ offset' \in Int
    BY <1>a, <2>1, <2>3 DEF Advanced
  <2>5. ack = "applied" => Current \in Int
    BY <1>b DEF TypeOK
  <2>6. QED
    BY <1>a, <2>2, <2>4, <2>5 DEF CountInv, Current
<1>4. CASE Consume \/ Crash
  BY <1>4 DEF Consume, StartLoop, Crash, AbandonAck, CountInv, mailboxVars
<1>5. CASE Fetch
  <2>1. PICK b \in Batches : batch' = b
    BY <1>5 DEF Fetch, FetchAnswered
  <2>2. pos' = 1 /\ UNCHANGED <<offset, counted, ack>> /\ ack = "none"
    BY <1>5 DEF Fetch, FetchAnswered, At, TypeOK, mailboxVars
  <2>3. \A i \in 1..Len(b) : b[i] \in Int /\ b[i] >= offset
    BY <1>a, <2>1, BatchFacts DEF MsgIds
  <2>4. \A i \in 1..Len(b) : b[i] \notin counted
    BY <1>a, <2>3 DEF CountInv
  <2>5. QED
    BY <2>1, <2>2, <2>4 DEF CountInv
<1>6. CASE HandlerOk
  <2>1. ack' = "sent" /\ UNCHANGED <<offset, batch, pos, counted>>
    BY <1>6 DEF HandlerOk, mailboxVars
  <2>2. QED
    BY <2>1 DEF CountInv
<1>7. ASSUME NextMessage("handler", "fetch") \/ UNCHANGED <<batch, pos>>,
             ack' = "none", UNCHANGED <<offset, counted>>
      PROVE  /\ \A m \in counted' : m < offset'
             /\ ack' = "applied" => Current' < offset'
             /\ \A i \in pos'..Len(batch') : batch'[i] \notin counted'
  BY <1>7, <1>a DEF NextMessage, CountInv
<1>8. CASE HandlerError
  <2>1. ack' = "none" /\ UNCHANGED <<offset, counted>> /\ OnError
    BY <1>8 DEF HandlerError, At, TypeOK, mailboxVars
  <2>2. QED
    BY <2>1, <1>7 DEF OnError
<1>9. CASE AckError
  <2>1. ack' = "none" /\ UNCHANGED <<offset, counted>> /\ OnError
    BY <1>9 DEF AckError, AbandonAck
  <2>2. QED
    BY <2>1, <1>7 DEF OnError
<1>10. CASE ErrorHandled
  <2>1. ack' = "none" /\ UNCHANGED <<offset, counted>> /\ NextMessage("handler", "fetch")
    BY <1>10 DEF ErrorHandled, At, TypeOK, mailboxVars
  <2>2. QED
    BY <2>1, <1>7
<1>11. CASE Cancelled
  <2>1. ack' = "none" /\ UNCHANGED <<offset, counted, batch, pos>>
    BY <1>11 DEF Cancelled, AbandonAck
  <2>2. QED
    BY <2>1, <1>7
<1>12. CASE AckOk
  <2>1. /\ ack = "applied" /\ InBatch /\ ack' = "none" /\ UNCHANGED offset
        /\ counted' = counted \cup {Current} /\ NextMessage("handler", "fetch")
    BY <1>12 DEF AckOk, At, TypeOK, Counted, mailboxVars
  <2>2. \A m \in counted' : m < offset'
    BY <2>1 DEF CountInv
  <2>3. \A i \in (pos + 1)..Len(batch) : batch[i] \notin counted'
    <3>1. \A i \in (pos + 1)..Len(batch) : batch[i] # Current
      BY <1>a, <2>1 DEF DeliveryInv, Distinct, Current, InBatch
    <3>2. QED
      BY <1>a, <2>1, <3>1 DEF CountInv
  <2>4. \A i \in pos'..Len(batch') : batch'[i] \notin counted'
    BY <2>1, <2>3 DEF NextMessage
  <2>5. QED
    BY <2>1, <2>2, <2>4
<1>13. CASE FetchError \/ Wake \/ Stop \/ StopReturn \/ UNCHANGED vars
  BY <1>13 DEF FetchError, Wake, GoTo, Stop, StopCalled, StopReturn, StopReturned, vars,
     mailboxVars, loopVars, CountInv, Current
<1>14. QED
  BY <1>1, <1>2, <1>3, <1>4, <1>5, <1>6, <1>8, <1>9, <1>10, <1>11, <1>12, <1>13
  DEF Next, Loop, Broker

(* So it holds throughout.                                                   *)
LEMMA PyCountInvariant == Spec => []CountInv
<1>1. Init => CountInv
  BY DEF Init, LoopInit, CountInv
<1>2. QED
  BY <1>1, PyCountNext, PyInvariant, PTL DEF Spec

(* What has been counted has been acknowledged, for any priorities.          *)
THEOREM PyCountedIsAcked == Spec => []CountedIsAcked
<1>1. CountInv => CountedIsAcked
  BY DEF CountInv, CountedIsAcked
<1>2. QED
  BY <1>1, PyCountInvariant, PTL

(* With auto_ack, processed_count counts no message twice.                   *)
THEOREM PyCountedOnce == ASSUME AutoAck PROVE Spec => CountedOnce
<1>1. PyInv /\ CountInv /\ [Next]_vars => [count' > count => Current \notin counted]_vars
  <2> SUFFICES ASSUME TypeOK, CountInv, Next, count' > count
               PROVE  Current \notin counted
    BY DEF PyInv
  <2>1. count \in Int
    BY DEF TypeOK, TypeOKLoop
  <2>2. CASE AckOk
    <3>1. InBatch /\ pos \in pos..Len(batch)
      BY <2>2 DEF AckOk, At, TypeOK, TypeOKLoop, InBatch
    <3>2. QED
      BY <3>1 DEF CountInv, Current
  <2>3. CASE Broker
    BY <2>1, <2>3 DEF Broker, Produce, BrokerAck, BrokerLateAck
  <2>4. CASE Consume \/ Crash
    BY <2>1, <2>4 DEF Consume, StartLoop, Crash, TypeOK, TypeOKLoop
  <2>5. CASE Fetch \/ FetchError \/ Wake \/ HandlerOk \/ HandlerError \/ AckError
             \/ ErrorHandled \/ Cancelled \/ Stop \/ StopReturn
    BY <2>1, <2>5 DEF Fetch, FetchAnswered, FetchError, Wake, GoTo, HandlerOk, HandlerError,
       AckError, ErrorHandled, Cancelled, Stop, StopCalled, StopReturn, StopReturned
  <2>6. QED
    BY <2>2, <2>3, <2>4, <2>5 DEF Next, Loop
<1>2. QED
  BY <1>1, PyInvariant, PyCountInvariant, PTL DEF Spec, CountedOnce
=============================================================================
