--------------------------- MODULE TaskStreamProofs -------------------------
(* Proofs about the acknowledgement of task requests and about the streams   *)
(* that their senders receive, on the types of TaskAgentProofs.              *)
EXTENDS TaskAgentProofs, SequenceTheorems

(* Acknowledgement: what a message overtakes has a lower priority, unless it *)
(* has been passed already, by its last marker, a loss or an overtaking.     *)
Passed(m) == body[m].to = Sender => Ended(m) \/ m \in missed \/ Overtaken(m)

AckedPassed == \A m \in MsgIds : m < offset => Passed(m)

HandPassed == \A k \in MsgIds : at = "ack" /\ k = Cur => Passed(k)

BatchCovered ==
  \A i \in 1..Len(batch), k, m \in MsgIds : batch[i] = k /\ m < k =>
    Passed(m) \/ log[k] < log[m] \/ \E j \in 1..(i - 1) : batch[j] = m

LateCovered ==
  \A k \in late : Passed(k) /\ \A m \in MsgIds : m < k => Passed(m) \/ log[k] < log[m]

AckInv ==
  /\ headers /\ executor => AckedPassed /\ HandPassed /\ BatchCovered /\ LateCovered
  /\ ~ headers => at \in {"fetch", "dispatch", "closed"} /\ offset = 1 /\ late = {}

(* Streams: while nothing is lost every request is dispatched once, and what *)
(* its sender has got so far follows from where its dispatch is.             *)
Plain(n) == [i \in 1..n |-> [state |-> Stream[i], last |-> FALSE]]
FailedEvent == [state |-> "FAILED", last |-> TRUE]
CompletedEvent == [state |-> "COMPLETED", last |-> TRUE]

Legal(m) ==
  \E n \in 0..Len(Stream) :
    events[m] \in {Plain(n), Plain(n) \o <<FailedEvent>>, Plain(n) \o <<CompletedEvent>>,
                   Plain(n) \o <<FailedEvent, CompletedEvent>>}

SoFar ==
  \A n \in 0..Len(Stream) : step = n + 1 =>
    /\ at \in {"handler", "failed"} =>
         events[Cur] = IF InHand.to = Sender THEN Plain(n) ELSE <<>>
    /\ at = "flush" =>
         IF InHand.to = Sender
         THEN events[Cur] \in {Plain(n), Plain(n) \o <<FailedEvent>>}
         ELSE events[Cur] = <<>>

Untouched ==
  /\ \A i, j \in 1..Len(batch) : i < j => batch[i] # batch[j]
  /\ \A i \in 2..Len(batch) : events[batch[i]] = <<>>
  /\ at = "dispatch" => events[Cur] = <<>>
  /\ \A m \in 1..MaxMsgs :
       m >= offset /\ at # "closed" /\ events[m] # <<>> => Busy /\ m = Cur

Unstarted ==
  /\ step # 1 => at \in {"handler", "failed", "flush", "ack"}
  /\ at # "closed" => late = {}

StreamInv ==
  faults = 0 => (\A m \in 1..MaxMsgs : Legal(m)) /\ SoFar /\ Untouched /\ Unstarted

USE DEF inbox, setup, dispatch, posted, clients, Critical, Normal, Sender, Nobody

(* No step takes anything back from the inbox or from a sender's mailbox.    *)
Grows ==
  /\ MsgIds \subseteq MsgIds' /\ offset' \in Nat /\ offset' >= offset /\ missed \subseteq missed'
  /\ \A m \in MsgIds : body'[m] = body[m] /\ log'[m] = log[m] /\ (Ended(m) => Ended(m)')

LEMMA EndedStays ==
  ASSUME Typed, Busy, NEW lost \in 0..1, NEW last \in BOOLEAN,
         NEW state \in {"WORKING", "ARTIFACT", "COMPLETED", "FAILED"},
         SendEvent(lost, state, last)
  PROVE  /\ \A m \in MsgIds : Ended(m) => Ended(m)'
         /\ last /\ InHand.to = Sender /\ lost = 0 => \A k \in MsgIds : k = Cur => Ended(k)'
<1> DEFINE event == [state |-> state, last |-> last]
<1>1. /\ Cur \in MsgIds /\ Cur \in 1..MaxMsgs /\ event \in Events /\ MsgIds \subseteq 1..MaxMsgs
      /\ events \in [1..MaxMsgs -> Seq(Events)]
  BY CurFacts, MailboxAssumption DEF Typed, InboxTyped, PostedTyped, Events, MsgIds
<1>2. /\ \A m \in 1..MaxMsgs : m # Cur => events'[m] = events[m]
      /\ InHand.to # Sender => events' = events
      /\ InHand.to = Sender /\ lost = 0 => events'[Cur] = Append(events[Cur], event)
      /\ lost = 1 => events' = events
  BY EventFacts
<1>3. ASSUME events'[Cur] = Append(events[Cur], event)
      PROVE  /\ \A i \in DOMAIN events[Cur] : i \in DOMAIN events'[Cur]
                                              /\ events'[Cur][i] = events[Cur][i]
             /\ Len(events[Cur]) + 1 \in DOMAIN events'[Cur]
             /\ events'[Cur][Len(events[Cur]) + 1] = event
  <2>1. events[Cur] \in Seq(Events)
    BY <1>1
  <2> HIDE DEF event, Cur
  <2>2. QED
    BY <1>1, <1>3, <2>1
<1>4. ASSUME NEW m \in MsgIds, Ended(m) PROVE Ended(m)'
  <2>1. CASE events'[m] = events[m]
    BY <1>4, <2>1 DEF Ended
  <2>2. CASE m = Cur /\ events'[Cur] = Append(events[Cur], event)
    BY <1>3, <1>4, <2>2 DEF Ended
  <2>3. m \in 1..MaxMsgs /\ (lost = 0 \/ lost = 1)
    BY <1>1
  <2> HIDE DEF event, Cur, InHand
  <2>4. QED
    BY <1>2, <2>1, <2>2, <2>3
<1>5. ASSUME last, InHand.to = Sender, lost = 0, NEW k \in MsgIds, k = Cur PROVE Ended(k)'
  <2>1. event.last
    BY <1>5
  <2> HIDE DEF event, Cur, InHand
  <2>2. events'[Cur] = Append(events[Cur], event)
    BY <1>2, <1>5
  <2>3. /\ Len(events[Cur]) + 1 \in DOMAIN events'[Cur]
        /\ events'[Cur][Len(events[Cur]) + 1] = event
    BY <1>3, <2>2
  <2>4. QED
    BY <1>5, <2>1, <2>3 DEF Ended
<1>6. QED
  BY <1>4, <1>5

LEMMA StepGrows ==
  ASSUME Typed, Next
  PROVE  Grows
<1>a. offset \in Nat
  BY DEF Typed, InboxTyped
<1>b. ASSUME UNCHANGED <<log, body, events, missed>>, offset' \in Nat, offset' >= offset
      PROVE  Grows
  BY <1>b DEF Grows, MsgIds, Ended
<1>c. ASSUME NEW p \in {Critical, Normal}, NEW method \in Methods, NEW t \in Tasks,
             NEW to \in Int, Post(p, method, t, to), UNCHANGED <<events, missed>>
      PROVE  Grows
  <2>1. /\ MsgIds \subseteq MsgIds' /\ offset' = offset
        /\ \A m \in MsgIds : body'[m] = body[m] /\ log'[m] = log[m]
    BY <1>c, PostFacts
  <2>2. QED
    BY <1>a, <1>c, <2>1 DEF Grows, Ended
<1>d. ASSUME Busy, NEW lost \in 0..1, NEW last \in BOOLEAN,
             NEW state \in {"WORKING", "ARTIFACT", "COMPLETED", "FAILED"},
             SendEvent(lost, state, last), UNCHANGED <<log, body, offset>>
      PROVE  Grows
  <2>1. MsgIds' = MsgIds /\ missed \subseteq missed'
    BY <1>d, EventFacts DEF MsgIds
  <2>2. QED
    BY <1>a, <1>d, <2>1, EndedStays DEF Grows
<1>1. CASE SendMessage
  <2>1. PICK t \in Tasks, to \in {Sender, Nobody} : Post(Normal, "SendMessage", t, to)
    BY <1>1 DEF SendMessage
  <2>2. "SendMessage" \in Methods /\ to \in Int /\ UNCHANGED <<events, missed>>
    BY <1>1 DEF Methods, SendMessage
  <2>3. QED
    BY <1>c, <2>1, <2>2
<1>2. CASE \E d \in Callers, m \in Calls, t \in Tasks : Call(d, m, t)
  <2>1. PICK d \in Callers, method \in Calls, t \in Tasks : Call(d, method, t)
    BY <1>2
  <2>2. /\ Post(Normal, method, t, boxes + 1) \/ UNCHANGED <<log, body, offset>>
        /\ UNCHANGED <<events, missed>>
    BY <2>1 DEF Call, Ask
  <2>3. boxes + 1 \in Int /\ method \in Methods
    BY DEF Methods, Typed, ClientsTyped
  <2>4. QED
    BY <1>a, <1>b, <1>c, <2>2, <2>3
<1>3. CASE Notify
  <2>1. Busy /\ UNCHANGED <<events, missed>>
    BY <1>3 DEF Notify, At, Busy
  <2>2. Post(Critical, "event", InHand.task, Nobody) \/ UNCHANGED <<log, body, offset>>
    BY <1>3 DEF Notify
  <2>3. "event" \in Methods /\ Nobody \in Int /\ InHand.task \in Tasks
    BY <2>1, CurFacts DEF Methods
  <2>4. QED
    BY <1>a, <1>b, <1>c, <2>1, <2>2, <2>3
<1>4. CASE HandlerStep
  <2>1. PICK event \in 0..1 : SendEvent(event, Stream[step], FALSE)
    BY <1>4 DEF HandlerStep
  <2>2. /\ Busy /\ UNCHANGED <<log, body, offset>>
        /\ Stream[step] \in {"WORKING", "ARTIFACT", "COMPLETED", "FAILED"}
    <3>1. step \in 1..3
      BY <1>4, StreamFacts DEF HandlerStep, Typed, Placed
    <3>2. QED
      BY <1>4, <3>1, StreamFacts DEF HandlerStep, At, Busy
  <2>3. QED
    BY <1>d, <2>1, <2>2
<1>5. CASE SendFailed \/ FlushLast
  <2>1. PICK lost \in 0..1, state \in {"COMPLETED", "FAILED"} : SendEvent(lost, state, TRUE)
    BY <1>5 DEF SendFailed, FlushLast
  <2>2. Busy /\ UNCHANGED <<log, body, offset>>
    BY <1>5 DEF SendFailed, FlushLast, At, Busy
  <2>3. QED
    BY <1>d, <2>1, <2>2
<1>6. CASE Ack \/ BrokerLateAck
  <2>1. UNCHANGED <<log, body, events, missed>>
    BY <1>6 DEF Ack, BrokerLateAck, LateAck
  <2>2. (\E k \in MsgIds : offset' = Advanced(k)) \/ offset' = offset
    <3>1. CASE Ack
      BY <3>1, CurFacts DEF Ack, At, Busy
    <3>2. CASE BrokerLateAck
      BY <3>2 DEF BrokerLateAck, LateAck, Typed, InboxTyped
    <3>3. QED
      BY <1>6, <3>1, <3>2
  <2>3. \A k \in MsgIds : Advanced(k) \in Nat /\ Advanced(k) >= offset
    BY AdvancedFacts
  <2>4. QED
    BY <1>a, <1>b, <2>1, <2>2, <2>3
<1>7. ASSUME UNCHANGED <<log, body, offset, events, missed>> PROVE Grows
  BY <1>a, <1>b, <1>7
<1>8. CASE Clients \/ Close
  BY <1>1, <1>2, <1>7, <1>8 DEF Clients, CallEnds, Close
<1>9. CASE Loop
  BY <1>3, <1>4, <1>5, <1>6, <1>7, <1>9 DEF Loop, Fetch, DispatchRaises, DispatchSend,
     DispatchGet, DispatchList, DispatchCancel, CancelSave, Answer, HandlerDelete, HandlerEnds
<1>10. QED
  BY <1>6, <1>8, <1>9 DEF Next

(* A request that has been passed stays so.                                  *)
LEMMA PassedStays ==
  ASSUME Typed, Grows, NEW m \in MsgIds, Passed(m)
  PROVE  Passed(m)'
<1>1. CASE Overtaken(m)
  <2>1. PICK k \in m + 1..offset - 1 : log[k] < log[m]
    BY <1>1 DEF Overtaken
  <2>2. k \in MsgIds /\ k \in m + 1..offset' - 1
    BY <2>1 DEF Typed, InboxTyped, MsgIds, Grows
  <2>3. log'[k] < log'[m]
    BY <2>1, <2>2 DEF Grows
  <2>4. QED
    BY <2>2, <2>3 DEF Overtaken, Passed
<1>2. CASE ~ Overtaken(m)
  BY <1>2 DEF Passed, Grows
<1>3. QED
  BY <1>1, <1>2

(* The group gets past a message that was passed, and past what it overtakes.*)
LEMMA AckPasses ==
  ASSUME Typed, Grows, UNCHANGED <<log, body>>, AckedPassed, NEW k \in MsgIds, Passed(k),
         offset' = Advanced(k), \A m \in MsgIds : m < k => Passed(m) \/ log[k] < log[m]
  PROVE  AckedPassed'
<1> SUFFICES ASSUME NEW m \in MsgIds', m < offset' PROVE Passed(m)'
  BY DEF AckedPassed
<1>1. m \in MsgIds /\ MsgIds' = MsgIds /\ m \in Int /\ k \in Int /\ offset \in Int
  BY DEF MsgIds, Typed, InboxTyped
<1>2. CASE Passed(m)
  BY <1>1, <1>2, PassedStays
<1>3. CASE ~ Passed(m)
  <2>1. ~ (m < offset) /\ m # k
    BY <1>1, <1>3 DEF AckedPassed
  <2>2. m < k /\ offset' = k + 1
    BY <1>1, <2>1 DEF Advanced
  <2>3. log[k] < log[m] /\ k \in m + 1..offset' - 1
    BY <1>1, <1>3, <2>2
  <2>4. QED
    BY <2>3 DEF Passed, Overtaken
<1>4. QED
  BY <1>2, <1>3

(* With headers, where the loop and the broker take up a message.            *)
Answering == headers /\ executor /\ AckedPassed /\ HandPassed /\ BatchCovered /\ LateCovered

(* What the message in hand would overtake.                                  *)
LEMMA CurCovered ==
  ASSUME Typed, Answering, Busy
  PROVE  \A m \in MsgIds : m < Cur => Passed(m) \/ log[Cur] < log[m]
<1>1. Cur \in MsgIds /\ Cur = batch[1] /\ 1 \in 1..Len(batch)
  BY CurFacts DEF Typed, Placed
<1>2. \A j \in 1..(1 - 1) : FALSE
  OBVIOUS
<1>3. QED
  BY <1>1, <1>2 DEF Answering, BatchCovered

LEMMA AckedPassedNext ==
  ASSUME Typed, Answering, Next, Grows
  PROVE  AckedPassed'
<1>1. CASE offset' = offset
  <2>1. ASSUME NEW m \in MsgIds', m < offset' PROVE Passed(m)'
    <3>1. m \in MsgIds
      BY <1>1, <2>1 DEF Typed, InboxTyped, MsgIds
    <3>2. QED
      BY <1>1, <2>1, <3>1, PassedStays DEF Answering, AckedPassed
  <2>2. QED
    BY <2>1 DEF AckedPassed
<1>2. CASE Ack /\ offset' = Advanced(Cur)
  <2>1. Busy /\ at = "ack" /\ UNCHANGED <<log, body>>
    BY <1>2 DEF Ack, At, Busy
  <2>2. Cur \in MsgIds /\ Passed(Cur)
    BY <2>1, CurFacts DEF Answering, HandPassed
  <2>3. QED
    BY <1>2, <2>1, <2>2, CurCovered, AckPasses DEF Answering
<1>3. CASE BrokerLateAck
  <2>1. PICK k \in late : offset' = Advanced(k)
    BY <1>3 DEF BrokerLateAck, LateAck
  <2>2. UNCHANGED <<log, body>>
    BY <1>3 DEF BrokerLateAck, LateAck
  <2>3. k \in MsgIds
    BY <2>1 DEF Typed, InboxTyped
  <2>4. QED
    BY <2>1, <2>2, <2>3, AckPasses DEF Answering, LateCovered
<1>4. CASE Clients \/ Close
  BY <1>1, <1>4 DEF Clients, SendMessage, CallEnds, Call, Ask, Post, Send, Close
<1>5. CASE Loop
  BY <1>1, <1>2, <1>5 DEF Loop, Fetch, DispatchRaises, DispatchSend, DispatchGet,
     DispatchList, DispatchCancel, CancelSave, Notify, Answer, HandlerStep, HandlerDelete,
     HandlerEnds, SendFailed, FlushLast, Ack, Post, Send
<1>6. QED
  BY <1>3, <1>4, <1>5 DEF Next

LEMMA LateCoveredNext ==
  ASSUME Typed, Answering, Next, Grows
  PROVE  LateCovered'
<1>1. late' \subseteq late \/ (at = "ack" /\ late' = late \cup {Cur} /\ UNCHANGED log)
  <2>1. CASE Clients \/ Close \/ BrokerLateAck
    BY <2>1 DEF Clients, SendMessage, CallEnds, Call, Ask, Post, Send, Close, BrokerLateAck,
       LateAck
  <2>2. CASE Loop
    BY <2>2 DEF Loop, Fetch, DispatchRaises, DispatchSend, DispatchGet, At,
       DispatchList, DispatchCancel, CancelSave, Notify, Answer, HandlerStep, HandlerDelete,
       HandlerEnds, SendFailed, FlushLast, Ack, Post, Send
  <2>3. QED
    BY <2>1, <2>2 DEF Next
<1>2. ASSUME NEW k \in late'
      PROVE  /\ k \in MsgIds /\ Passed(k)
             /\ \A m \in MsgIds : m < k => Passed(m) \/ log[k] < log[m]
  <2>1. CASE k \in late
    BY <2>1 DEF Answering, LateCovered, Typed, InboxTyped
  <2>2. CASE k = Cur /\ at = "ack"
    <3>1. Busy
      BY <2>2 DEF Busy
    <3>2. QED
      BY <2>2, <3>1, CurFacts, CurCovered DEF Answering, HandPassed
  <2>3. QED
    BY <1>1, <1>2, <2>1, <2>2
<1>3. ASSUME NEW k \in late', NEW m \in MsgIds', m < k
      PROVE  Passed(m)' \/ log'[k] < log'[m]
  <2>1. k \in MsgIds /\ m \in MsgIds
    BY <1>2, <1>3 DEF MsgIds, Typed, InboxTyped
  <2>2. QED
    BY <1>2, <1>3, <2>1, PassedStays DEF Grows
<1>4. QED
  BY <1>2, <1>3, PassedStays DEF LateCovered

LEMMA BatchCoveredNext ==
  ASSUME Typed, Answering, Next, Grows
  PROVE  BatchCovered'
<1>a. /\ batch \in Seq(MsgIds) /\ Len(batch) \in Nat /\ Len(log) \in Nat
      /\ \A i \in 1..Len(batch) : batch[i] \in MsgIds
  BY DEF Typed, Placed, InboxTyped
<1>b. ASSUME NEW i \in 1..Len(batch), NEW k \in MsgIds', NEW m \in MsgIds', batch[i] = k, m < k
      PROVE  /\ k \in MsgIds /\ m \in MsgIds
             /\ Passed(m)' \/ log'[k] < log'[m] \/ \E j \in 1..(i - 1) : batch[j] = m
  <2>1. k \in MsgIds /\ m \in MsgIds
    BY <1>a, <1>b DEF MsgIds
  <2>2. Passed(m) \/ log[k] < log[m] \/ \E j \in 1..(i - 1) : batch[j] = m
    BY <1>b, <2>1 DEF Answering, BatchCovered
  <2>3. QED
    BY <2>1, <2>2, PassedStays DEF Grows
<1>1. CASE batch' = batch
  BY <1>b, <1>1 DEF BatchCovered
<1>2. CASE batch' = <<>>
  BY <1>2 DEF BatchCovered
<1>3. CASE Fetch
  <2>1. PICK b \in Batches : batch' = b
    BY <1>3 DEF Fetch
  <2>2. UNCHANGED <<log, offset>> /\ MsgIds' = MsgIds
    BY <1>3 DEF Fetch, MsgIds
  <2>3. ASSUME NEW i \in 1..Len(b), NEW k \in MsgIds, NEW m \in MsgIds, b[i] = k, m < k
        PROVE  Passed(m)' \/ log'[k] < log'[m] \/ \E j \in 1..(i - 1) : b[j] = m
    <3>1. m \in 1..(b[i] - 1)
      BY <1>a, <2>3 DEF MsgIds
    <3>2. m < offset \/ (\E j \in 1..(i - 1) : b[j] = m) \/ log[b[i]] < log[m]
      BY <3>1, BatchFacts
    <3>3. m < offset => Passed(m)'
      BY PassedStays DEF Answering, AckedPassed
    <3>4. QED
      BY <2>2, <2>3, <3>2, <3>3
  <2>4. QED
    BY <2>1, <2>2, <2>3 DEF BatchCovered
<1>4. CASE Ack
  <2>1. Busy /\ at = "ack" /\ batch' = Tail(batch) /\ batch # <<>>
    BY <1>4 DEF Ack, At, Busy, NextMessage, Typed, Placed
  <2>2. /\ Len(batch') = Len(batch) - 1
        /\ \A i \in 1..Len(batch') : i + 1 \in 1..Len(batch) /\ batch'[i] = batch[i + 1]
    BY <1>a, <2>1
  <2>3. Cur \in MsgIds /\ Cur = batch[1] /\ Passed(Cur)
    BY <2>1, CurFacts DEF Answering, HandPassed
  <2>4. ASSUME NEW i \in 1..Len(batch'), NEW k \in MsgIds', NEW m \in MsgIds', batch'[i] = k, m < k
        PROVE  Passed(m)' \/ log'[k] < log'[m] \/ \E j \in 1..(i - 1) : batch'[j] = m
    <3>1. i + 1 \in 1..Len(batch) /\ batch[i + 1] = k /\ i \in Nat
      BY <2>2, <2>4
    <3>2. /\ m \in MsgIds
          /\ Passed(m)' \/ log'[k] < log'[m] \/ \E j \in 1..((i + 1) - 1) : batch[j] = m
      BY <1>b, <2>4, <3>1
    <3>3. ASSUME NEW j \in 1..((i + 1) - 1), batch[j] = m
          PROVE  Passed(m)' \/ \E l \in 1..(i - 1) : batch'[l] = m
      <4>1. CASE j = 1
        BY <2>3, <3>2, <3>3, <4>1, PassedStays
      <4>2. CASE j # 1
        <5>1. j - 1 \in 1..(i - 1) /\ j - 1 \in 1..Len(batch') /\ (j - 1) + 1 = j
          BY <1>a, <2>2, <3>1, <4>2
        <5>2. batch'[j - 1] = m
          BY <2>2, <3>3, <5>1
        <5>3. QED
          BY <5>1, <5>2
      <4>3. QED
        BY <4>1, <4>2
    <3>4. QED
      BY <3>2, <3>3
  <2>5. QED
    BY <2>4 DEF BatchCovered
<1>5. CASE Clients \/ Close \/ BrokerLateAck
  BY <1>1, <1>2, <1>5 DEF Clients, SendMessage, CallEnds, Call, Ask, Close, BrokerLateAck, Leave
<1>6. CASE DispatchRaises
  BY <1>6 DEF DispatchRaises, Answering
<1>7. CASE Loop
  BY <1>1, <1>2, <1>3, <1>4, <1>6, <1>7 DEF Loop, DispatchSend, DispatchGet,
     DispatchList, DispatchCancel, CancelSave, Notify, Answer, HandlerStep, HandlerDelete,
     HandlerEnds, SendFailed, FlushLast, Leave
<1>8. QED
  BY <1>5, <1>7 DEF Next

LEMMA HandPassedNext ==
  ASSUME Typed, Answering, Next, Grows
  PROVE  HandPassed'
<1>a. ASSUME Busy, UNCHANGED batch, \A k \in MsgIds : k = Cur => Passed(k)'
      PROVE  HandPassed'
  <2>1. Cur \in MsgIds /\ Cur' = Cur
    BY <1>a, CurFacts DEF Cur
  <2>2. QED
    BY <1>a, <2>1 DEF HandPassed
<1>b. ASSUME Busy, InHand.to # Sender PROVE \A k \in MsgIds : k = Cur => Passed(k)'
  <2>1. \A k \in MsgIds : k = Cur => Passed(k)
    BY <1>b DEF Passed, InHand
  <2>2. QED
    BY <2>1, PassedStays
<1>c. ASSUME at' # "ack" PROVE HandPassed'
  BY <1>c DEF HandPassed
<1>d. ASSUME UNCHANGED <<at, batch>> PROVE HandPassed'
  <2>1. CASE at = "ack"
    <3>1. Busy /\ \A k \in MsgIds : k = Cur => Passed(k)'
      BY <2>1, PassedStays DEF Answering, HandPassed, Busy
    <3>2. QED
      BY <1>a, <1>d, <3>1
  <2>2. QED
    BY <1>c, <1>d, <2>1
<1>1. CASE DispatchSend
  <2>1. /\ Busy /\ UNCHANGED batch
        /\ at' = "ack" => InHand.method = "event"
    BY <1>1 DEF DispatchSend, Dispatch, At, Busy, Answering
  <2>2. InHand.method = "event" => InHand.to # Sender
    <3>1. Cur \in MsgIds /\ body[Cur] = InHand /\ "event" \notin Calls
      BY <2>1, CurFacts DEF InHand, Calls
    <3> HIDE DEF Cur, InHand
    <3>2. QED
      BY <3>1 DEF Typed, Addressed
  <2>3. QED
    BY <1>a, <1>b, <1>c, <2>1, <2>2
<1>2. CASE Notify \/ Answer
  <2>1. Busy /\ UNCHANGED batch /\ InHand.method \in Calls
    BY <1>2 DEF Notify, Answer, At, Busy, Typed, Placed, Calls
  <2>2. InHand.to # Sender
    <3>1. /\ Cur \in MsgIds /\ body[Cur] = InHand
          /\ "event" \notin Calls /\ "SendMessage" \notin Calls
      BY <2>1, CurFacts DEF InHand, Calls
    <3> HIDE DEF Cur, InHand
    <3>2. QED
      BY <2>1, <3>1 DEF Typed, Addressed, ClientsTyped
  <2>3. QED
    BY <1>a, <1>b, <2>1, <2>2
<1>3. CASE FlushLast /\ ~ closing
  <2>1. PICK lost \in 0..1 : SendEvent(lost, "COMPLETED", TRUE)
    BY <1>3 DEF FlushLast
  <2>2. Busy /\ UNCHANGED <<batch, log, body, offset>>
    BY <1>3 DEF FlushLast, Busy
  <2>3. CASE InHand.to # Sender
    BY <1>a, <1>b, <2>2, <2>3
  <2>4. CASE InHand.to = Sender /\ lost = 0
    <3>1. \A k \in MsgIds : k = Cur => Ended(k)'
      BY <2>1, <2>2, <2>4, EndedStays
    <3>2. QED
      BY <1>a, <2>2, <3>1 DEF Passed
  <2>5. CASE lost = 1
    <3>1. Cur \in missed'
      BY <2>1, <2>2, <2>5, EventFacts
    <3>2. QED
      BY <1>a, <2>2, <3>1 DEF Passed
  <2>6. QED
    BY <2>3, <2>4, <2>5
<1>4. CASE FlushLast /\ closing
  BY <1>c, <1>4 DEF FlushLast, Leave
<1>5. CASE Clients \/ Close \/ BrokerLateAck
  BY <1>c, <1>d, <1>5 DEF Clients, SendMessage, CallEnds, Call, Ask, Close, BrokerLateAck, Leave
<1>6. CASE Loop
  BY <1>c, <1>1, <1>2, <1>3, <1>4, <1>6 DEF Loop, Fetch, DispatchRaises, DispatchGet,
     DispatchList, DispatchCancel, CancelSave, HandlerStep, HandlerDelete, At,
     HandlerEnds, SendFailed, Ack, NextMessage
<1>7. QED
  BY <1>5, <1>6 DEF Next

(* Without headers every dispatch raises, and nothing is ever acknowledged.  *)
LEMMA RaisingNext ==
  ASSUME Typed, Next, ~ headers, at \in {"fetch", "dispatch", "closed"}, offset = 1, late = {}
  PROVE  at' \in {"fetch", "dispatch", "closed"} /\ offset' = 1 /\ late' = {}
<1>1. CASE Clients \/ Close \/ BrokerLateAck
  BY <1>1 DEF Clients, SendMessage, CallEnds, Call, Ask, Post, Send, Close, BrokerLateAck,
     LateAck, Leave
<1>2. CASE Loop
  BY <1>2 DEF Loop, Fetch, DispatchRaises, DispatchSend, DispatchGet, At, Dispatch,
     DispatchList, DispatchCancel, CancelSave, Notify, Answer, HandlerStep, HandlerDelete,
     HandlerEnds, SendFailed, FlushLast, Ack, NextMessage
<1>3. QED
  BY <1>1, <1>2 DEF Next

LEMMA SetupStays ==
  ASSUME Next
  PROVE  UNCHANGED <<headers, executor>>
<1>1. CASE Clients \/ Close \/ BrokerLateAck
  BY <1>1 DEF Clients, SendMessage, CallEnds, Call, Ask, Close, BrokerLateAck
<1>2. CASE Loop
  BY <1>2 DEF Loop, Fetch, DispatchRaises, DispatchSend, DispatchGet, DispatchList,
     DispatchCancel, CancelSave, Notify, Answer, HandlerStep, HandlerDelete, HandlerEnds,
     SendFailed, FlushLast, Ack
<1>3. QED
  BY <1>1, <1>2 DEF Next

LEMMA AckInvariant == Spec => []AckInv
<1>1. Init => AckInv
  BY DEF Init, MailboxInit, AckInv, AckedPassed, HandPassed, BatchCovered, LateCovered, MsgIds
<1>2. ASSUME Typed, AckInv, Next PROVE AckInv'
  <2>1. Grows /\ UNCHANGED <<headers, executor>>
    BY <1>2, StepGrows, SetupStays
  <2>2. CASE headers /\ executor
    <3>1. Answering
      BY <1>2, <2>2 DEF Answering, AckInv
    <3>2. QED
      BY <1>2, <2>1, <2>2, <3>1, AckedPassedNext, HandPassedNext, BatchCoveredNext,
         LateCoveredNext DEF AckInv
  <2>3. CASE headers /\ ~ executor
    BY <2>1, <2>3 DEF AckInv
  <2>4. CASE ~ headers
    BY <1>2, <2>1, <2>4, RaisingNext DEF AckInv
  <2>5. QED
    BY <2>2, <2>3, <2>4
<1>3. ASSUME Typed, AckInv, UNCHANGED vars PROVE AckInv'
  <2>1. UNCHANGED <<log, offset, late, body, headers, executor, at, batch, events, missed>>
    BY <1>3 DEF vars
  <2>2. MsgIds' = MsgIds /\ Cur' = Cur /\ \A m : Passed(m)' <=> Passed(m)
    BY <2>1 DEF MsgIds, Cur, Passed, Ended, Overtaken
  <2>3. (AckedPassed => AckedPassed') /\ (HandPassed => HandPassed')
    BY <2>1, <2>2 DEF AckedPassed, HandPassed
  <2>4. (BatchCovered => BatchCovered') /\ (LateCovered => LateCovered')
    BY <2>1, <2>2 DEF BatchCovered, LateCovered
  <2>5. QED
    BY <1>3, <2>1, <2>3, <2>4 DEF AckInv
<1>4. QED
  BY <1>1, <1>2, <1>3, TypedInvariant, PTL DEF Spec

(* No sender waits in vain (agent.py: _dispatch ends with flush_last, and    *)
(* _consume_loop acknowledges when it has returned): whatever the ACKs and   *)
(* the cancellation notices do, a task request that the group has got past   *)
(* has its last marker, unless an event of it was lost or a more important   *)
(* message was acknowledged over it.                                         *)
THEOREM TaskAckedIsAnswered == Spec => []AckedIsAnswered
<1>1. ASSUME Typed, AckInv PROVE AckedIsAnswered
  <2>1. CASE headers
    BY <1>1, <2>1 DEF AckInv, AckedPassed, Passed, AckedIsAnswered
  <2>2. CASE ~ headers
    <3>1. \A m \in MsgIds : ~ (m < offset)
      BY <1>1, <2>2 DEF AckInv, MsgIds
    <3>2. QED
      BY <3>1 DEF AckedIsAnswered
  <2>3. QED
    BY <2>1, <2>2
<1>2. QED
  BY <1>1, TypedInvariant, AckInvariant, PTL
-----------------------------------------------------------------------------
(* The streams as sequences.                                                 *)
LEMMA PlainFacts ==
  /\ Plain(0) = <<>>
  /\ \A n \in 0..3 :
       /\ Plain(n) \in Seq(Events)
       /\ \A e \in Events : Append(Plain(n), e) = Plain(n) \o <<e>>
       /\ \A e, f \in Events : Append(Plain(n) \o <<e>>, f) = Plain(n) \o <<e, f>>
  /\ \A n \in 0..2 : Append(Plain(n), [state |-> Stream[n + 1], last |-> FALSE]) = Plain(n + 1)
  /\ FailedEvent \in Events /\ CompletedEvent \in Events
<1>1. ASSUME NEW n \in 0..3 PROVE Plain(n) \in Seq(Events) /\ Len(Plain(n)) = n
  <2>1. \A i \in 1..n : [state |-> Stream[i], last |-> FALSE] \in Events
    BY StreamFacts DEF Events
  <2>2. QED
    BY <2>1 DEF Plain
<1>2. Plain(0) = <<>>
  BY <1>1
<1>3. ASSUME NEW n \in 0..3, NEW e \in Events, NEW f \in Events
      PROVE  /\ Append(Plain(n), e) = Plain(n) \o <<e>>
             /\ Append(Plain(n) \o <<e>>, f) = Plain(n) \o <<e, f>>
  <2>1. Plain(n) \in Seq(Events) /\ <<e>> \in Seq(Events) /\ <<f>> \in Seq(Events)
    BY <1>1
  <2>2. Append(Plain(n), e) = Plain(n) \o <<e>> /\ Plain(n) \o <<e>> \in Seq(Events)
    BY <2>1, AppendIsConcat, ConcatProperties
  <2>3. Append(Plain(n) \o <<e>>, f) = (Plain(n) \o <<e>>) \o <<f>>
    BY <2>2, AppendIsConcat
  <2>4. (Plain(n) \o <<e>>) \o <<f>> = Plain(n) \o (<<e>> \o <<f>>)
    BY <2>1, ConcatAssociative
  <2>5. <<e>> \o <<f>> = <<e, f>>
    <3>1. Append(<<e>>, f) = <<e>> \o <<f>>
      BY <2>1, AppendIsConcat
    <3>2. /\ Append(<<e>>, f) \in Seq(Events) /\ Len(Append(<<e>>, f)) = 2
          /\ Append(<<e>>, f)[1] = e /\ Append(<<e>>, f)[2] = f
      BY <2>1
    <3>3. <<e, f>> \in Seq(Events) /\ Len(<<e, f>>) = 2 /\ <<e, f>>[1] = e /\ <<e, f>>[2] = f
      BY <2>1
    <3>4. \A i \in 1..2 : i = 1 \/ i = 2
      OBVIOUS
    <3>5. \A i \in 1..2 : Append(<<e>>, f)[i] = <<e, f>>[i]
      BY <3>2, <3>3, <3>4
    <3>6. Append(<<e>>, f) = <<e, f>>
      BY <3>2, <3>3, <3>5, SeqEqual
    <3>7. QED
      BY <3>1, <3>6
  <2>6. QED
    BY <2>2, <2>3, <2>4, <2>5
<1>4. ASSUME NEW n \in 0..2
      PROVE  Append(Plain(n), [state |-> Stream[n + 1], last |-> FALSE]) = Plain(n + 1)
  <2> DEFINE e == [state |-> Stream[n + 1], last |-> FALSE]
             s == Append(Plain(n), e)
  <2>1. n \in 0..3 /\ n + 1 \in 0..3 /\ n + 1 \in 1..3 /\ n \in Nat
    OBVIOUS
  <2>2. e \in Events
    BY <2>1, StreamFacts DEF Events
  <2>3. Plain(n) \in Seq(Events) /\ Len(Plain(n)) = n
        /\ Plain(n + 1) \in Seq(Events) /\ Len(Plain(n + 1)) = n + 1
    BY <1>1, <2>1
  <2>4. /\ \A i \in 1..n : Plain(n)[i] = Plain(n + 1)[i]
        /\ Plain(n + 1)[n + 1] = e
    BY <2>1 DEF Plain
  <2> HIDE DEF e
  <2>5. /\ s \in Seq(Events) /\ Len(s) = n + 1 /\ s[n + 1] = e
        /\ \A i \in 1..n : s[i] = Plain(n)[i]
    BY <2>2, <2>3, AppendProperties
  <2>6. \A i \in 1..(n + 1) : i \in 1..n \/ i = n + 1
    BY <2>1
  <2>7. \A i \in 1..Len(s) : s[i] = Plain(n + 1)[i]
    BY <2>4, <2>5, <2>6
  <2> HIDE DEF s
  <2>8. s = Plain(n + 1)
    BY <2>3, <2>5, <2>7, SeqEqual
  <2>9. QED
    BY <2>8 DEF s, e
<1>5. FailedEvent \in Events /\ CompletedEvent \in Events
  BY DEF FailedEvent, CompletedEvent, Events
<1>6. QED
  BY <1>1, <1>2, <1>3, <1>4, <1>5

(* While nothing is lost.                                                    *)
Streams == (\A m \in 1..MaxMsgs : Legal(m)) /\ SoFar /\ Untouched /\ Unstarted

LEMMA NothingLost ==
  ASSUME Typed, NEW n \in 0..2, Losing(n), faults' = 0
  PROVE  faults = 0 /\ n = 0
BY DEF Typed, ClientsTyped, Losing

(* A step that leaves the loop, its batch and the streams alone.             *)
LEMMA StreamsStand ==
  ASSUME Typed, Streams, UNCHANGED <<at, batch, step, events, offset, late>>,
         \A m \in MsgIds : body'[m] = body[m]
  PROVE  Streams'
<1>1. Busy => InHand' = InHand
  BY CurFacts DEF InHand, Cur
<1>2. SoFar'
  <2>1. at \in {"handler", "failed", "flush"} => InHand' = InHand
    BY <1>1 DEF Busy
  <2>2. events[Cur]' = events[Cur]
    BY DEF Cur
  <2> HIDE DEF InHand, Cur
  <2>3. QED
    BY <2>1, <2>2 DEF Streams, SoFar
<1>3. Untouched' /\ Unstarted'
  BY DEF Streams, Untouched, Unstarted, Busy, Cur
<1>4. (\A m \in 1..MaxMsgs : Legal(m))'
  BY DEF Streams, Legal
<1>5. QED
  BY <1>2, <1>3, <1>4 DEF Streams

(* A step of the dispatch of the message in hand touches its stream only.    *)
LEMMA StreamsGoOn ==
  ASSUME Typed, Streams, Busy, Busy', at' # "dispatch", UNCHANGED <<batch, offset, late>>,
         \A m \in 1..MaxMsgs : m # Cur => events'[m] = events[m],
         \A m \in MsgIds : m = Cur => Legal(m)',
         step' # 1 => at' \in {"handler", "failed", "flush", "ack"}, SoFar'
  PROVE  Streams'
<1>a. /\ Cur \in MsgIds /\ Cur = batch[1] /\ Cur' = Cur /\ batch \in Seq(MsgIds)
      /\ MsgIds \subseteq 1..MaxMsgs
  BY CurFacts, MailboxAssumption DEF Cur, Typed, Placed, InboxTyped, MsgIds
<1>1. \A m \in 1..MaxMsgs : Legal(m)'
  BY <1>a DEF Streams, Legal
<1>2. Untouched'
  <2>1. \A i \in 2..Len(batch) : batch[i] # Cur /\ batch[i] \in 1..MaxMsgs
    BY <1>a DEF Streams, Untouched
  <2>2. \A i \in 2..Len(batch) : events'[batch[i]] = <<>>
    BY <2>1 DEF Streams, Untouched
  <2>3. ASSUME NEW m \in 1..MaxMsgs, m >= offset', events'[m] # <<>> PROVE m = Cur'
    <3>1. at # "closed"
      BY DEF Busy
    <3>2. QED
      BY <1>a, <2>3, <3>1 DEF Streams, Untouched
  <2>4. \A i, j \in 1..Len(batch) : i < j => batch[i] # batch[j]
    BY DEF Streams, Untouched
  <2>5. QED
    BY <2>2, <2>3, <2>4 DEF Untouched
<1>3. Unstarted'
  BY DEF Streams, Unstarted, Busy
<1>4. QED
  BY <1>1, <1>2, <1>3 DEF Streams

(* The next message of a batch has not been touched.                         *)
LEMMA StreamsNext ==
  ASSUME Typed, Streams, Busy, NextMessage, UNCHANGED <<events, late>>,
         \A m \in 1..MaxMsgs : m >= offset' => m >= offset /\ (m # Cur \/ events[m] = <<>>)
  PROVE  Streams'
<1>a. /\ batch \in Seq(MsgIds) /\ batch # <<>> /\ batch' = Tail(batch) /\ step' = 1
      /\ at' \in {"fetch", "dispatch"} /\ (at' = "dispatch" => batch' # <<>>) /\ at # "closed"
  BY DEF NextMessage, Typed, Placed, Busy
<1>b. /\ Len(batch') = Len(batch) - 1 /\ Len(batch) \in Nat
      /\ \A i \in 1..Len(batch') : i + 1 \in 2..Len(batch) /\ batch'[i] = batch[i + 1]
      /\ batch' # <<>> => 1 \in 1..Len(batch') /\ Cur' = batch'[1]
  BY <1>a DEF Cur
<1>1. \A m \in 1..MaxMsgs : Legal(m)'
  BY DEF Streams, Legal
<1>2. Untouched'
  <2>1. \A i \in 1..Len(batch') : events'[batch'[i]] = <<>>
    BY <1>b DEF Streams, Untouched
  <2>2. \A i, j \in 1..Len(batch') : i < j => batch'[i] # batch'[j]
    <3>1. \A i, j \in 1..Len(batch') :
            i < j => i + 1 < j + 1 /\ i + 1 \in 1..Len(batch) /\ j + 1 \in 1..Len(batch)
      BY <1>b
    <3>2. QED
      BY <1>b, <3>1 DEF Streams, Untouched
  <2>3. \A m \in 1..MaxMsgs : m >= offset' => events'[m] = <<>>
    BY <1>a DEF Streams, Untouched
  <2>4. at' = "dispatch" => events'[Cur'] = <<>>
    BY <1>a, <1>b, <2>1
  <2>5. \A i \in 2..Len(batch') : i \in 1..Len(batch')
    BY <1>b
  <2>6. QED
    BY <2>1, <2>2, <2>3, <2>4, <2>5 DEF Untouched
<1>3. SoFar' /\ Unstarted'
  BY <1>a DEF Streams, SoFar, Unstarted
<1>4. QED
  BY <1>1, <1>2, <1>3 DEF Streams

LEMMA StreamsLeave ==
  ASSUME Leave, \A m \in 1..MaxMsgs : Legal(m)'
  PROVE  Streams'
BY DEF Leave, Streams, SoFar, Untouched, Unstarted

LEMMA StreamsFetch ==
  ASSUME Typed, Streams, Fetch
  PROVE  Streams'
<1>1. PICK b \in Batches : batch' = b /\ at' = IF b = <<>> THEN "fetch" ELSE "dispatch"
  BY DEF Fetch
<1>2. UNCHANGED <<offset, late, step, events>> /\ at = "fetch"
  BY DEF Fetch, At
<1>3. /\ b \in Seq(MsgIds) /\ (\A i \in 1..Len(b) : b[i] \in MsgIds /\ b[i] >= offset)
      /\ \A i, j \in 1..Len(b) : i < j => b[i] # b[j]
  BY BatchFacts
<1>4. \A m \in 1..MaxMsgs : m >= offset => events[m] = <<>>
  BY <1>2 DEF Streams, Untouched, Busy
<1>5. \A i \in 1..Len(b) : events[b[i]] = <<>>
  BY <1>3, <1>4, MailboxAssumption DEF MsgIds, Typed, InboxTyped
<1>6. at' = "dispatch" => 1 \in 1..Len(b) /\ Cur' = b[1]
  BY <1>1, <1>3 DEF Cur
<1>7. Untouched'
  <2>1. \A i \in 2..Len(b) : i \in 1..Len(b)
    BY <1>3
  <2>2. QED
    BY <1>1, <1>2, <1>3, <1>4, <1>5, <1>6, <2>1 DEF Untouched
<1>8. SoFar' /\ Unstarted' /\ \A m \in 1..MaxMsgs : Legal(m)'
  BY <1>1, <1>2 DEF Streams, SoFar, Unstarted, Legal
<1>9. QED
  BY <1>7, <1>8 DEF Streams

(* Steps of the handler and of its dispatch write the stream.                *)
LEMMA StreamsWritten ==
  ASSUME Typed, Streams, HandlerStep \/ SendFailed \/ FlushLast, faults = 0, faults' = 0
  PROVE  Streams'
<1>a. /\ Busy /\ Cur \in MsgIds /\ Cur \in 1..MaxMsgs /\ step \in 1..4
      /\ events \in [1..MaxMsgs -> Seq(Events)] /\ UNCHANGED <<log, body, offset, late>>
  <2>1. Busy /\ UNCHANGED <<log, body, offset, late>>
    BY DEF HandlerStep, SendFailed, FlushLast, At, Busy
  <2>2. QED
    BY <2>1, CurFacts, StreamFacts DEF Typed, Placed, PostedTyped
<1>b. PICK n \in 0..3 : step = n + 1
  <2>1. step - 1 \in 0..3 /\ step = (step - 1) + 1
    BY <1>a
  <2>2. QED
    BY <2>1
<1>c. ASSUME batch' = batch
      PROVE  Cur' = Cur /\ InHand' = InHand
  BY <1>a, <1>c DEF Cur, InHand
<1>d. n \in 0..Len(Stream) /\ Plain(n) \in Seq(Events)
  BY StreamFacts, PlainFacts
<1>1. CASE HandlerStep
  <2>1. PICK event \in 0..1, save \in 0..1 :
          Losing(event + save) /\ SendEvent(event, Stream[step], FALSE)
    BY <1>1 DEF HandlerStep
  <2>2. event = 0
    BY <2>1, NothingLost
  <2>3. /\ at = "handler" /\ at' = "handler" /\ step <= Len(Stream) /\ step' = step + 1
        /\ UNCHANGED batch
    BY <1>1 DEF HandlerStep, At
  <2>4. n \in 0..2 /\ step' = (n + 1) + 1 /\ n + 1 \in 0..3 /\ n + 1 \in 1..3 /\ step = n + 1
    BY <1>b, <2>3, StreamFacts
  <2>5. Stream[step] \in {"WORKING", "ARTIFACT", "COMPLETED", "FAILED"} /\ FALSE \in BOOLEAN
    BY <2>4, StreamFacts
  <2>6. /\ \A m \in 1..MaxMsgs : m # Cur => events'[m] = events[m]
        /\ InHand.to # Sender => events' = events
        /\ InHand.to = Sender =>
             events'[Cur] = Append(events[Cur], [state |-> Stream[n + 1], last |-> FALSE])
    BY <1>a, <2>1, <2>2, <2>4, <2>5, EventFacts
  <2>7. events[Cur] = IF InHand.to = Sender THEN Plain(n) ELSE <<>>
    BY <1>b, <1>d, <2>3 DEF Streams, SoFar
  <2>8. events'[Cur] = IF InHand.to = Sender THEN Plain(n + 1) ELSE <<>>
    <3> HIDE DEF Cur, InHand, Sender
    <3>1. Append(Plain(n), [state |-> Stream[n + 1], last |-> FALSE]) = Plain(n + 1)
      BY <2>4, PlainFacts
    <3>2. QED
      BY <2>6, <2>7, <3>1
  <2>9. \A m \in MsgIds : m = Cur => Legal(m)'
    <3>1. events'[Cur] \in {Plain(0), Plain(n + 1)}
      BY <2>8, PlainFacts
    <3>2. 0 \in 0..Len(Stream) /\ n + 1 \in 0..Len(Stream)
      BY <2>4, StreamFacts
    <3>3. QED
      BY <3>1, <3>2 DEF Legal
  <2>10. SoFar'
    <3>1. \A k \in 0..Len(Stream) : step' = k + 1 => k = n + 1
      BY <2>4, StreamFacts
    <3>2. Cur' = Cur /\ InHand' = InHand
      BY <1>c, <2>3
    <3> HIDE DEF Cur, InHand, Sender
    <3>3. QED
      BY <2>3, <2>8, <3>1, <3>2 DEF SoFar
  <2>11. QED
    <3>1. Busy' /\ at' # "dispatch" /\ (step' # 1 => at' \in {"handler", "failed", "flush", "ack"})
      BY <2>3 DEF Busy
    <3>2. QED
      BY <1>a, <2>3, <2>6, <2>9, <2>10, <3>1, StreamsGoOn
<1>2. CASE SendFailed
  <2>1. PICK lost \in 0..1 : Losing(lost) /\ SendEvent(lost, "FAILED", TRUE)
    BY <1>2 DEF SendFailed
  <2>2. lost = 0
    BY <2>1, NothingLost
  <2>3. at = "failed" /\ at' = "flush" /\ UNCHANGED <<batch, step>>
    BY <1>2 DEF SendFailed, At
  <2>4. /\ \A m \in 1..MaxMsgs : m # Cur => events'[m] = events[m]
        /\ InHand.to # Sender => events' = events
        /\ InHand.to = Sender => events'[Cur] = Append(events[Cur], FailedEvent)
    <3>1. TRUE \in BOOLEAN
      OBVIOUS
    <3>2. QED
      BY <1>a, <2>1, <2>2, <3>1, EventFacts DEF FailedEvent
  <2>5. events[Cur] = IF InHand.to = Sender THEN Plain(n) ELSE <<>>
    BY <1>b, <1>d, <2>3 DEF Streams, SoFar
  <2>6. events'[Cur] = IF InHand.to = Sender THEN Plain(n) \o <<FailedEvent>> ELSE <<>>
    <3> HIDE DEF Cur, InHand, Sender
    <3>1. Append(Plain(n), FailedEvent) = Plain(n) \o <<FailedEvent>>
      BY PlainFacts
    <3>2. QED
      BY <2>4, <2>5, <3>1
  <2>7. \A m \in MsgIds : m = Cur => Legal(m)'
    <3>1. events'[Cur] \in {Plain(0), Plain(n) \o <<FailedEvent>>}
      BY <2>6, PlainFacts
    <3>2. 0 \in 0..Len(Stream)
      BY StreamFacts
    <3>3. QED
      BY <1>d, <3>1, <3>2 DEF Legal
  <2>8. SoFar'
    <3>1. \A k \in 0..Len(Stream) : step' = k + 1 => k = n
      BY <1>b, <2>3, StreamFacts
    <3>2. Cur' = Cur /\ InHand' = InHand
      BY <1>c, <2>3
    <3> HIDE DEF Cur, InHand, Sender
    <3>3. QED
      BY <2>3, <2>6, <3>1, <3>2 DEF SoFar
  <2>9. QED
    <3>1. Busy' /\ at' # "dispatch" /\ (step' # 1 => at' \in {"handler", "failed", "flush", "ack"})
      BY <2>3 DEF Busy
    <3>2. QED
      BY <1>a, <2>3, <2>4, <2>7, <2>8, <3>1, StreamsGoOn
<1>3. CASE FlushLast
  <2>1. PICK lost \in 0..1 : Losing(lost) /\ SendEvent(lost, "COMPLETED", TRUE)
    BY <1>3 DEF FlushLast
  <2>2. lost = 0
    BY <2>1, NothingLost
  <2>3. at = "flush"
    BY <1>3 DEF FlushLast
  <2>4. /\ \A m \in 1..MaxMsgs : m # Cur => events'[m] = events[m]
        /\ InHand.to # Sender => events' = events
        /\ InHand.to = Sender => events'[Cur] = Append(events[Cur], CompletedEvent)
    <3>1. TRUE \in BOOLEAN
      OBVIOUS
    <3>2. QED
      BY <1>a, <2>1, <2>2, <3>1, EventFacts DEF CompletedEvent
  <2>5. IF InHand.to = Sender
        THEN events[Cur] \in {Plain(n), Plain(n) \o <<FailedEvent>>}
        ELSE events[Cur] = <<>>
    BY <1>b, <1>d, <2>3 DEF Streams, SoFar
  <2>6. events'[Cur] \in {Plain(0), Plain(n) \o <<CompletedEvent>>,
                         Plain(n) \o <<FailedEvent, CompletedEvent>>}
    <3> HIDE DEF Cur, InHand, Sender
    <3>1. /\ Append(Plain(n), CompletedEvent) = Plain(n) \o <<CompletedEvent>>
          /\ Append(Plain(n) \o <<FailedEvent>>, CompletedEvent)
               = Plain(n) \o <<FailedEvent, CompletedEvent>>
          /\ Plain(0) = <<>>
      BY PlainFacts
    <3>2. QED
      BY <2>4, <2>5, <3>1
  <2>7. \A m \in MsgIds : m = Cur => Legal(m)'
    <3>1. 0 \in 0..Len(Stream)
      BY StreamFacts
    <3>2. QED
      BY <1>d, <2>6, <3>1 DEF Legal
  <2>8. CASE closing
    <3>1. Leave
      BY <1>3, <2>8 DEF FlushLast
    <3>2. \A m \in 1..MaxMsgs : Legal(m)'
      BY <1>a, <2>4, <2>7 DEF Streams, Legal
    <3>3. QED
      BY <3>1, <3>2, StreamsLeave
  <2>9. CASE ~ closing
    <3>1. at' = "ack" /\ UNCHANGED batch
      BY <1>3, <2>9 DEF FlushLast
    <3>2. /\ Busy' /\ at' # "dispatch" /\ SoFar'
          /\ (step' # 1 => at' \in {"handler", "failed", "flush", "ack"})
      BY <3>1 DEF Busy, SoFar
    <3>3. QED
      BY <1>a, <2>4, <2>7, <3>1, <3>2, StreamsGoOn
  <2>10. QED
    BY <2>8, <2>9
<1>4. QED
  BY <1>1, <1>2, <1>3

(* Steps of a dispatch that leave every stream alone.                        *)
LEMMA StreamsMoved ==
  ASSUME Typed, Streams, Busy, Busy', at' # "dispatch",
         UNCHANGED <<batch, step, offset, late, events>>,
         \A m \in MsgIds : body'[m] = body[m],
         at' = "handler" => at = "dispatch",
         at' = "failed" => at = "handler",
         at' = "flush" => at \in {"handler", "failed", "flush"},
         at \in {"handler", "failed", "flush", "ack"} => at' \in {"failed", "flush", "ack"}
  PROVE  Streams'
<1>1. Cur' = Cur /\ InHand' = InHand /\ Cur \in MsgIds /\ Cur \in 1..MaxMsgs
  BY CurFacts DEF InHand, Cur
<1>2. events'[Cur'] = events[Cur] /\ InHand'.to = InHand.to
  BY <1>1
<1>3. SoFar'
  <2>1. ASSUME NEW n \in 0..Len(Stream), step' = n + 1
        PROVE  /\ at' \in {"handler", "failed"} =>
                    events'[Cur'] = IF InHand'.to = Sender THEN Plain(n) ELSE <<>>
               /\ at' = "flush" =>
                    IF InHand'.to = Sender
                    THEN events'[Cur'] \in {Plain(n), Plain(n) \o <<FailedEvent>>}
                    ELSE events'[Cur'] = <<>>
    <3>1. CASE at = "dispatch"
      <4>1. events[Cur] = <<>> /\ n = 0 /\ at' # "failed" /\ at' # "flush"
        BY <2>1, <3>1, StreamFacts DEF Streams, Untouched, Unstarted
      <4>2. Plain(n) = <<>>
        BY <4>1, PlainFacts
      <4> HIDE DEF Cur, InHand, Sender
      <4>3. QED
        BY <1>2, <4>1, <4>2
    <3>2. CASE at # "dispatch"
      <4>1. /\ at \in {"handler", "failed"} =>
                 events[Cur] = IF InHand.to = Sender THEN Plain(n) ELSE <<>>
            /\ at = "flush" =>
                 IF InHand.to = Sender
                 THEN events[Cur] \in {Plain(n), Plain(n) \o <<FailedEvent>>}
                 ELSE events[Cur] = <<>>
        BY <2>1 DEF Streams, SoFar
      <4> HIDE DEF Cur, InHand, Sender
      <4>2. QED
        BY <1>2, <3>2, <4>1
    <3>3. QED
      BY <3>1, <3>2
  <2> HIDE DEF Cur, InHand, Sender
  <2>2. QED
    BY <2>1 DEF SoFar
<1>4. \A m \in MsgIds : m = Cur => Legal(m)'
  BY <1>1 DEF Streams, Legal
<1>5. step' # 1 => at' \in {"handler", "failed", "flush", "ack"}
  BY DEF Streams, Unstarted
<1>6. QED
  BY <1>3, <1>4, <1>5, StreamsGoOn

LEMMA StreamNext ==
  ASSUME Typed, StreamInv, Next, faults' = 0
  PROVE  Streams'
<1>a. faults = 0 => Streams
  BY DEF StreamInv, Streams
<1>b. ASSUME NEW m \in MsgIds, UNCHANGED body PROVE body'[m] = body[m]
  BY <1>b
<1>1. CASE SendMessage \/ (\E d \in Callers, m \in Calls, t \in Tasks : Call(d, m, t))
           \/ (\E d \in Callers : CallEnds(d))
  <2>1. UNCHANGED <<at, batch, step, events, offset, late>>
    BY <1>1 DEF SendMessage, Call, Ask, CallEnds, Post, Send
  <2>2. faults = 0
    <3>1. CASE UNCHANGED faults
      BY <3>1
    <3>2. CASE Losing(0) \/ Losing(1)
      BY <3>2, NothingLost
    <3>3. QED
      BY <1>1, <3>1, <3>2 DEF SendMessage, Call, Ask, CallEnds
  <2>3. \A m \in MsgIds : body'[m] = body[m]
    BY <1>1, StepGrows DEF Grows
  <2>4. QED
    BY <1>a, <2>1, <2>2, <2>3, StreamsStand
<1>2. CASE Fetch
  BY <1>a, <1>2, StreamsFetch DEF Fetch
<1>3. CASE DispatchRaises
  <2>1. Busy /\ at = "dispatch" /\ NextMessage /\ UNCHANGED <<events, late, offset, faults>>
    BY <1>3 DEF DispatchRaises, At, Busy
  <2>2. Streams /\ events[Cur] = <<>>
    BY <1>a, <2>1 DEF Streams, Untouched
  <2>3. QED
    BY <2>1, <2>2, StreamsNext
<1>4. CASE Ack
  <2>1. Busy /\ NextMessage /\ UNCHANGED events
    BY <1>4 DEF Ack, At, Busy
  <2>2. \/ Losing(0) /\ offset' = Advanced(Cur) /\ late' = late
        \/ Losing(1)
    BY <1>4 DEF Ack
  <2>3. faults = 0 /\ offset' = Advanced(Cur) /\ late' = late
    BY <2>2, NothingLost
  <2>4. \A m \in 1..MaxMsgs : m >= offset' => m >= offset /\ m # Cur
    <3>1. Cur \in MsgIds
      BY <2>1, CurFacts
    <3>2. \A k \in MsgIds : offset' = Advanced(k) =>
            \A m \in 1..MaxMsgs : m >= offset' => m >= offset /\ m # k
      BY DEF Advanced, Typed, InboxTyped, MsgIds
    <3>3. QED
      BY <2>3, <3>1, <3>2
  <2>5. QED
    BY <1>a, <2>1, <2>3, <2>4, StreamsNext
<1>5. CASE HandlerStep \/ SendFailed \/ FlushLast
  <2>1. faults = 0
    <3>1. CASE HandlerStep
      <4>1. PICK event \in 0..1, save \in 0..1 : Losing(event + save)
        BY <3>1 DEF HandlerStep
      <4>2. event + save \in 0..2
        OBVIOUS
      <4>3. QED
        BY <4>1, <4>2, NothingLost
    <3>2. CASE SendFailed \/ FlushLast
      <4>1. PICK lost \in 0..1 : Losing(lost)
        BY <3>2 DEF SendFailed, FlushLast
      <4>2. QED
        BY <4>1, NothingLost
    <3>3. QED
      BY <1>5, <3>1, <3>2
  <2>2. QED
    BY <1>a, <1>5, <2>1, StreamsWritten
<1>6. CASE DispatchSend \/ DispatchGet \/ DispatchList \/ DispatchCancel \/ CancelSave \/ Notify
           \/ Answer \/ HandlerDelete \/ HandlerEnds
  <2>1. faults = 0
    <3>1. CASE DispatchSend \/ HandlerEnds
      BY <3>1 DEF DispatchSend, HandlerEnds
    <3>2. CASE DispatchGet \/ DispatchList \/ DispatchCancel
      BY <3>2, NothingLost DEF DispatchGet, DispatchList, DispatchCancel
    <3>3. CASE CancelSave \/ HandlerDelete
      BY <3>3, NothingLost DEF CancelSave, HandlerDelete
    <3>4. CASE Notify \/ Answer
      <4>1. Losing(0) \/ Losing(1)
        BY <3>4 DEF Notify, Answer
      <4>2. QED
        BY <4>1, NothingLost
    <3>5. QED
      BY <1>6, <3>1, <3>2, <3>3, <3>4
  <2>2. \A m \in MsgIds : body'[m] = body[m]
    BY <1>6, StepGrows DEF Grows
  <2>3. UNCHANGED <<batch, step, offset, late, events>>
    BY <1>6 DEF DispatchSend, DispatchGet, DispatchList, DispatchCancel, CancelSave, Notify,
       Answer, HandlerDelete, HandlerEnds, Post, Send
  <2>4. /\ at \in {"dispatch", "cancel", "notify", "answer", "handler"}
        /\ at' \in {"handler", "ack", "answer", "notify", "cancel", "flush", "failed"}
        /\ at' = "handler" => at = "dispatch"
        /\ at' \in {"failed", "flush"} => at = "handler"
        /\ at = "handler" => at' \in {"failed", "flush"}
    BY <1>6 DEF DispatchSend, DispatchGet, DispatchList, DispatchCancel, CancelSave, Notify,
       Answer, HandlerDelete, HandlerEnds, Dispatch, At
  <2>5. Busy /\ Busy' /\ at' # "dispatch"
    BY <2>4 DEF Busy
  <2>6. QED
    BY <1>a, <2>1, <2>2, <2>3, <2>4, <2>5, StreamsMoved
<1>7. CASE Close
  <2>1. UNCHANGED <<events, offset, faults, body>> /\ Streams
    BY <1>a, <1>7 DEF Close
  <2>2. CASE Leave
    BY <2>1, <2>2, StreamsLeave DEF Streams, Legal
  <2>3. CASE at \in {"handler", "failed", "flush"} /\ at' = "flush" /\ UNCHANGED <<batch, dispatch>>
    <3>1. late' = late
      BY <1>7, <2>3 DEF Close
    <3>2. Busy /\ Busy' /\ at' # "dispatch"
      BY <2>3 DEF Busy
    <3>3. QED
      BY <1>b, <2>1, <2>3, <3>1, <3>2, StreamsMoved
  <2>4. QED
    BY <1>7, <2>2, <2>3 DEF Close
<1>8. CASE BrokerLateAck
  <2>1. UNCHANGED <<at, batch, step, events, body, faults>> /\ late # {}
    BY <1>8 DEF BrokerLateAck, LateAck
  <2>2. Streams /\ at = "closed"
    BY <1>a, <2>1 DEF Streams, Unstarted
  <2>3. (\A m \in 1..MaxMsgs : Legal(m)') /\ SoFar' /\ Unstarted'
    BY <2>1, <2>2 DEF Streams, Legal, SoFar, Unstarted
  <2>4. Untouched'
    BY <2>1, <2>2 DEF Streams, Untouched
  <2>5. QED
    BY <2>3, <2>4 DEF Streams
<1>9. QED
  BY <1>1, <1>2, <1>3, <1>4, <1>5, <1>6, <1>7, <1>8 DEF Next, Clients, Loop

LEMMA StreamInvariant == Spec => []StreamInv
<1>1. Init => StreamInv
  <2> SUFFICES ASSUME Init PROVE StreamInv
    OBVIOUS
  <2>1. \A m \in 1..MaxMsgs : events[m] = <<>>
    BY DEF Init
  <2>2. at = "fetch" /\ batch = <<>> /\ step = 1 /\ late = {}
    BY DEF Init, MailboxInit
  <2>3. \A m \in 1..MaxMsgs : Legal(m)
    <3>1. 0 \in 0..Len(Stream) /\ Plain(0) = <<>>
      BY StreamFacts, PlainFacts
    <3>2. QED
      BY <2>1, <3>1 DEF Legal
  <2>4. SoFar /\ Untouched /\ Unstarted
    BY <2>1, <2>2 DEF SoFar, Untouched, Unstarted
  <2>5. QED
    BY <2>3, <2>4 DEF StreamInv
<1>2. ASSUME Typed, StreamInv, Next PROVE StreamInv'
  BY <1>2, StreamNext DEF StreamInv, Streams
<1>3. ASSUME Typed, StreamInv, UNCHANGED vars PROVE StreamInv'
  BY <1>3 DEF vars, StreamInv, Legal, SoFar, Untouched, Unstarted, Busy, InHand, Cur
<1>4. QED
  BY <1>1, <1>2, <1>3, TypedInvariant, PTL DEF Spec

(* Each request has one stream (agent.py: the events of a handler, the       *)
(* FAILED of an exception and flush_last): while nothing is lost, a sender   *)
(* finds a prefix of the handler's events and then at most one FAILED and    *)
(* one COMPLETED with the last marker, whichever message is dispatched when, *)
(* and wherever close() cuts in.  The argument is that no message is         *)
(* dispatched twice: what is fetched has not been touched.                   *)
THEOREM TaskOneStream == Spec => []OneStream
<1>1. ASSUME Typed, StreamInv PROVE OneStream
  <2>1. MsgIds \subseteq 1..MaxMsgs
    BY <1>1, MailboxAssumption DEF Typed, InboxTyped, MsgIds
  <2>2. faults = 0 => \A m \in MsgIds : Legal(m)
    BY <1>1, <2>1 DEF StreamInv
  <2>3. QED
    BY <2>2 DEF OneStream, Legal, Plain, FailedEvent, CompletedEvent
<1>2. QED
  BY <1>1, TypedInvariant, StreamInvariant, PTL
=============================================================================
