--------------------------- MODULE TaskAgentProofs ---------------------------
(* Proofs about the tasks of a Python A2A agent, for any number of tasks,    *)
(* callers, messages and lost requests.                                      *)
EXTENDS TaskAgent, TLAPS

Methods == Calls \cup {"SendMessage", "event"}
Bodies == [method : Methods, task : Tasks, to : Int]
Events == [state : {"WORKING", "ARTIFACT", "COMPLETED", "FAILED"}, last : BOOLEAN]
Busy == at \notin {"fetch", "closed"}

(* The types that the proofs need: those of TypeOK, and the domains.         *)
InboxTyped ==
  /\ log \in Seq({Critical, Normal}) /\ Len(log) <= MaxMsgs
  /\ body \in Seq(Bodies) /\ Len(body) = Len(log)
  /\ offset \in 1..Len(log) + 1 /\ late \subseteq MsgIds

(* A request is answered to a callback mailbox that exists.                  *)
Addressed ==
  \A m \in MsgIds :
    \/ body[m].method \in Calls /\ body[m].to \in 1..boxes
    \/ body[m].method = "SendMessage" /\ body[m].to \in {Sender, Nobody}
    \/ body[m].method = "event" /\ body[m].to = Nobody

(* The loop is at a place that belongs to the message in hand.               *)
Placed ==
  /\ at \in {"fetch", "dispatch", "handler", "failed", "flush", "cancel",
             "notify", "answer", "ack", "closed"}
  /\ batch \in Seq(MsgIds) /\ (Busy => batch # <<>>)
  /\ at \in {"handler", "failed", "flush"} => InHand.method = "SendMessage"
  /\ at \in {"cancel", "notify"} => InHand.method = "CancelTask"
  /\ at = "answer" => InHand.method \in Calls
  /\ headers \in Headers /\ executor \in BOOLEAN /\ closing \in BOOLEAN
  /\ closing => at \in {"flush", "closed"}
  /\ step \in 1..Len(Stream) + 1 /\ read \in Views

PostedTyped ==
  /\ store \in [Tasks -> States]
  /\ events \in [1..MaxMsgs -> Seq(Events)]
  /\ answers \in [1..MaxCalls -> Seq(Views)]
  /\ missed \subseteq MsgIds

ClientsTyped ==
  /\ boxes \in 0..MaxCalls /\ faults \in 0..MaxFaults
  /\ call \in [Callers -> [pc : {"idle", "wait"}, method : Calls \cup {"none"},
                 task : Tasks \cup {"none"}, box : 0..MaxCalls,
                 seen : SUBSET [Tasks -> States]]]
  /\ \A c \in Callers : call[c].box <= boxes

Typed == InboxTyped /\ Addressed /\ Placed /\ PostedTyped /\ ClientsTyped

(* Freshness: a caller that waits has seen the store as it is, the requests  *)
(* with its callback mailbox are its own, and so is what has been read for   *)
(* them and what has been answered first.                                    *)
Wait(c) == call[c].pc = "wait"

Fresh(c, view) ==
  \/ \E s \in call[c].seen :
       view = IF call[c].method = "ListTasks" THEN Known(s) ELSE Only(s, call[c].task)
  \/ faults > 0 /\ (view = NoTasks \/ call[c].method = "CancelTask")

Own(c) ==
  \A m \in MsgIds : body[m].to = call[c].box =>
    body[m].method = call[c].method /\ body[m].task = call[c].task

(* What has been read for the message in hand is on its way to a caller.     *)
Reading == at = "answer" \/ (at = "notify" /\ read # NoTasks)

FreshFor(c) ==
  /\ call[c].box \in 1..boxes /\ store \in call[c].seen /\ Own(c)
  /\ Reading /\ InHand.to = call[c].box => Fresh(c, read)
  /\ answers[call[c].box] # <<>> => Fresh(c, Head(answers[call[c].box]))

FreshInv ==
  /\ \A n \in 1..MaxCalls : n > boxes => answers[n] = <<>>
  /\ \A c \in Callers : Wait(c) => FreshFor(c)

USE DEF inbox, setup, dispatch, posted, clients, Critical, Normal, Sender, Nobody

(* The constants.                                                            *)
LEMMA StreamFacts ==
  /\ Len(Stream) = 3 /\ Stream \in Seq({"WORKING", "ARTIFACT", "COMPLETED"})
  /\ Stream[1] = "WORKING" /\ Stream[2] = "ARTIFACT" /\ Stream[3] = "COMPLETED"
  /\ \A i \in 1..3 : Stream[i] \in {"WORKING", "ARTIFACT", "COMPLETED"}
<1>1. Len(Stream) = 3 /\ Stream[1] = "WORKING" /\ Stream[2] = "ARTIFACT"
      /\ Stream[3] = "COMPLETED"
  BY DEF Stream
<1>2. Stream \in Seq({"WORKING", "ARTIFACT", "COMPLETED"})
  BY DEF Stream
<1>3. \A i \in 1..3 : i = 1 \/ i = 2 \/ i = 3
  OBVIOUS
<1>4. QED
  BY <1>1, <1>2, <1>3

(* What a query finds is a view of the store.                                *)
LEMMA ViewFacts ==
  /\ NoTasks \in Views
  /\ \A s \in [Tasks -> States] : Known(s) \in Views
  /\ \A s \in [Tasks -> States], t \in Tasks : Only(s, t) \in Views
  /\ \A t \in Tasks : [u \in {t} |-> "CANCELED"] \in Views
<1>1. ASSUME NEW T \in SUBSET Tasks, NEW f \in [T -> States \ {"none"}]
      PROVE  f \in Views
  BY DEF Views
<1>2. NoTasks \in Views
  <2>1. NoTasks \in [{} -> States \ {"none"}]
    BY DEF NoTasks
  <2>2. QED
    BY <1>1, <2>1
<1>3. ASSUME NEW s \in [Tasks -> States] PROVE Known(s) \in Views
  <2>1. Known(s) \in [{u \in Tasks : s[u] # "none"} -> States \ {"none"}]
    BY DEF Known
  <2>2. QED
    BY <1>1, <2>1
<1>4. ASSUME NEW s \in [Tasks -> States], NEW t \in Tasks PROVE Only(s, t) \in Views
  <2>1. Only(s, t) \in [{t} \cap {u \in Tasks : s[u] # "none"} -> States \ {"none"}]
    BY DEF Only
  <2>2. {t} \cap {u \in Tasks : s[u] # "none"} \in SUBSET Tasks
    OBVIOUS
  <2>3. QED
    BY <1>1, <2>1, <2>2
<1>5. ASSUME NEW t \in Tasks PROVE [u \in {t} |-> "CANCELED"] \in Views
  <2>1. [u \in {t} |-> "CANCELED"] \in [{t} -> States \ {"none"}] /\ {t} \in SUBSET Tasks
    BY DEF States
  <2>2. QED
    BY <1>1, <2>1
<1>6. QED
  BY <1>2, <1>3, <1>4, <1>5

(* The message in hand is one of the inbox.                                  *)
LEMMA CurFacts ==
  ASSUME Typed, Busy
  PROVE  /\ Cur \in MsgIds /\ Cur = batch[1] /\ Cur \in 1..MaxMsgs
         /\ InHand \in Bodies /\ InHand.task \in Tasks
         /\ Tail(batch) \in Seq(MsgIds)
<1>1. batch \in Seq(MsgIds) /\ batch # <<>>
  BY DEF Typed, Placed
<1>2. Cur \in MsgIds /\ Cur = batch[1] /\ Tail(batch) \in Seq(MsgIds)
  BY <1>1 DEF Cur
<1>3. Cur \in 1..MaxMsgs /\ Cur \in 1..Len(body)
  BY <1>2, MailboxAssumption DEF Typed, InboxTyped, MsgIds
<1>4. InHand \in Bodies
  BY <1>3 DEF Typed, InboxTyped, InHand
<1>5. QED
  BY <1>2, <1>3, <1>4 DEF Bodies

(* A message is appended to the inbox; those that were there stay.           *)
LEMMA PostFacts ==
  ASSUME Typed, NEW p \in {Critical, Normal}, NEW method \in Methods, NEW task \in Tasks,
         NEW to \in Int, Post(p, method, task, to)
  PROVE  /\ InboxTyped' /\ MsgIds \subseteq MsgIds'
         /\ \A m \in MsgIds' : m \in MsgIds \/ m = Len(log) + 1
         /\ Len(log) + 1 \notin MsgIds /\ Len(log') = Len(log) + 1
         /\ \A m \in MsgIds : body'[m] = body[m] /\ log'[m] = log[m]
         /\ body'[Len(log) + 1] = [method |-> method, task |-> task, to |-> to]
         /\ log'[Len(log) + 1] = p
         /\ batch \in Seq(MsgIds') /\ UNCHANGED <<offset, late>>
<1>1. /\ log' = Append(log, p) /\ Len(log) < MaxMsgs /\ UNCHANGED <<offset, late>>
      /\ body' = Append(body, [method |-> method, task |-> task, to |-> to])
  BY DEF Post, Send
<1>2. /\ log \in Seq({Critical, Normal}) /\ body \in Seq(Bodies) /\ Len(body) = Len(log)
      /\ Len(log) \in Nat /\ batch \in Seq(MsgIds)
  BY DEF Typed, InboxTyped, Placed
<1>3. /\ Len(log') = Len(log) + 1 /\ log' \in Seq({Critical, Normal})
      /\ log'[Len(log) + 1] = p /\ \A m \in 1..Len(log) : log'[m] = log[m]
  BY <1>1, <1>2
<1>4. [method |-> method, task |-> task, to |-> to] \in Bodies
  BY DEF Bodies
<1>5. /\ Len(body') = Len(log) + 1 /\ body' \in Seq(Bodies)
      /\ body'[Len(log) + 1] = [method |-> method, task |-> task, to |-> to]
      /\ \A m \in 1..Len(log) : body'[m] = body[m]
  BY <1>1, <1>2, <1>4
<1>6. /\ MsgIds \subseteq MsgIds' /\ (\A m \in MsgIds' : m \in MsgIds \/ m = Len(log) + 1)
      /\ Len(log) + 1 \notin MsgIds
  BY <1>2, <1>3 DEF MsgIds
<1>7. batch \in Seq(MsgIds')
  BY <1>2, <1>6
<1>8. InboxTyped'
  <2>1. Len(log') <= MaxMsgs /\ Len(body') = Len(log')
    BY <1>1, <1>2, <1>3, <1>5, MailboxAssumption
  <2>2. offset' \in 1..Len(log') + 1 /\ late' \subseteq MsgIds'
    BY <1>1, <1>2, <1>3, <1>6 DEF Typed, InboxTyped
  <2>3. QED
    BY <1>3, <1>5, <2>1, <2>2 DEF InboxTyped
<1>9. QED
  BY <1>1, <1>3, <1>5, <1>6, <1>7, <1>8 DEF MsgIds

(* Requests are lost one by one, up to the bound.                            *)
LEMMA LosingFacts ==
  ASSUME ClientsTyped, NEW n \in 0..2, Losing(n)
  PROVE  faults' = faults + n /\ faults' \in 0..MaxFaults
BY TaskAssumption DEF ClientsTyped, Losing

(* Every caller that waits gets to see the new store.                        *)
LEMMA SeenFacts ==
  ASSUME Typed, Seen, store' \in [Tasks -> States], UNCHANGED boxes
  PROVE  /\ call' \in [Callers -> [pc : {"idle", "wait"}, method : Calls \cup {"none"},
                          task : Tasks \cup {"none"}, box : 0..MaxCalls,
                          seen : SUBSET [Tasks -> States]]]
         /\ \A c \in Callers :
              /\ call'[c].pc = call[c].pc /\ call'[c].method = call[c].method
              /\ call'[c].task = call[c].task /\ call'[c].box = call[c].box
              /\ call[c].pc = "wait" => call'[c].seen = call[c].seen \cup {store'}
<1> DEFINE Records == [pc : {"idle", "wait"}, method : Calls \cup {"none"},
                       task : Tasks \cup {"none"}, box : 0..MaxCalls,
                       seen : SUBSET [Tasks -> States]]
           next(c) == IF call[c].pc = "idle" THEN call[c]
                      ELSE [call[c] EXCEPT !.seen = @ \cup {store'}]
<1>1. call \in [Callers -> Records] /\ call' = [c \in Callers |-> next(c)]
  BY DEF Typed, ClientsTyped, Seen
<1>2. ASSUME NEW c \in Callers
      PROVE  /\ next(c) \in Records
             /\ next(c).pc = call[c].pc /\ next(c).method = call[c].method
             /\ next(c).task = call[c].task /\ next(c).box = call[c].box
             /\ call[c].pc = "wait" => next(c).seen = call[c].seen \cup {store'}
  <2>1. call[c] \in Records
    BY <1>1
  <2>2. CASE call[c].pc = "idle"
    BY <2>1, <2>2
  <2>3. CASE call[c].pc = "wait"
    BY <2>1, <2>3
  <2>4. QED
    BY <2>1, <2>2, <2>3
<1>3. \A c \in Callers : call'[c] = next(c)
  BY <1>1
<1>4. QED
  BY <1>1, <1>2, <1>3

(* An event is appended to the sender's mailbox, or it is lost.              *)
LEMMA EventFacts ==
  ASSUME Typed, Busy, NEW lost \in 0..1, NEW last \in BOOLEAN,
         NEW state \in {"WORKING", "ARTIFACT", "COMPLETED", "FAILED"},
         SendEvent(lost, state, last)
  PROVE  /\ events' \in [1..MaxMsgs -> Seq(Events)] /\ missed' \subseteq MsgIds
         /\ answers' = answers /\ missed \subseteq missed'
         /\ \A m \in 1..MaxMsgs : m # Cur => events'[m] = events[m]
         /\ InHand.to # Sender => events' = events /\ missed' = missed
         /\ InHand.to = Sender /\ lost = 0 =>
              events'[Cur] = Append(events[Cur], [state |-> state, last |-> last])
         /\ lost = 1 => events' = events /\ Cur \in missed'
<1>1. Cur \in MsgIds /\ Cur \in 1..MaxMsgs
  BY CurFacts
<1>2. events \in [1..MaxMsgs -> Seq(Events)] /\ missed \subseteq MsgIds
  BY DEF Typed, PostedTyped
<1>3. [state |-> state, last |-> last] \in Events
  BY DEF Events
<1>4. Append(events[Cur], [state |-> state, last |-> last]) \in Seq(Events)
  BY <1>1, <1>2, <1>3
<1>5. CASE InHand.to = Sender /\ lost = 0
  <2>1. /\ events' = [events EXCEPT ![Cur] = Append(events[Cur], [state |-> state, last |-> last])]
        /\ missed' = missed /\ answers' = answers
    BY <1>5 DEF SendEvent
  <2>2. QED
    BY <1>1, <1>2, <1>4, <1>5, <2>1
<1>6. CASE ~ (InHand.to = Sender /\ lost = 0)
  <2>1. /\ events' = events /\ answers' = answers
        /\ missed' = IF lost = 1 THEN missed \cup {Cur} ELSE missed
        /\ lost = 1 => InHand.to = Sender
    BY <1>6 DEF SendEvent
  <2>2. QED
    BY <1>1, <1>2, <1>6, <2>1
<1>7. QED
  BY <1>5, <1>6

(* The loop leaves the message in hand, or leaves for good.                  *)
LEMMA NextTyped ==
  ASSUME Typed, (Busy /\ NextMessage /\ closing' = FALSE) \/ Leave, closing' \in BOOLEAN,
         UNCHANGED <<setup, log>>
  PROVE  Placed'
<1>1. /\ batch' \in Seq(MsgIds') /\ step' = 1 /\ read' = NoTasks
      /\ at' \in {"fetch", "dispatch", "closed"} /\ (at' = "dispatch" => batch' # <<>>)
      /\ closing' => at' = "closed"
  <2>1. CASE Busy /\ NextMessage /\ closing' = FALSE
    BY <2>1, CurFacts DEF NextMessage, MsgIds
  <2>2. CASE Leave
    BY <2>2 DEF Leave
  <2>3. QED
    BY <2>1, <2>2
<1>2. step' \in 1..Len(Stream) + 1 /\ read' \in Views
  BY <1>1, StreamFacts, ViewFacts
<1>3. headers' \in Headers /\ executor' \in BOOLEAN
  BY DEF Typed, Placed
<1>4. closing' => at' \in {"flush", "closed"}
  BY <1>1
<1>5. Busy' => batch' # <<>>
  BY <1>1 DEF Busy
<1>6. QED
  BY <1>1, <1>2, <1>3, <1>4, <1>5 DEF Placed

(* The loop stays with the message in hand and goes to a place for it.       *)
LEMMA PlaceTyped ==
  ASSUME Typed, Busy, UNCHANGED <<setup, batch>>, batch \in Seq(MsgIds'),
         \A m \in MsgIds : body'[m] = body[m],
         closing' = FALSE \/ (closing' = TRUE /\ at' = "flush"),
         at' \in {"dispatch", "handler", "failed", "flush", "cancel", "notify", "answer", "ack"},
         at' \in {"handler", "failed", "flush"} => InHand.method = "SendMessage",
         at' \in {"cancel", "notify"} => InHand.method = "CancelTask",
         at' = "answer" => InHand.method \in Calls,
         step' \in 1..Len(Stream) + 1, read' \in Views
  PROVE  Placed'
<1>1. InHand' = InHand /\ batch # <<>>
  BY CurFacts DEF InHand, Cur, Typed, Placed
<1>2. headers' \in Headers /\ executor' \in BOOLEAN
  BY DEF Typed, Placed
<1>3. closing' \in BOOLEAN /\ (closing' => at' \in {"flush", "closed"})
  OBVIOUS
<1>4. QED
  BY <1>1, <1>2, <1>3 DEF Placed, Busy

(* The inbox is as it was, but for the offset and the travelling ACKs.       *)
LEMMA InboxStays ==
  ASSUME Typed, UNCHANGED <<log, body, boxes>>,
         offset' \in 1..Len(log) + 1, late' \subseteq MsgIds
  PROVE  InboxTyped' /\ Addressed' /\ MsgIds' = MsgIds
BY DEF Typed, InboxTyped, Addressed, MsgIds

(* Applying an ACK keeps the offset within the log, and never moves it back. *)
LEMMA AdvancedFacts ==
  ASSUME Typed, NEW m \in MsgIds
  PROVE  /\ Advanced(m) \in 1..Len(log) + 1 /\ Advanced(m) >= offset /\ m < Advanced(m)
         /\ Advanced(m) \in {offset, m + 1}
BY DEF Typed, InboxTyped, MsgIds, Advanced

(* A new message in the inbox has an address of its kind.                    *)
LEMMA PostAddressed ==
  ASSUME Typed, NEW p \in {Critical, Normal}, NEW method \in Methods, NEW task \in Tasks,
         NEW to \in Int, Post(p, method, task, to), boxes' \in {boxes, boxes + 1},
         \/ method \in Calls /\ to \in 1..boxes'
         \/ method = "SendMessage" /\ to \in {Sender, Nobody}
         \/ method = "event" /\ to = Nobody
  PROVE  Addressed'
<1>1. \A m \in MsgIds' :
        \/ m \in MsgIds /\ body'[m] = body[m]
        \/ m = Len(log) + 1 /\ body'[m] = [method |-> method, task |-> task, to |-> to]
  BY PostFacts
<1>2. boxes \in Nat /\ 1..boxes \subseteq 1..boxes'
  BY DEF Typed, ClientsTyped
<1>3. QED
  BY <1>1, <1>2 DEF Typed, Addressed

(* The clients' steps keep the types.                                        *)
LEMMA ClientsTypedKept ==
  ASSUME Typed, Clients
  PROVE  Typed'
<1>1. CASE SendMessage
  <2>1. PICK t \in Tasks, to \in {Sender, Nobody} : Post(Normal, "SendMessage", t, to)
    BY <1>1 DEF SendMessage
  <2>2. UNCHANGED <<headers, executor, at, batch, step, read, closing, store, events, answers,
                    missed, boxes, call, faults>>
    BY <1>1 DEF SendMessage
  <2>3. "SendMessage" \in Methods /\ Normal \in {Critical, Normal} /\ to \in Int
    BY DEF Methods
  <2>4. /\ InboxTyped' /\ MsgIds \subseteq MsgIds' /\ batch \in Seq(MsgIds')
        /\ \A m \in MsgIds : body'[m] = body[m]
    BY <2>1, <2>3, PostFacts
  <2>5. Addressed'
    BY <2>1, <2>2, <2>3, PostAddressed
  <2>6. Placed'
    <3>1. Busy => InHand' = InHand
      BY <2>2, <2>4, CurFacts DEF InHand, Cur
    <3>2. QED
      BY <2>2, <2>4, <3>1 DEF Typed, Placed, Busy
  <2>7. PostedTyped' /\ ClientsTyped'
    BY <2>2, <2>4 DEF Typed, PostedTyped, ClientsTyped
  <2>8. QED
    BY <2>4, <2>5, <2>6, <2>7 DEF Typed
<1>2. CASE \E c \in Callers : CallEnds(c)
  <2>1. PICK c \in Callers : CallEnds(c)
    BY <1>2
  <2>2. UNCHANGED <<log, offset, late, body, headers, executor, at, batch, step, read, closing,
                    store, events, answers, missed, boxes, faults>>
    BY <2>1 DEF CallEnds
  <2>3. InboxTyped' /\ Addressed' /\ MsgIds' = MsgIds
    BY <2>2 DEF Typed, InboxTyped, Addressed, MsgIds
  <2>4. Placed' /\ PostedTyped'
    BY <2>2, <2>3 DEF Typed, Placed, PostedTyped, Busy, InHand, Cur
  <2>5. call' = [call EXCEPT ![c] = Idle(call[c].box)]
    BY <2>1 DEF CallEnds
  <2>6. Idle(call[c].box) \in [pc : {"idle", "wait"}, method : Calls \cup {"none"},
          task : Tasks \cup {"none"}, box : 0..MaxCalls, seen : SUBSET [Tasks -> States]]
    BY DEF Idle, Typed, ClientsTyped
  <2>7. \A d \in Callers : call'[d].box = call[d].box
    BY <2>5 DEF Idle, Typed, ClientsTyped
  <2>8. ClientsTyped'
    BY <2>2, <2>5, <2>6, <2>7 DEF Typed, ClientsTyped
  <2>9. QED
    BY <2>3, <2>4, <2>8 DEF Typed
<1>3. CASE \E c \in Callers, m \in Calls, t \in Tasks : Call(c, m, t)
  <2>1. PICK c \in Callers, method \in Calls, t \in Tasks : Call(c, method, t)
    BY <1>3
  <2> DEFINE box == boxes + 1
             Records == [pc : {"idle", "wait"}, method : Calls \cup {"none"},
                         task : Tasks \cup {"none"}, box : 0..MaxCalls,
                         seen : SUBSET [Tasks -> States]]
  <2>2. /\ boxes < MaxCalls /\ boxes' = box /\ Ask(c, method, t, box)
        /\ UNCHANGED <<headers, executor, at, batch, step, read, closing, store, events,
                       answers, missed>>
    BY <2>1 DEF Call, Ask
  <2>3. box \in 1..MaxCalls /\ boxes \in Nat /\ box \in Int /\ boxes <= box
    BY <2>2, TaskAssumption DEF Typed, ClientsTyped
  <2>4. /\ Post(Normal, method, t, box) \/ UNCHANGED <<log, offset, late, body>>
        /\ \E r \in Records : r.box = box /\ call' = [call EXCEPT ![c] = r]
        /\ faults' \in 0..MaxFaults
    <3>1. CASE Losing(0) /\ Post(Normal, method, t, box)
              /\ call' = [call EXCEPT ![c] = [pc |-> "wait", method |-> method,
                            task |-> t, box |-> box, seen |-> {store}]]
      <4>1. [pc |-> "wait", method |-> method, task |-> t, box |-> box, seen |-> {store}]
              \in Records
        BY <2>3 DEF Typed, PostedTyped
      <4>2. faults' \in 0..MaxFaults
        BY <3>1, LosingFacts DEF Typed
      <4>3. [pc |-> "wait", method |-> method, task |-> t, box |-> box, seen |-> {store}].box
              = box
        OBVIOUS
      <4> HIDE DEF Records, box
      <4>4. QED
        BY <3>1, <4>1, <4>2, <4>3
    <3>2. CASE Losing(1) /\ (Post(Normal, method, t, box) \/ UNCHANGED inbox)
              /\ call' = [call EXCEPT ![c] = Idle(box)]
      <4>1. Idle(box) \in Records /\ Idle(box).box = box
        BY <2>3 DEF Idle
      <4>2. faults' \in 0..MaxFaults
        BY <3>2, LosingFacts DEF Typed
      <4> HIDE DEF Records, box
      <4>3. QED
        BY <3>2, <4>1, <4>2
    <3>3. QED
      BY <2>2, <3>1, <3>2 DEF Ask
  <2>5. /\ InboxTyped' /\ MsgIds \subseteq MsgIds' /\ batch \in Seq(MsgIds')
        /\ \A m \in MsgIds : body'[m] = body[m]
    <3>1. CASE Post(Normal, method, t, box)
      BY <2>3, <3>1, PostFacts DEF Methods
    <3>2. CASE UNCHANGED <<log, offset, late, body>>
      BY <3>2 DEF Typed, InboxTyped, Placed, MsgIds
    <3>3. QED
      BY <2>4, <3>1, <3>2
  <2>6. Addressed'
    <3>1. CASE Post(Normal, method, t, box)
      BY <2>2, <2>3, <3>1, PostAddressed DEF Methods
    <3>2. CASE UNCHANGED <<log, offset, late, body>>
      BY <2>2, <2>3, <3>2 DEF Typed, Addressed, MsgIds
    <3>3. QED
      BY <2>4, <3>1, <3>2
  <2>7. Placed'
    <3>1. Busy => InHand' = InHand
      BY <2>2, <2>5, CurFacts DEF InHand, Cur
    <3>2. QED
      BY <2>2, <2>5, <3>1 DEF Typed, Placed, Busy
  <2>8. PostedTyped'
    BY <2>2, <2>5 DEF Typed, PostedTyped
  <2>9. ClientsTyped'
    <3>1. PICK r \in Records : r.box = box /\ call' = [call EXCEPT ![c] = r]
      BY <2>4
    <3>2. call' \in [Callers -> Records] /\ boxes' \in 0..MaxCalls
      BY <2>2, <2>3, <3>1 DEF Typed, ClientsTyped
    <3>3. \A d \in Callers : call'[d].box <= box
      <4>1. \A d \in Callers : call[d].box \in 0..MaxCalls /\ call[d].box <= boxes
        BY DEF Typed, ClientsTyped
      <4>2. \A d \in Callers : call'[d].box = IF d = c THEN box ELSE call[d].box
        BY <3>1 DEF Typed, ClientsTyped
      <4>3. QED
        BY <2>3, <4>1, <4>2
    <3>4. QED
      BY <2>2, <2>4, <3>2, <3>3 DEF ClientsTyped
  <2>10. QED
    BY <2>5, <2>6, <2>7, <2>8, <2>9 DEF Typed
<1>4. QED
  BY <1>1, <1>2, <1>3 DEF Clients

(* An answer to a fetch has distinct pending messages; what precedes one of  *)
(* them in the log is no longer pending, comes earlier, or is less important.*)
LEMMA BatchFacts ==
  ASSUME Typed, NEW b \in Batches
  PROVE  /\ b \in Seq(MsgIds)
         /\ \A i \in 1..Len(b) : b[i] \in MsgIds /\ b[i] >= offset
         /\ \A i, j \in 1..Len(b) : i < j => b[i] # b[j]
         /\ \A i \in 1..Len(b) : \A m \in 1..(b[i] - 1) :
              m < offset \/ (\E j \in 1..(i - 1) : b[j] = m) \/ log[b[i]] < log[m]
<1>1. PICK n \in 0..NumMsgs : b \in [1..n -> Pending]
  BY DEF Batches, BatchesOf
<1>2. /\ n \in Nat /\ Pending \subseteq MsgIds /\ offset \in Int
      /\ (\A m \in Pending : m >= offset /\ m \in Int)
      /\ \A m \in MsgIds : log[m] \in {1, 3} /\ log[m] \in Int
  BY MailboxAssumption DEF Typed, InboxTyped, Pending, MsgIds
<1>3. b \in Seq(MsgIds) /\ Len(b) = n /\ DOMAIN b = 1..n
  BY <1>1, <1>2
<1>4. \A i \in 1..Len(b) : b[i] \in MsgIds /\ b[i] >= offset /\ b[i] \in Pending /\ b[i] \in Int
  BY <1>1, <1>2, <1>3
<1>5. \A i, j \in 1..n : i < j => Before(b[i], b[j])
  BY <1>3 DEF Batches, BatchesOf
<1>6. \A i, j \in 1..n : i < j => b[i] # b[j]
  BY <1>2, <1>3, <1>4, <1>5 DEF Before
<1>7. ASSUME NEW i \in 1..Len(b), NEW m \in 1..(b[i] - 1), ~ (m < offset)
      PROVE  (\E j \in 1..(i - 1) : b[j] = m) \/ log[b[i]] < log[m]
  <2>1. m \in Pending /\ m \in MsgIds /\ m \in Int /\ m < b[i] /\ b[i] \in MsgIds
    BY <1>2, <1>4, <1>7 DEF Pending, MsgIds, Typed, InboxTyped
  <2>2. Before(b[i], m) => log[b[i]] < log[m]
    BY <1>2, <1>4, <2>1 DEF Before
  <2>3. CASE \A j \in 1..n : b[j] # m
    <3>1. Before(b[i], m)
      BY <1>3, <2>1, <2>3 DEF Batches, BatchesOf
    <3>2. QED
      BY <2>2, <3>1
  <2>4. CASE \E j \in 1..n : b[j] = m
    <3>1. PICK j \in 1..n : b[j] = m
      BY <2>4
    <3>2. j # i /\ i \in 1..n /\ i \in Int /\ j \in Int
      BY <1>2, <1>3, <1>4, <2>1, <3>1
    <3>3. CASE j < i
      BY <3>1, <3>2, <3>3
    <3>4. CASE i < j
      BY <1>5, <2>2, <3>1, <3>2, <3>4
    <3>5. QED
      BY <3>2, <3>3, <3>4
  <2>5. QED
    BY <2>3, <2>4
<1>8. QED
  BY <1>3, <1>4, <1>6, <1>7

(* What the loop's and the broker's steps keep of the types.                 *)
LEMMA LoopTypedKept ==
  ASSUME Typed, Loop \/ Close \/ BrokerLateAck
  PROVE  Typed'
<1>a. /\ InboxTyped /\ Addressed /\ Placed /\ PostedTyped /\ ClientsTyped
      /\ offset \in 1..Len(log) + 1 /\ late \subseteq MsgIds /\ step \in 1..Len(Stream) + 1
      /\ read \in Views /\ store \in [Tasks -> States]
  BY DEF Typed, InboxTyped, Placed, PostedTyped
<1>b. ASSUME UNCHANGED <<log, offset, late, body, boxes>>
      PROVE  InboxTyped' /\ Addressed' /\ MsgIds' = MsgIds /\ batch \in Seq(MsgIds')
             /\ \A m \in MsgIds : body'[m] = body[m]
  BY <1>a, <1>b, InboxStays DEF Placed
<1>c. ASSUME UNCHANGED <<log, store, events, answers, missed>>
      PROVE  PostedTyped'
  BY <1>a, <1>c DEF PostedTyped, MsgIds
<1>d. ASSUME UNCHANGED <<boxes, call>>, faults' \in 0..MaxFaults
      PROVE  ClientsTyped'
  BY <1>a, <1>d DEF ClientsTyped
<1>e. faults \in 0..MaxFaults
  BY <1>a DEF ClientsTyped
<1>f. ASSUME Busy, closing' = FALSE,
             UNCHANGED <<batch, headers, executor, log, offset, late, body, boxes>>,
             at' \in {"handler", "failed", "flush", "cancel", "notify", "answer", "ack"},
             at' \in {"handler", "failed", "flush"} => InHand.method = "SendMessage",
             at' \in {"cancel", "notify"} => InHand.method = "CancelTask",
             at' = "answer" => InHand.method \in Calls,
             step' \in 1..Len(Stream) + 1, read' \in Views
      PROVE  Placed'
  BY <1>b, <1>f, PlaceTyped
<1>1. CASE Fetch
  <2>1. PICK b \in Batches : batch' = b /\ at' = IF b = <<>> THEN "fetch" ELSE "dispatch"
    BY <1>1 DEF Fetch
  <2>2. UNCHANGED <<log, offset, late, body, headers, executor, step, read, closing, store,
                    events, answers, missed, boxes, call, faults>> /\ closing = FALSE
    BY <1>1, <1>a DEF Fetch, At, Placed
  <2>3. Placed'
    <3>1. batch' \in Seq(MsgIds')
      BY <1>b, <2>1, <2>2, BatchFacts
    <3>2. (Busy' => batch' # <<>>) /\ at' \in {"fetch", "dispatch"}
      BY <2>1 DEF Busy
    <3>3. ~closing'
      BY <2>2
    <3>4. QED
      BY <1>a, <2>2, <3>1, <3>2, <3>3 DEF Placed
  <2>4. QED
    BY <1>b, <1>c, <1>d, <1>e, <2>2, <2>3 DEF Typed
<1>2. CASE DispatchRaises \/ Ack
  <2>1. /\ Busy /\ closing' = FALSE /\ NextMessage /\ UNCHANGED <<log, body, headers, executor>>
        /\ UNCHANGED <<store, events, answers, missed, boxes, call>>
    BY <1>2, <1>a DEF DispatchRaises, Ack, At, Busy, Placed
  <2>2. offset' \in 1..Len(log) + 1 /\ late' \subseteq MsgIds /\ faults' \in 0..MaxFaults
    <3>1. CASE DispatchRaises
      BY <1>a, <1>e, <3>1 DEF DispatchRaises
    <3>2. CASE Ack
      <4>1. Cur \in MsgIds
        BY <2>1, CurFacts
      <4>2. \/ Losing(0) /\ offset' = Advanced(Cur) /\ late' = late
            \/ Losing(1) /\ late' = late \cup {Cur} /\ offset' = offset
        BY <3>2 DEF Ack
      <4>3. QED
        BY <1>a, <4>1, <4>2, LosingFacts, AdvancedFacts
    <3>3. QED
      BY <1>2, <3>1, <3>2
  <2>3. Placed'
    BY <2>1, NextTyped
  <2>4. InboxTyped' /\ Addressed'
    BY <2>1, <2>2, InboxStays
  <2>5. QED
    BY <1>c, <1>d, <2>1, <2>2, <2>3, <2>4 DEF Typed
<1>3. CASE DispatchSend \/ HandlerEnds
  <2>1. /\ Busy /\ closing' = FALSE /\ batch' = batch /\ UNCHANGED <<headers, executor>>
        /\ UNCHANGED <<log, offset, late, body, step, read, store, events, answers, missed,
                       boxes, call, faults>>
        /\ at' \in {"handler", "failed", "flush", "ack"}
        /\ at' # "ack" => InHand.method = "SendMessage"
    BY <1>3, <1>a DEF DispatchSend, HandlerEnds, Dispatch, At, Busy, Placed
  <2>2. Placed'
    BY <1>a, <1>f, <2>1
  <2>3. QED
    BY <1>b, <1>c, <1>d, <1>e, <2>1, <2>2 DEF Typed
<1>4. CASE DispatchGet \/ DispatchList \/ DispatchCancel
  <2>1. /\ Busy /\ closing' = FALSE /\ batch' = batch /\ UNCHANGED <<headers, executor>>
        /\ UNCHANGED <<log, offset, late, body, step, store, events, answers, missed,
                       boxes, call>>
        /\ at' \in {"cancel", "notify", "answer"} /\ InHand.method \in Calls
        /\ at' # "answer" => InHand.method = "CancelTask"
    BY <1>4, <1>a DEF DispatchGet, DispatchList, DispatchCancel, Dispatch, At, Busy, Placed,
       Calls
  <2>2. PICK lost \in 0..1 : /\ Losing(lost)
                             /\ read' \in {StoreGet(lost, InHand.task), StoreList(lost)}
    BY <1>4 DEF DispatchGet, DispatchList, DispatchCancel
  <2>3. read' \in Views
    BY <1>a, <2>1, <2>2, CurFacts, ViewFacts DEF StoreGet, StoreList
  <2>4. faults' \in 0..MaxFaults
    BY <1>a, <2>2, LosingFacts
  <2>5. Placed'
    BY <1>a, <1>f, <2>1, <2>3
  <2>6. QED
    BY <1>b, <1>c, <1>d, <2>1, <2>4, <2>5 DEF Typed
<1>5. CASE CancelSave
  <2>1. /\ Busy /\ closing' = FALSE /\ batch' = batch /\ UNCHANGED <<headers, executor>>
        /\ UNCHANGED <<log, offset, late, body, step, events, answers, missed, boxes>>
        /\ at' = "notify" /\ InHand.method = "CancelTask" /\ Seen
        /\ read' = [t \in {InHand.task} |-> "CANCELED"]
    BY <1>5, <1>a DEF CancelSave, At, Busy, Placed
  <2>2. PICK lost \in 0..1 : Losing(lost) /\ StoreSave(lost, InHand.task, "CANCELED")
    BY <1>5 DEF CancelSave
  <2>3. read' \in Views /\ InHand.task \in Tasks
    BY <2>1, CurFacts, ViewFacts
  <2>4. store' \in [Tasks -> States]
    BY <1>a, <2>2, <2>3 DEF StoreSave, States
  <2>5. Placed'
    BY <1>a, <1>f, <2>1, <2>3
  <2>6. PostedTyped' /\ ClientsTyped'
    <3>1. faults' \in 0..MaxFaults
      BY <1>a, <2>2, LosingFacts
    <3>2. QED
      BY <1>a, <2>1, <2>4, <3>1, SeenFacts DEF PostedTyped, ClientsTyped, MsgIds
  <2>7. QED
    BY <1>b, <2>1, <2>5, <2>6 DEF Typed
<1>6. CASE Notify
  <2>1. /\ Busy /\ closing' = FALSE /\ batch' = batch /\ UNCHANGED <<headers, executor>>
        /\ UNCHANGED <<step, read, store, events, answers, missed, boxes, call>>
        /\ at' = "ack" \/ (at' = "answer" /\ InHand.method \in Calls)
    BY <1>6, <1>a DEF Notify, At, Busy, Placed, Calls
  <2>2. \E n \in 0..1 : Losing(n)
    BY <1>6 DEF Notify
  <2>3. Post(Critical, "event", InHand.task, Nobody) \/ UNCHANGED <<log, offset, late, body>>
    BY <1>6 DEF Notify
  <2>4. /\ InboxTyped' /\ Addressed' /\ MsgIds \subseteq MsgIds' /\ batch \in Seq(MsgIds')
        /\ \A m \in MsgIds : body'[m] = body[m]
    <3>1. CASE Post(Critical, "event", InHand.task, Nobody)
      <4>1. "event" \in Methods /\ Nobody \in Int /\ InHand.task \in Tasks
        BY <2>1, CurFacts DEF Methods
      <4>2. QED
        BY <2>1, <3>1, <4>1, PostFacts, PostAddressed
    <3>2. CASE UNCHANGED <<log, offset, late, body>>
      BY <1>b, <2>1, <3>2
    <3>3. QED
      BY <2>3, <3>1, <3>2
  <2>5. Placed'
    BY <1>a, <2>1, <2>4, PlaceTyped
  <2>6. PostedTyped' /\ ClientsTyped'
    <3>1. faults' \in 0..MaxFaults
      BY <1>a, <2>2, LosingFacts
    <3>2. QED
      BY <1>a, <1>d, <2>1, <2>4, <3>1 DEF PostedTyped
  <2>7. QED
    BY <2>4, <2>5, <2>6 DEF Typed
<1>7. CASE Answer
  <2>1. /\ Busy /\ closing' = FALSE /\ batch' = batch /\ UNCHANGED <<headers, executor>>
        /\ UNCHANGED <<log, offset, late, body, step, store, events, missed, boxes, call>>
        /\ at' = "ack" /\ read' = NoTasks
    BY <1>7, <1>a DEF Answer, At, Busy, Placed
  <2>2. /\ \E n \in 0..1 : Losing(n)
        /\ \/ answers' = [answers EXCEPT ![InHand.to] = Append(@, read)]
           \/ answers' = answers
    BY <1>7 DEF Answer
  <2>3. Placed'
    BY <1>a, <1>f, <2>1, ViewFacts
  <2>4. answers' \in [1..MaxCalls -> Seq(Views)]
    <3>a. InHand.method \in Calls
      BY <1>7, <1>a DEF Answer, At, Placed
    <3>1. InHand.to \in 1..boxes
      <4>1. /\ Cur \in MsgIds /\ body[Cur] = InHand
            /\ "SendMessage" \notin Calls /\ "event" \notin Calls
        BY <2>1, CurFacts DEF InHand, Calls
      <4> HIDE DEF Cur, InHand
      <4>2. QED
        BY <1>a, <3>a, <4>1 DEF Addressed
    <3>2. InHand.to \in 1..MaxCalls
      BY <1>a, <3>1, TaskAssumption DEF ClientsTyped
    <3>3. answers \in [1..MaxCalls -> Seq(Views)] /\ Append(answers[InHand.to], read) \in Seq(Views)
      BY <1>a, <3>2 DEF PostedTyped
    <3> HIDE DEF InHand
    <3>4. QED
      BY <2>2, <3>2, <3>3
  <2>5. PostedTyped' /\ ClientsTyped'
    <3>1. faults' \in 0..MaxFaults
      BY <1>a, <2>2, LosingFacts
    <3>2. QED
      BY <1>a, <1>d, <2>1, <2>4, <3>1 DEF PostedTyped, MsgIds
  <2>6. QED
    BY <1>b, <2>1, <2>3, <2>5 DEF Typed
<1>8. CASE HandlerStep
  <2>1. /\ Busy /\ closing' = FALSE /\ batch' = batch /\ UNCHANGED <<headers, executor>>
        /\ UNCHANGED <<log, offset, late, body, read, boxes>>
        /\ at' = "handler" /\ InHand.method = "SendMessage" /\ Seen
        /\ step <= Len(Stream) /\ step' = step + 1
    BY <1>8, <1>a DEF HandlerStep, At, Busy, Placed
  <2>2. PICK event \in 0..1, save \in 0..1 :
          /\ Losing(event + save) /\ SendEvent(event, Stream[step], FALSE)
          /\ IF Stream[step] \in States
             THEN StoreSave(save, InHand.task, Stream[step])
             ELSE save = 0 /\ UNCHANGED store
    BY <1>8 DEF HandlerStep
  <2>3. step \in 1..3 /\ step' \in 1..Len(Stream) + 1
    BY <1>a, <2>1, StreamFacts
  <2>4. /\ events' \in [1..MaxMsgs -> Seq(Events)] /\ missed' \subseteq MsgIds
        /\ answers' = answers
    BY <2>1, <2>2, <2>3, StreamFacts, EventFacts
  <2>5. store' \in [Tasks -> States]
    BY <1>a, <2>1, <2>2, CurFacts DEF StoreSave
  <2>6. Placed'
    BY <1>a, <1>f, <2>1, <2>3
  <2>7. PostedTyped' /\ ClientsTyped'
    <3>1. faults' \in 0..MaxFaults /\ event + save \in 0..2
      BY <1>a, <2>2, LosingFacts
    <3>2. QED
      BY <1>a, <2>1, <2>4, <2>5, <3>1, SeenFacts DEF PostedTyped, ClientsTyped, MsgIds
  <2>8. QED
    BY <1>b, <2>1, <2>6, <2>7 DEF Typed
<1>9. CASE HandlerDelete
  <2>1. /\ Busy /\ closing' = FALSE /\ batch' = batch /\ UNCHANGED <<headers, executor>>
        /\ UNCHANGED <<log, offset, late, body, step, read, events, answers, missed, boxes>>
        /\ at' = "flush" /\ InHand.method = "SendMessage" /\ Seen
    BY <1>9, <1>a DEF HandlerDelete, At, Busy, Placed
  <2>2. PICK lost \in 0..1 : Losing(lost) /\ StoreDelete(lost, InHand.task)
    BY <1>9 DEF HandlerDelete
  <2>3. store' \in [Tasks -> States]
    BY <1>a, <2>1, <2>2, CurFacts DEF StoreDelete, States
  <2>4. Placed'
    BY <1>a, <1>f, <2>1
  <2>5. PostedTyped' /\ ClientsTyped'
    <3>1. faults' \in 0..MaxFaults
      BY <1>a, <2>2, LosingFacts
    <3>2. QED
      BY <1>a, <2>1, <2>3, <3>1, SeenFacts DEF PostedTyped, ClientsTyped, MsgIds
  <2>6. QED
    BY <1>b, <2>1, <2>4, <2>5 DEF Typed
<1>10. CASE SendFailed \/ FlushLast
  <2>1. /\ Busy /\ UNCHANGED <<headers, executor, closing>>
        /\ UNCHANGED <<log, offset, late, body, store, boxes, call>>
        /\ InHand.method = "SendMessage"
    BY <1>10, <1>a DEF SendFailed, FlushLast, At, Busy, Placed
  <2>2. PICK lost \in 0..1, state \in {"COMPLETED", "FAILED"} :
          Losing(lost) /\ SendEvent(lost, state, TRUE)
    BY <1>10 DEF SendFailed, FlushLast
  <2>3. /\ events' \in [1..MaxMsgs -> Seq(Events)] /\ missed' \subseteq MsgIds
        /\ answers' = answers
    BY <2>1, <2>2, EventFacts
  <2>4. Placed'
    <3>1. closing' \in BOOLEAN /\ closing' = closing
      BY <1>a, <2>1 DEF Placed
    <3>2. CASE SendFailed
      <4>1. at' = "flush" /\ UNCHANGED <<batch, step, read>> /\ closing' = FALSE
        BY <3>1, <3>2 DEF SendFailed, At
      <4>2. QED
        BY <1>a, <1>f, <2>1, <3>1, <4>1
    <3>3. CASE FlushLast /\ closing
      <4>1. Leave
        BY <3>3 DEF FlushLast
      <4>2. QED
        BY <2>1, <3>1, <4>1, NextTyped
    <3>4. CASE FlushLast /\ ~closing
      <4>1. at' = "ack" /\ UNCHANGED <<batch, step, read>> /\ closing' = FALSE
        BY <3>1, <3>4 DEF FlushLast
      <4>2. QED
        BY <1>a, <1>f, <2>1, <3>1, <4>1
    <3>5. QED
      BY <1>10, <3>2, <3>3, <3>4
  <2>5. PostedTyped' /\ ClientsTyped'
    <3>1. faults' \in 0..MaxFaults
      BY <1>a, <2>2, LosingFacts
    <3>2. QED
      BY <1>a, <1>d, <2>1, <2>3, <3>1 DEF PostedTyped, MsgIds
  <2>6. QED
    BY <1>b, <2>1, <2>4, <2>5 DEF Typed
<1>11. CASE Close
  <2>1. /\ closing' = TRUE /\ UNCHANGED <<headers, executor, log, offset, body>>
        /\ UNCHANGED <<store, events, answers, missed, boxes, call, faults>>
        /\ late' = IF at = "ack" THEN late \cup {Cur} ELSE late
    BY <1>11 DEF Close
  <2>2. late' \subseteq MsgIds
    BY <1>a, <2>1, CurFacts DEF Busy
  <2>3. Placed'
    <3>1. CASE at \in {"handler", "failed", "flush"} /\ at' = "flush"
               /\ UNCHANGED <<batch, step, read>>
      <4>1. Busy /\ InHand.method = "SendMessage"
        BY <1>a, <3>1 DEF Busy, Placed
      <4>2. batch \in Seq(MsgIds')
        BY <1>a, <2>1 DEF Placed, MsgIds
      <4>3. QED
        BY <1>a, <2>1, <3>1, <4>1, <4>2, PlaceTyped
    <3>2. CASE Leave
      BY <2>1, <3>2, NextTyped
    <3>3. QED
      BY <1>11, <3>1, <3>2 DEF Close
  <2>4. InboxTyped' /\ Addressed'
    BY <1>a, <2>1, <2>2, InboxStays
  <2>5. QED
    BY <1>c, <1>d, <1>e, <2>1, <2>3, <2>4 DEF Typed
<1>12. CASE BrokerLateAck
  <2>1. PICK m \in late : offset' = Advanced(m) /\ late' = late \ {m} /\ log' = log
    BY <1>12 DEF BrokerLateAck, LateAck
  <2>2. UNCHANGED <<body, headers, executor, at, batch, step, read, closing, store, events,
                    answers, missed, boxes, call, faults>>
    BY <1>12 DEF BrokerLateAck
  <2>3. offset' \in 1..Len(log) + 1 /\ late' \subseteq MsgIds
    BY <1>a, <2>1, AdvancedFacts
  <2>4. InboxTyped' /\ Addressed' /\ MsgIds' = MsgIds
    BY <2>1, <2>2, <2>3, InboxStays
  <2>5. Placed'
    BY <1>a, <2>2, <2>4 DEF Placed, Busy, InHand, Cur
  <2>6. QED
    BY <1>c, <1>d, <1>e, <2>1, <2>2, <2>4, <2>5 DEF Typed
<1>13. QED
  BY <1>1, <1>2, <1>3, <1>4, <1>5, <1>6, <1>7, <1>8, <1>9, <1>10, <1>11, <1>12 DEF Loop

(* The types hold in every state.                                            *)
LEMMA TypedInit == Init => Typed
<1> SUFFICES ASSUME Init PROVE Typed
  OBVIOUS
<1>1. InboxTyped /\ MsgIds = {}
  BY MailboxAssumption DEF Init, MailboxInit, InboxTyped, MsgIds
<1>2. Placed
  <2>1. at = "fetch" /\ batch = <<>> /\ batch \in Seq(MsgIds) /\ step \in 1..Len(Stream) + 1
    BY StreamFacts DEF Init
  <2>2. closing = FALSE /\ headers \in Headers /\ executor \in BOOLEAN /\ read \in Views
    BY ViewFacts DEF Init
  <2>3. closing \in BOOLEAN /\ (closing => at \in {"flush", "closed"})
    BY <2>2
  <2>4. QED
    BY <2>1, <2>2, <2>3 DEF Placed, Busy
<1>3. PostedTyped
  BY DEF Init, StoreInit, PostedTyped, States
<1>4. ClientsTyped
  BY TaskAssumption DEF Init, ClientsTyped, Idle
<1>5. QED
  BY <1>1, <1>2, <1>3, <1>4 DEF Typed, Addressed

LEMMA TypedNext == Typed /\ [Next]_vars => Typed'
<1>1. ASSUME Typed, Next PROVE Typed'
  BY <1>1, ClientsTypedKept, LoopTypedKept DEF Next
<1>2. ASSUME Typed, UNCHANGED vars PROVE Typed'
  <2>1. UNCHANGED <<log, offset, late, body, headers, executor, at, batch, step, read, closing,
                    store, events, answers, missed, boxes, call, faults>>
    BY <1>2 DEF vars
  <2>2. InboxTyped' /\ Addressed'
    BY <1>2, <2>1 DEF Typed, InboxTyped, Addressed, MsgIds
  <2>3. Placed'
    BY <1>2, <2>1 DEF Typed, Placed, Busy, InHand, Cur, MsgIds
  <2>4. PostedTyped' /\ ClientsTyped'
    BY <1>2, <2>1 DEF Typed, PostedTyped, ClientsTyped, MsgIds
  <2>5. QED
    BY <2>2, <2>3, <2>4 DEF Typed
<1>3. QED
  BY <1>1, <1>2

LEMMA TypedInvariant == Spec => []Typed
BY TypedInit, TypedNext, PTL DEF Spec

(* The loop is always with a message of the inbox when it is at work on one, *)
(* and every request has an address that exists: the places and the values   *)
(* of TypeOK, for every interleaving of the callers with the loop (agent.py: *)
(* _dispatch and the three calls of a client).                               *)
THEOREM TaskTypeOK == Spec => []TypeOK
<1>1. ASSUME Typed PROVE TypeOK
  <2>1. /\ log \in Seq({Critical, Normal}) /\ Len(log) = Len(body)
        /\ offset \in 1..Len(log) + 1 /\ late \subseteq MsgIds
    BY <1>1 DEF Typed, InboxTyped
  <2>2. \A m \in MsgIds : /\ body[m].method \in Calls \cup {"SendMessage", "event"}
                          /\ body[m].task \in Tasks
    <3>1. \A m \in MsgIds : body[m] \in Bodies
      BY <1>1 DEF Typed, InboxTyped, MsgIds
    <3>2. QED
      BY <3>1 DEF Bodies, Methods
  <2>3. \A m \in MsgIds : body[m].to \in -1..boxes
    BY <1>1 DEF Typed, Addressed, ClientsTyped
  <2>4. \A m \in 1..MaxMsgs : events[m] \in Seq(Events)
    BY <1>1 DEF Typed, PostedTyped
  <2>5. \A c \in Callers : call[c].pc \in {"idle", "wait"} /\ call[c].box \in 0..boxes
    BY <1>1 DEF Typed, ClientsTyped
  <2>6. /\ headers \in Headers /\ executor \in BOOLEAN /\ closing \in BOOLEAN
        /\ at \in {"fetch", "dispatch", "handler", "failed", "flush", "cancel",
                   "notify", "answer", "ack", "closed"}
        /\ batch \in Seq(MsgIds) /\ (at \notin {"fetch", "closed"} => batch # <<>>)
        /\ step \in 1..Len(Stream) + 1 /\ read \in Views
    BY <1>1 DEF Typed, Placed, Busy
  <2>7. /\ store \in [Tasks -> States] /\ \A n \in 1..MaxCalls : answers[n] \in Seq(Views)
        /\ boxes \in 0..MaxCalls /\ faults \in 0..MaxFaults /\ missed \subseteq MsgIds
    BY <1>1 DEF Typed, PostedTyped, ClientsTyped
  <2>8. QED
    BY <2>1, <2>2, <2>3, <2>4, <2>5, <2>6, <2>7 DEF TypeOK, Events
<1>2. QED
  BY <1>1, TypedInvariant, PTL
-----------------------------------------------------------------------------
(* A caller's record after a step is the one before, but for what it has     *)
(* seen, and nobody else uses its callback mailbox.                          *)
GoesOn(c) ==
  /\ call'[c].method = call[c].method /\ call'[c].task = call[c].task
  /\ call'[c].box = call[c].box /\ call[c].seen \subseteq call'[c].seen
  /\ store' \in call'[c].seen /\ boxes' >= boxes
  /\ (faults > 0 => faults' > 0)
  /\ \A m \in MsgIds' : body'[m].to = call[c].box => m \in MsgIds /\ body'[m] = body[m]

(* What was fresh for a caller stays so while its call goes on.              *)
LEMMA FreshCarried ==
  ASSUME NEW c \in Callers, GoesOn(c), NEW v, Fresh(c, v)
  PROVE  Fresh(c, v)'
BY DEF Fresh, GoesOn

LEMMA StepFaults ==
  ASSUME Typed, NEW n \in 0..2, Losing(n)
  PROVE  faults > 0 => faults' > 0
BY DEF Typed, ClientsTyped, Losing

(* A step that is not a caller's own lets its call go on.                    *)
LEMMA CallGoesOn ==
  ASSUME Typed, FreshInv, Next, NEW c \in Callers, Wait(c), Wait(c)'
  PROVE  GoesOn(c)
<1>a. /\ call[c].box \in 1..boxes /\ store \in call[c].seen /\ boxes \in Nat
      /\ store \in [Tasks -> States] /\ faults \in Nat
  BY DEF FreshInv, FreshFor, Typed, PostedTyped, ClientsTyped
<1>b. ASSUME call'[c] = call[c], UNCHANGED <<store, boxes>>, faults > 0 => faults' > 0,
             \A m \in MsgIds' : body'[m].to = call[c].box => m \in MsgIds /\ body'[m] = body[m]
      PROVE  GoesOn(c)
  BY <1>a, <1>b DEF GoesOn
<1>c. ASSUME UNCHANGED <<log, body>>
      PROVE  \A m \in MsgIds' : m \in MsgIds /\ body'[m] = body[m]
  BY <1>c DEF MsgIds
<1>d. ASSUME NEW p \in {Critical, Normal}, NEW method \in Methods, NEW t \in Tasks,
             NEW to \in Int, to # call[c].box, Post(p, method, t, to)
      PROVE  \A m \in MsgIds' : body'[m].to = call[c].box => m \in MsgIds /\ body'[m] = body[m]
  <2>1. \A m \in MsgIds' :
        \/ m \in MsgIds /\ body'[m] = body[m]
        \/ m = Len(log) + 1 /\ body'[m] = [method |-> method, task |-> t, to |-> to]
    BY <1>d, PostFacts
  <2>2. QED
    BY <1>d, <2>1
<1>1. CASE SendMessage
  <2>1. PICK t \in Tasks, to \in {Sender, Nobody} : Post(Normal, "SendMessage", t, to)
    BY <1>1 DEF SendMessage
  <2>2. "SendMessage" \in Methods /\ to \in Int /\ to # call[c].box
    BY <1>a DEF Methods
  <2>3. UNCHANGED <<call, store, boxes, faults>>
    BY <1>1 DEF SendMessage
  <2>4. QED
    BY <1>b, <1>d, <2>1, <2>2, <2>3
<1>2. CASE \E d \in Callers : CallEnds(d)
  <2>1. PICK d \in Callers : CallEnds(d)
    BY <1>2
  <2>2. UNCHANGED <<log, body, store, boxes, faults>> /\ call' = [call EXCEPT ![d] = Idle(call[d].box)]
    BY <2>1 DEF CallEnds
  <2>3. c # d /\ call'[c] = call[c]
    BY <2>2 DEF Wait, Idle, Typed, ClientsTyped
  <2>4. QED
    BY <1>b, <1>c, <2>2, <2>3
<1>3. CASE \E d \in Callers, m \in Calls, t \in Tasks : Call(d, m, t)
  <2>1. PICK d \in Callers, method \in Calls, t \in Tasks : Call(d, method, t)
    BY <1>3
  <2>2. /\ boxes' = boxes + 1 /\ Ask(d, method, t, boxes + 1) /\ UNCHANGED store
        /\ call[d].pc = "idle"
    BY <2>1 DEF Call, Ask
  <2>3. PICK r : call' = [call EXCEPT ![d] = r]
    BY <2>2 DEF Ask
  <2>4. c # d /\ call'[c] = call[c]
    BY <2>2, <2>3 DEF Wait, Typed, ClientsTyped
  <2>5. \A m \in MsgIds' : body'[m].to = call[c].box => m \in MsgIds /\ body'[m] = body[m]
    <3>1. Post(Normal, method, t, boxes + 1) \/ UNCHANGED <<log, body>>
      BY <2>2 DEF Ask
    <3>2. boxes + 1 # call[c].box /\ boxes + 1 \in Int /\ method \in Methods
      BY <1>a DEF Methods
    <3>3. QED
      BY <1>c, <1>d, <3>1, <3>2
  <2>6. faults > 0 => faults' > 0
    BY <2>2, StepFaults DEF Ask
  <2>7. QED
    BY <1>a, <2>2, <2>4, <2>5, <2>6 DEF GoesOn
<1>4. CASE Notify
  <2>1. UNCHANGED <<call, store, boxes>> /\ Busy
    BY <1>4 DEF Notify, At, Busy
  <2>2. faults > 0 => faults' > 0
    BY <1>4, StepFaults DEF Notify
  <2>3. Post(Critical, "event", InHand.task, Nobody) \/ UNCHANGED <<log, body>>
    BY <1>4 DEF Notify
  <2>4. "event" \in Methods /\ Nobody \in Int /\ Nobody # call[c].box /\ InHand.task \in Tasks
    BY <1>a, <2>1, CurFacts DEF Methods
  <2> HIDE DEF Nobody
  <2>5. \A m \in MsgIds' : body'[m].to = call[c].box => m \in MsgIds /\ body'[m] = body[m]
    BY <1>c, <1>d, <2>3, <2>4
  <2>6. QED
    BY <1>b, <2>1, <2>2, <2>5
<1>5. CASE CancelSave \/ HandlerStep \/ HandlerDelete
  <2>1. Seen /\ UNCHANGED <<log, body, boxes>> /\ Busy
    BY <1>5 DEF CancelSave, HandlerStep, HandlerDelete, At, Busy
  <2>2. store' \in [Tasks -> States]
    BY LoopTypedKept, <1>5 DEF Loop, Typed, PostedTyped
  <2>3. /\ call'[c].method = call[c].method /\ call'[c].task = call[c].task
        /\ call'[c].box = call[c].box /\ call'[c].seen = call[c].seen \cup {store'}
    BY <2>1, <2>2, SeenFacts DEF Wait
  <2>4. faults > 0 => faults' > 0
    <3>1. (\E n \in 0..1 : Losing(n)) \/ \E event, save \in 0..1 : Losing(event + save)
      BY <1>5 DEF CancelSave, HandlerStep, HandlerDelete
    <3>2. \A event, save \in 0..1 : event + save \in 0..2
      OBVIOUS
    <3>3. QED
      BY <3>1, <3>2, StepFaults
  <2>5. QED
    BY <1>a, <1>c, <2>1, <2>3, <2>4 DEF GoesOn
<1>6. CASE Fetch \/ DispatchRaises \/ DispatchSend \/ HandlerEnds \/ Close \/ BrokerLateAck
  <2>1. UNCHANGED <<log, body, boxes, call, store, faults>>
    BY <1>6 DEF Fetch, DispatchRaises, DispatchSend, HandlerEnds, Close, BrokerLateAck, LateAck
  <2>2. QED
    BY <1>b, <1>c, <2>1
<1>7. CASE DispatchGet \/ DispatchList \/ DispatchCancel \/ Answer \/ SendFailed \/ FlushLast \/ Ack
  <2>1. UNCHANGED <<log, body, boxes, call, store>>
    BY <1>7 DEF DispatchGet, DispatchList, DispatchCancel, Answer, SendFailed, FlushLast, Ack
  <2>2. \E n \in 0..1 : Losing(n)
    <3>1. CASE DispatchGet \/ DispatchList \/ DispatchCancel
      BY <3>1 DEF DispatchGet, DispatchList, DispatchCancel
    <3>2. CASE SendFailed \/ FlushLast
      BY <3>2 DEF SendFailed, FlushLast
    <3>3. CASE Answer \/ Ack
      <4>1. Losing(0) \/ Losing(1)
        BY <3>3 DEF Answer, Ack
      <4>2. QED
        BY <4>1
    <3>4. QED
      BY <1>7, <3>1, <3>2, <3>3
  <2>3. QED
    BY <1>b, <1>c, <2>1, <2>2, StepFaults
<1>8. QED
  BY <1>1, <1>2, <1>3, <1>4, <1>5, <1>6, <1>7 DEF Next, Clients, Loop

(* What a dispatch reads is fresh for the caller that it is read for.        *)
LEMMA ReadIsFresh ==
  ASSUME Typed, FreshInv, Next, NEW c \in Callers, Wait(c), GoesOn(c),
         Reading', InHand'.to = call[c].box
  PROVE  Fresh(c, read)'
<1>a. /\ Reading /\ InHand.to = call[c].box => Fresh(c, read)
      /\ store \in call[c].seen /\ Own(c) /\ call[c].box \in 1..boxes
  BY DEF FreshInv, FreshFor
<1>b. ASSUME NEW n \in 0..1, Losing(n) PROVE n = 1 => faults' > 0
  BY <1>b DEF Losing, Typed, ClientsTyped
<1>c. ASSUME UNCHANGED <<at, batch, read>>, \A m \in MsgIds : body'[m] = body[m]
      PROVE  Fresh(c, read)'
  <2>1. Busy /\ Reading
    BY <1>c DEF Reading, Busy
  <2>2. InHand' = InHand
    BY <1>c, <2>1, CurFacts DEF InHand, Cur
  <2>3. Fresh(c, read)
    BY <1>a, <2>1, <2>2
  <2>4. QED
    BY <1>c, <2>3, FreshCarried DEF Fresh
<1>d. ASSUME Busy, UNCHANGED <<batch, log, body>>
      PROVE  /\ InHand' = InHand /\ Cur \in MsgIds /\ InHand.task \in Tasks
             /\ InHand.method = call[c].method /\ InHand.task = call[c].task
  <2>1. InHand' = InHand /\ Cur \in MsgIds /\ InHand.task \in Tasks
    BY <1>d, CurFacts DEF InHand, Cur
  <2>2. InHand.to = call[c].box
    BY <2>1
  <2>3. QED
    BY <1>a, <2>1, <2>2 DEF Own, InHand
<1>1. CASE SendMessage \/ (\E d \in Callers, m \in Calls, t \in Tasks : Call(d, m, t))
  <2>1. UNCHANGED <<at, batch, read>>
    BY <1>1 DEF SendMessage, Call, Ask
  <2>2. \A m \in MsgIds : body'[m] = body[m]
    <3>1. CASE SendMessage
      <4>1. PICK t \in Tasks, to \in {Sender, Nobody} : Post(Normal, "SendMessage", t, to)
        BY <3>1 DEF SendMessage
      <4>2. "SendMessage" \in Methods /\ to \in Int
        BY DEF Methods
      <4>3. QED
        BY <4>1, <4>2, PostFacts
    <3>2. CASE \E d \in Callers, m \in Calls, t \in Tasks : Call(d, m, t)
      <4>1. PICK d \in Callers, method \in Calls, t \in Tasks : Call(d, method, t)
        BY <3>2
      <4>2. Post(Normal, method, t, boxes + 1) \/ UNCHANGED <<log, body>>
        BY <4>1 DEF Call, Ask
      <4>3. boxes + 1 \in Int /\ method \in Methods
        BY DEF Methods, Typed, ClientsTyped
      <4>4. QED
        BY <4>2, <4>3, PostFacts
    <3>3. QED
      BY <1>1, <3>1, <3>2
  <2>3. QED
    BY <1>c, <2>1, <2>2
<1>2. CASE (\E d \in Callers : CallEnds(d)) \/ BrokerLateAck
  <2>1. UNCHANGED <<at, batch, read, body>>
    BY <1>2 DEF CallEnds, BrokerLateAck
  <2>2. QED
    BY <1>c, <2>1
<1>3. CASE Fetch \/ DispatchRaises \/ DispatchSend \/ HandlerStep \/ HandlerDelete
           \/ HandlerEnds \/ SendFailed \/ FlushLast \/ Ack \/ Answer \/ Close
  <2>1. at' \notin {"answer", "notify"}
    BY <1>3 DEF Fetch, DispatchRaises, DispatchSend, HandlerStep, HandlerDelete, HandlerEnds,
       SendFailed, FlushLast, Ack, Answer, Close, NextMessage, Leave, At
  <2>2. QED
    BY <2>1 DEF Reading
<1>4. CASE DispatchGet \/ DispatchCancel
  <2>1. /\ Busy /\ UNCHANGED <<batch, log, body, call, store>>
        /\ InHand.method \in {"GetTask", "CancelTask"}
    BY <1>4 DEF DispatchGet, DispatchCancel, Dispatch, At, Busy
  <2>2. PICK lost \in 0..1 : Losing(lost) /\ read' = StoreGet(lost, InHand.task)
    BY <1>4 DEF DispatchGet, DispatchCancel
  <2>3. call[c].method # "ListTasks" /\ InHand.task = call[c].task
    BY <1>d, <2>1
  <2>4. CASE lost = 0
    <3>1. read' = Only(store, call[c].task)
      BY <2>2, <2>3, <2>4 DEF StoreGet
    <3>2. QED
      BY <1>a, <2>1, <2>3, <3>1 DEF Fresh
  <2>5. CASE lost = 1
    <3>1. read' = NoTasks /\ faults' > 0
      BY <1>b, <2>2, <2>5 DEF StoreGet
    <3>2. QED
      BY <3>1 DEF Fresh
  <2>6. QED
    BY <2>4, <2>5
<1>5. CASE DispatchList
  <2>1. /\ Busy /\ UNCHANGED <<batch, log, body, call, store>> /\ InHand.method = "ListTasks"
    BY <1>5 DEF DispatchList, Dispatch, At, Busy
  <2>2. PICK lost \in 0..1 : Losing(lost) /\ read' = StoreList(lost)
    BY <1>5 DEF DispatchList
  <2>3. call[c].method = "ListTasks"
    BY <1>d, <2>1
  <2>4. CASE lost = 0
    <3>1. read' = Known(store)
      BY <2>2, <2>4 DEF StoreList
    <3>2. QED
      BY <1>a, <2>1, <2>3, <3>1 DEF Fresh
  <2>5. CASE lost = 1
    <3>1. read' = NoTasks /\ faults' > 0
      BY <1>b, <2>2, <2>5 DEF StoreList
    <3>2. QED
      BY <3>1 DEF Fresh
  <2>6. QED
    BY <2>4, <2>5
<1>6. CASE CancelSave
  <2>1. /\ Busy /\ UNCHANGED <<batch, log, body>> /\ InHand.method = "CancelTask"
        /\ read' = [t \in {InHand.task} |-> "CANCELED"]
    BY <1>6 DEF CancelSave, At, Busy, Typed, Placed
  <2>2. PICK lost \in 0..1 : Losing(lost) /\ StoreSave(lost, InHand.task, "CANCELED")
    BY <1>6 DEF CancelSave
  <2>3. call[c].method = "CancelTask" /\ InHand.task = call[c].task /\ InHand.task \in Tasks
    BY <1>d, <2>1
  <2>4. call'[c].method = "CancelTask" /\ call'[c].task = call[c].task /\ store' \in call'[c].seen
    BY <2>3 DEF GoesOn
  <2>5. CASE lost = 0
    <3>1. store' = [store EXCEPT ![call[c].task] = "CANCELED"] /\ store'[call[c].task] = "CANCELED"
      BY <2>2, <2>3, <2>5 DEF StoreSave, Typed, PostedTyped
    <3>2. read' = Only(store', call[c].task)
      <4>1. {call[c].task} \cap {u \in Tasks : store'[u] # "none"} = {call[c].task}
        BY <2>3, <3>1
      <4>2. Only(store', call[c].task) = [t \in {call[c].task} |-> store'[t]]
        BY <4>1 DEF Only
      <4>3. QED
        BY <2>1, <2>3, <3>1, <4>2
    <3>3. QED
      BY <2>4, <3>2 DEF Fresh
  <2>6. CASE lost = 1
    BY <1>b, <2>2, <2>4, <2>6 DEF Fresh
  <2>7. QED
    BY <2>5, <2>6
<1>7. CASE Notify
  <2>1. Busy /\ at = "notify" /\ UNCHANGED <<batch, read>>
    BY <1>7 DEF Notify, At, Busy
  <2>2. read # NoTasks
    BY <1>7, <2>1 DEF Notify, Reading
  <2>3. InHand' = InHand
    <3>1. Post(Critical, "event", InHand.task, Nobody) \/ UNCHANGED <<log, body>>
      BY <1>7 DEF Notify
    <3>2. "event" \in Methods /\ Nobody \in Int /\ InHand.task \in Tasks /\ Cur \in MsgIds
      BY <2>1, CurFacts DEF Methods
    <3>3. body'[Cur] = body[Cur]
      BY <3>1, <3>2, PostFacts
    <3>4. QED
      BY <2>1, <3>3 DEF InHand, Cur
  <2>4. Fresh(c, read)
    BY <1>a, <2>1, <2>2, <2>3 DEF Reading
  <2>5. QED
    BY <2>1, <2>4, FreshCarried DEF Fresh
<1>8. QED
  BY <1>1, <1>2, <1>3, <1>4, <1>5, <1>6, <1>7 DEF Next, Clients, Loop

(* The first answer of a callback mailbox is fresh for its caller.           *)
LEMMA AnswersAreFresh ==
  ASSUME Typed, FreshInv, Next, NEW c \in Callers, Wait(c), GoesOn(c),
         answers'[call[c].box] # <<>>
  PROVE  Fresh(c, Head(answers[call[c].box]))'
<1> DEFINE box == call[c].box
<1>a. /\ answers[box] # <<>> => Fresh(c, Head(answers[box]))
      /\ box \in 1..MaxCalls /\ call'[c].box = box
      /\ answers \in [1..MaxCalls -> Seq(Views)]
  BY TaskAssumption DEF FreshInv, FreshFor, Typed, PostedTyped, ClientsTyped, GoesOn
<1>b. ASSUME NEW v, Fresh(c, v), Head(answers'[box]) = v
      PROVE  Fresh(c, Head(answers[call[c].box]))'
  <2>1. Fresh(c, v)'
    BY <1>b, FreshCarried
  <2>2. Head(answers'[call'[c].box]) = v
    BY <1>a, <1>b
  <2>3. QED
    BY <2>1, <2>2 DEF Fresh
<1>1. CASE answers' = answers
  BY <1>a, <1>b, <1>1
<1>2. CASE Answer
  <2>1. /\ at = "answer" /\ Busy /\ UNCHANGED <<batch, log, body>>
        /\ \/ answers' = [answers EXCEPT ![InHand.to] = Append(@, read)]
           \/ answers' = answers
    BY <1>2 DEF Answer, At, Busy
  <2>2. CASE answers' = [answers EXCEPT ![InHand.to] = Append(@, read)] /\ InHand.to = box
    <3>1. Fresh(c, read) /\ read \in Views
      BY <2>1, <2>2 DEF FreshInv, FreshFor, Reading, Typed, Placed
    <3>2. answers'[box] = Append(answers[box], read)
      BY <1>a, <2>2
    <3>3. CASE answers[box] = <<>>
      BY <1>b, <3>1, <3>2, <3>3
    <3>4. CASE answers[box] # <<>>
      <4>1. Head(answers'[box]) = Head(answers[box])
        BY <1>a, <3>1, <3>2, <3>4
      <4>2. QED
        BY <1>a, <1>b, <3>4, <4>1
    <3>5. QED
      BY <3>3, <3>4
  <2>3. CASE answers' = [answers EXCEPT ![InHand.to] = Append(@, read)] /\ InHand.to # box
    BY <1>a, <1>b, <2>3
  <2>4. QED
    BY <1>1, <2>1, <2>2, <2>3
<1>3. CASE ~ Answer
  <2>1. CASE Clients \/ Close \/ BrokerLateAck
    BY <1>1, <2>1 DEF Clients, SendMessage, CallEnds, Call, Ask, Close, BrokerLateAck
  <2>2. CASE Loop
    BY <1>1, <1>3, <2>2 DEF Loop, Fetch, DispatchRaises, DispatchSend, DispatchGet,
       DispatchList, DispatchCancel, CancelSave, Notify, HandlerStep, HandlerDelete,
       HandlerEnds, SendFailed, FlushLast, Ack, SendEvent
  <2>3. QED
    BY <2>1, <2>2 DEF Next
<1>4. QED
  BY <1>2, <1>3

(* A call that begins has a callback mailbox that nobody has used.           *)
LEMMA CallBegins ==
  ASSUME Typed, FreshInv, Next, NEW c \in Callers, ~ Wait(c), Wait(c)'
  PROVE  FreshFor(c)'
<1>a. call \in [Callers -> [pc : {"idle", "wait"}, method : Calls \cup {"none"},
                 task : Tasks \cup {"none"}, box : 0..MaxCalls,
                 seen : SUBSET [Tasks -> States]]]
  BY DEF Typed, ClientsTyped
<1>1. ASSUME NEW d \in Callers, NEW method \in Calls, NEW t \in Tasks, Call(d, method, t)
      PROVE  FreshFor(c)'
  <2>1. /\ boxes < MaxCalls /\ boxes' = boxes + 1 /\ Ask(d, method, t, boxes + 1)
        /\ UNCHANGED <<at, batch, read, store, answers>>
    BY <1>1 DEF Call, Ask
  <2>2. \/ call' = [call EXCEPT ![d] = Idle(boxes + 1)]
        \/ /\ Post(Normal, method, t, boxes + 1)
           /\ call' = [call EXCEPT ![d] = [pc |-> "wait", method |-> method, task |-> t,
                                           box |-> boxes + 1, seen |-> {store}]]
    BY <2>1 DEF Ask
  <2>3. /\ Post(Normal, method, t, boxes + 1)
        /\ call'[c] = [pc |-> "wait", method |-> method, task |-> t, box |-> boxes + 1,
                       seen |-> {store}]
    <3>1. d = c
      <4>1. CASE d # c
        BY <1>a, <2>2, <4>1 DEF Wait
      <4>2. QED
        BY <4>1
    <3>2. call' # [call EXCEPT ![d] = Idle(boxes + 1)]
      BY <1>a, <3>1 DEF Wait, Idle
    <3>3. QED
      BY <1>a, <2>2, <3>1, <3>2
  <2>4. call'[c].box = boxes + 1 /\ call'[c].method = method /\ call'[c].task = t
        /\ store' \in call'[c].seen
    BY <2>1, <2>3
  <2>5. boxes \in Nat /\ boxes + 1 \in 1..MaxCalls /\ method \in Methods /\ boxes + 1 \in Int
    BY <2>1, TaskAssumption DEF Typed, ClientsTyped, Methods
  <2>6. \A m \in MsgIds : body[m].to # boxes + 1
    BY <2>5 DEF Typed, Addressed
  <2>7. \A m \in MsgIds' :
          \/ m \in MsgIds /\ body'[m] = body[m]
          \/ m = Len(log) + 1 /\ body'[m] = [method |-> method, task |-> t, to |-> boxes + 1]
    BY <2>3, <2>5, PostFacts
  <2>8. Own(c)'
    BY <2>4, <2>6, <2>7 DEF Own
  <2>9. Reading' => InHand'.to # boxes + 1
    <3>1. Reading' => Busy
      BY <2>1 DEF Reading, Busy
    <3>2. Busy => Cur \in MsgIds /\ InHand' = body[Cur]
      <4>1. \A m \in MsgIds : body'[m] = body[m]
        BY <2>3, <2>5, PostFacts
      <4>2. QED
        BY <2>1, <4>1, CurFacts DEF InHand, Cur
    <3>3. QED
      BY <2>6, <3>1, <3>2
  <2>10. answers'[boxes + 1] = <<>>
    BY <2>1, <2>5 DEF FreshInv
  <2>11. QED
    BY <2>1, <2>4, <2>5, <2>8, <2>9, <2>10 DEF FreshFor
<1>2. ASSUME \A d \in Callers, method \in Calls, t \in Tasks : ~ Call(d, method, t)
      PROVE  FALSE
  <2>1. CASE CancelSave \/ HandlerStep \/ HandlerDelete
    <3>1. Seen /\ UNCHANGED boxes
      BY <2>1 DEF CancelSave, HandlerStep, HandlerDelete
    <3>2. store' \in [Tasks -> States]
      BY LoopTypedKept, <2>1 DEF Loop, Typed, PostedTyped
    <3>3. QED
      BY <3>1, <3>2, SeenFacts DEF Wait
  <2>2. CASE \E d \in Callers : CallEnds(d)
    BY <1>a, <2>2 DEF CallEnds, Wait, Idle
  <2>3. CASE UNCHANGED call
    BY <2>3 DEF Wait
  <2>4. QED
    BY <1>2, <2>1, <2>2, <2>3 DEF Next, Clients, Loop, SendMessage, Fetch, DispatchRaises,
       DispatchSend, DispatchGet, DispatchList, DispatchCancel, Notify, Answer, HandlerEnds,
       SendFailed, FlushLast, Ack, Close, BrokerLateAck
<1>3. QED
  BY <1>1, <1>2

(* Callback mailboxes that have not been created are empty.                  *)
LEMMA UnusedStay ==
  ASSUME Typed, Next, \A n \in 1..MaxCalls : n > boxes => answers[n] = <<>>
  PROVE  (\A n \in 1..MaxCalls : n > boxes => answers[n] = <<>>)'
<1>a. boxes \in Nat /\ answers \in [1..MaxCalls -> Seq(Views)]
  BY DEF Typed, ClientsTyped, PostedTyped
<1>1. CASE Answer
  <2>1. /\ at = "answer" /\ Busy /\ boxes' = boxes
        /\ \/ answers' = [answers EXCEPT ![InHand.to] = Append(@, read)]
           \/ answers' = answers
    BY <1>1 DEF Answer, At, Busy
  <2>2. InHand.to \in 1..boxes
    <3>1. /\ Cur \in MsgIds /\ body[Cur] = InHand /\ InHand.method \in Calls
          /\ "SendMessage" \notin Calls /\ "event" \notin Calls
      BY <2>1, CurFacts DEF InHand, Calls, Typed, Placed
    <3> HIDE DEF Cur, InHand
    <3>2. QED
      BY <3>1 DEF Typed, Addressed
  <2>3. \A n \in 1..MaxCalls : n > boxes => answers'[n] = answers[n]
    <3>1. \A n \in 1..MaxCalls : n > boxes => n # InHand.to
      BY <1>a, <2>2
    <3> HIDE DEF InHand
    <3>2. QED
      BY <1>a, <2>1, <3>1
  <2>4. QED
    BY <2>1, <2>3
<1>2. CASE \E d \in Callers, m \in Calls, t \in Tasks : Call(d, m, t)
  <2>1. boxes' = boxes + 1 /\ answers' = answers
    BY <1>2 DEF Call, Ask
  <2>2. QED
    BY <1>a, <2>1
<1>3. CASE UNCHANGED <<boxes, answers>>
  BY <1>3
<1>4. CASE HandlerStep \/ SendFailed \/ FlushLast
  BY <1>4 DEF HandlerStep, SendFailed, FlushLast, SendEvent
<1>5. CASE Clients \/ Close \/ BrokerLateAck
  BY <1>2, <1>3, <1>5 DEF Clients, SendMessage, CallEnds, Close, BrokerLateAck
<1>6. CASE Loop
  BY <1>1, <1>3, <1>4, <1>6 DEF Loop, Fetch, DispatchRaises, DispatchSend, DispatchGet,
     DispatchList, DispatchCancel, CancelSave, Notify, HandlerDelete, HandlerEnds, Ack
<1>7. QED
  BY <1>5, <1>6 DEF Next

LEMMA FreshNext ==
  ASSUME Typed, FreshInv, Next
  PROVE  FreshInv'
<1>1. ASSUME NEW c \in Callers, Wait(c)' PROVE FreshFor(c)'
  <2>1. CASE Wait(c)
    <3>1. GoesOn(c)
      BY <1>1, <2>1, CallGoesOn
    <3>2. /\ call[c].box \in 1..boxes /\ Own(c) /\ boxes \in Nat
          /\ call'[c].box = call[c].box
      BY <2>1, <3>1 DEF FreshInv, FreshFor, Typed, ClientsTyped, GoesOn
    <3>3. call'[c].box \in 1..boxes' /\ store' \in call'[c].seen
      <4>1. boxes' \in Nat
        BY TypedNext DEF Typed, ClientsTyped
      <4>2. QED
        BY <3>1, <3>2, <4>1 DEF GoesOn
    <3>4. Own(c)'
      BY <3>1, <3>2 DEF Own, GoesOn
    <3>5. Reading' /\ InHand'.to = call'[c].box => Fresh(c, read)'
      BY <2>1, <3>1, <3>2, ReadIsFresh
    <3>6. answers'[call'[c].box] # <<>> => Fresh(c, Head(answers[call[c].box]))'
      BY <2>1, <3>1, <3>2, AnswersAreFresh
    <3>7. QED
      BY <3>3, <3>4, <3>5, <3>6 DEF FreshFor
  <2>2. CASE ~ Wait(c)
    BY <1>1, <2>2, CallBegins
  <2>3. QED
    BY <2>1, <2>2
<1>2. QED
  BY <1>1, UnusedStay DEF FreshInv

LEMMA FreshInvariant == Spec => []FreshInv
<1>1. Init => FreshInv
  BY DEF Init, FreshInv, Wait, Idle
<1>2. Typed /\ FreshInv /\ [Next]_vars => FreshInv'
  <2>1. ASSUME Typed, FreshInv, UNCHANGED vars PROVE FreshInv'
    BY <2>1 DEF vars, FreshInv, Wait, FreshFor, Own, Reading, Fresh, InHand, Cur, MsgIds
  <2>2. QED
    BY <2>1, FreshNext
<1>3. QED
  BY <1>1, <1>2, TypedInvariant, PTL DEF Spec

(* No call returns something out of date (agent.py: get_task, list_tasks and *)
(* cancel_task wait in a mailbox of their own): what it returns was the      *)
(* state of the store at some moment while the call was under way, whatever  *)
(* other callers do, however late the agent comes to the request.  After a   *)
(* fault a task may look unknown, and a cancellation may be reported that    *)
(* was not saved.                                                            *)
THEOREM TaskAnswerIsFresh == Spec => []AnswerIsFresh
<1>1. FreshInv => AnswerIsFresh
  BY DEF FreshInv, FreshFor, Fresh, Wait, AnswerIsFresh, HasAnswer, Returned
<1>2. QED
  BY <1>1, FreshInvariant, PTL
=============================================================================
