------------------------------ MODULE TaskAgent ------------------------------
(* The tasks of a Python A2A agent (a2a/agent.py): other agents queue task   *)
(* requests in its inbox and call get_task, list_tasks and cancel_task; the  *)
(* consume loop dispatches one message after the other and acknowledges it   *)
(* when its dispatch has returned.  A handler's events go to the sender's    *)
(* mailbox, an answer to the callback mailbox of the call.                   *)
EXTENDS Mailbox, TaskStore

CONSTANTS
  Callers,      \* the agents that ask about tasks
  Headers,      \* {FALSE}: messages as the SDK has them; TRUE: with headers
  CanFail,      \* a handler may raise an exception
  MaxRequests,  \* bound: others send while the inbox has fewer messages
  MaxCalls,     \* bound: how many calls are made
  MaxFaults     \* bound: how many requests or replies are lost

Critical == 1
Normal == 3

ASSUME TaskAssumption ==
  /\ {Critical, Normal} \subseteq Priorities
  /\ Headers \subseteq BOOLEAN /\ CanFail \in BOOLEAN
  /\ MaxRequests \in Nat /\ MaxCalls \in Nat /\ MaxFaults \in Nat

VARIABLES
  body,      \* the messages of the inbox: method, task and mailbox to reply to
  headers,   \* the messages handed to _dispatch have an attribute headers
  executor,  \* a handler was registered with on_message
  at,        \* where the loop is
  batch,     \* what is left of the last fetch, the message in hand first
  step,      \* the events that the handler has enqueued, plus one
  read,      \* the tasks that the dispatch in hand has read from the store
  closing,   \* close(), or the handler itself, has cancelled the loop
  events,    \* for each request, the events in its sender's mailbox
  answers,   \* the answers in each callback mailbox
  boxes,     \* how many callback mailboxes have been created
  call,      \* what each caller is doing, and the stores there were meanwhile
  faults,    \* how many requests or replies have been lost
  missed     \* history: the requests of which an event was lost

inbox == <<log, offset, late, body>>
setup == <<headers, executor>>
dispatch == <<step, read>>
posted == <<events, answers, missed>>
clients == <<boxes, call>>
vars == <<inbox, setup, at, batch, dispatch, closing, store, posted, clients, faults>>

(* The addresses in the reply-to header: callback mailboxes have numbers.    *)
Nobody == -1
Sender == 0

Calls == {"GetTask", "ListTasks", "CancelTask"}
Cur == Head(batch)
InHand == body[Cur]

(* A caller between two calls; box is its last callback mailbox.             *)
Idle(box) ==
  [pc |-> "idle", method |-> "none", task |-> "none", box |-> box, seen |-> {}]

Init ==
  /\ MailboxInit /\ StoreInit
  /\ body = <<>>
  /\ headers \in Headers /\ executor \in BOOLEAN
  /\ at = "fetch" /\ batch = <<>> /\ step = 1 /\ read = NoTasks
  /\ closing = FALSE
  /\ events = [m \in 1..MaxMsgs |-> <<>>]
  /\ answers = [n \in 1..MaxCalls |-> <<>>]
  /\ boxes = 0 /\ call = [c \in Callers |-> Idle(0)]
  /\ faults = 0 /\ missed = {}

(* So many requests of a step are lost.  When only the reply is lost the     *)
(* request was carried out and the error is swallowed: nothing differs.      *)
Losing(n) == faults + n <= MaxFaults /\ faults' = faults + n

(* A message is stored in the inbox.                                         *)
Post(p, method, task, to) ==
  /\ Send(p)
  /\ body' = Append(body, [method |-> method, task |-> task, to |-> to])
-----------------------------------------------------------------------------
(* The clients.  Bound: they are not followed any further once the agent     *)
(* closes.                                                                   *)
CanAsk == Len(log) < MaxRequests /\ ~closing

(* send_message(), with or without reply_to.                                 *)
SendMessage ==
  /\ CanAsk
  /\ \E t \in Tasks, to \in {Sender, Nobody} :
       Post(Normal, "SendMessage", t, to)
  /\ UNCHANGED <<setup, at, batch, dispatch, closing, store, posted, clients, faults>>

(* get_task(), list_tasks() and cancel_task(): a request is queued that is   *)
(* to be answered to box.  Its reply may be lost, or the request itself, and *)
(* the call raises.                                                          *)
Ask(c, method, task, box) ==
  /\ call[c].pc = "idle" /\ CanAsk
  /\ \/ /\ Losing(0) /\ Post(Normal, method, task, box)
        /\ call' = [call EXCEPT ![c] = [pc |-> "wait", method |-> method,
                      task |-> task, box |-> box, seen |-> {store}]]
     \/ /\ Losing(1) /\ (Post(Normal, method, task, box) \/ UNCHANGED inbox)
        /\ call' = [call EXCEPT ![c] = Idle(box)]
  /\ UNCHANGED <<setup, at, batch, dispatch, closing, store, posted>>

(* Faulty: a caller keeps its callback mailbox for the next call.            *)
CallReuses(c, method, task) ==
  LET box == IF call[c].box = 0 THEN boxes + 1 ELSE call[c].box IN
  /\ boxes < MaxCalls
  /\ boxes' = IF box > boxes THEN box ELSE boxes
  /\ Ask(c, method, task, box)

(* Each call creates a callback mailbox of its own.                          *)
Call(c, method, task) ==
  /\ boxes < MaxCalls
  /\ boxes' = boxes + 1
  /\ Ask(c, method, task, boxes + 1)

(* What the call returns if it fetches now, once there is an answer.         *)
HasAnswer(c) == call[c].pc = "wait" /\ answers[call[c].box] # <<>>
Returned(c) == Head(answers[call[c].box])

(* The call is over: with the first message of its callback mailbox, or      *)
(* without one.  The fetch waits for it as long as the fetch request itself  *)
(* may take, so that it comes back empty or raises a timeout.                *)
CallEnds(c) ==
  /\ call[c].pc = "wait" /\ ~closing
  /\ call' = [call EXCEPT ![c] = Idle(@.box)]
  /\ UNCHANGED <<inbox, setup, at, batch, dispatch, closing, store, posted, boxes, faults>>

Clients ==
  \/ SendMessage
  \/ \E c \in Callers :
       CallEnds(c) \/ \E m \in Calls, t \in Tasks : Call(c, m, t)
-----------------------------------------------------------------------------
(* The loop is at this place and has not been cancelled.                     *)
At(place) == at = place /\ ~closing

(* A fetch that fails is tried again.                                        *)
Fetch ==
  /\ At("fetch")
  /\ \E b \in Batches :
       batch' = b /\ at' = IF b = <<>> THEN "fetch" ELSE "dispatch"
  /\ UNCHANGED <<inbox, setup, dispatch, closing, store, posted, clients, faults>>

(* Faulty: the loop runs one past the end of the batch.                      *)
NextMessageOverrun ==
  batch' = Tail(batch) /\ step' = 1 /\ read' = NoTasks /\ at' = "dispatch"

NextMessage ==
  /\ batch' = Tail(batch) /\ step' = 1 /\ read' = NoTasks
  /\ at' = IF Tail(batch) = <<>> THEN "fetch" ELSE "dispatch"

(* msg.headers is read before the try: the error is the loop's to log, and   *)
(* the message is not acknowledged.                                          *)
DispatchRaises ==
  /\ At("dispatch") /\ ~headers
  /\ NextMessage
  /\ UNCHANGED <<inbox, setup, closing, store, posted, clients, faults>>

Dispatch(methods) == At("dispatch") /\ headers /\ InHand.method \in methods

(* Without a method header a message is taken for a task request.  An event  *)
(* has none: it does not parse, and is dropped like a request nobody handles.*)
DispatchSend ==
  /\ Dispatch({"SendMessage", "event"})
  /\ at' = IF executor /\ InHand.method = "SendMessage"
           THEN "handler" ELSE "ack"
  /\ UNCHANGED <<inbox, setup, batch, dispatch, closing, store, posted, clients, faults>>

DispatchGet ==
  /\ Dispatch({"GetTask"})
  /\ \E lost \in 0..1 : Losing(lost) /\ read' = StoreGet(lost, InHand.task)
  /\ at' = "answer"
  /\ UNCHANGED <<inbox, setup, batch, step, closing, store, posted, clients>>

DispatchList ==
  /\ Dispatch({"ListTasks"})
  /\ \E lost \in 0..1 : Losing(lost) /\ read' = StoreList(lost)
  /\ at' = "answer"
  /\ UNCHANGED <<inbox, setup, batch, step, closing, store, posted, clients>>

DispatchCancel ==
  /\ Dispatch({"CancelTask"})
  /\ \E lost \in 0..1 : Losing(lost) /\ read' = StoreGet(lost, InHand.task)
  /\ at' = IF read' = NoTasks THEN "notify" ELSE "cancel"
  /\ UNCHANGED <<inbox, setup, batch, step, closing, store, posted, clients>>

(* Every call under way has seen the new state of the store.                 *)
Seen == call' = [c \in Callers |-> IF call[c].pc = "idle" THEN call[c]
                   ELSE [call[c] EXCEPT !.seen = @ \cup {store'}]]

(* A task that was found is saved as cancelled, whatever state it was in.    *)
CancelSave ==
  /\ At("cancel")
  /\ \E lost \in 0..1 :
       Losing(lost) /\ StoreSave(lost, InHand.task, "CANCELED")
  /\ Seen
  /\ read' = [t \in {InHand.task} |-> "CANCELED"]
  /\ at' = "notify"
  /\ UNCHANGED <<inbox, setup, batch, step, closing, posted, boxes>>

(* The cancellation is sent to the agent's own inbox, ahead of what waits    *)
(* there.  Past the bound MaxMsgs it is not stored.                          *)
Notify ==
  /\ At("notify")
  /\ \/ Losing(0) /\ Post(Critical, "event", InHand.task, Nobody)
     \/ Losing(1) /\ UNCHANGED inbox
     \/ Losing(0) /\ Len(log) = MaxMsgs /\ UNCHANGED inbox
  /\ at' = IF read = NoTasks THEN "ack" ELSE "answer"
  /\ UNCHANGED <<setup, batch, dispatch, closing, store, posted, clients>>

Answer ==
  /\ At("answer")
  /\ \/ Losing(0) /\ answers' = [answers EXCEPT ![InHand.to] = Append(@, read)]
     \/ Losing(1) /\ UNCHANGED answers
  /\ at' = "ack" /\ read' = NoTasks
  /\ UNCHANGED <<inbox, setup, batch, step, closing, store, events, missed, clients>>
-----------------------------------------------------------------------------
(* What the handler of the A2A demo enqueues: a status, its result and the   *)
(* final status.  A handler that keeps its tasks in the store saves a status *)
(* there as well.                                                            *)
Stream == <<"WORKING", "ARTIFACT", "COMPLETED">>

(* An event is sent to the mailbox to reply to, if there is one.             *)
SendEvent(lost, state, last) ==
  /\ lost = 1 => InHand.to = Sender
  /\ events' = IF InHand.to = Sender /\ lost = 0
               THEN [events EXCEPT ![Cur] =
                       Append(@, [state |-> state, last |-> last])]
               ELSE events
  /\ missed' = IF lost = 1 THEN missed \cup {Cur} ELSE missed
  /\ UNCHANGED answers

HandlerStep ==
  /\ At("handler") /\ step <= Len(Stream)
  /\ \E event, save \in 0..1 :
       /\ Losing(event + save)
       /\ SendEvent(event, Stream[step], FALSE)
       /\ IF Stream[step] \in States
          THEN StoreSave(save, InHand.task, Stream[step])
          ELSE save = 0 /\ UNCHANGED store
  /\ Seen
  /\ step' = step + 1
  /\ UNCHANGED <<inbox, setup, at, batch, read, closing, boxes>>

(* A handler may delete a task that it has finished.                         *)
HandlerDelete ==
  /\ At("handler") /\ step > Len(Stream) /\ store[InHand.task] # "none"
  /\ \E lost \in 0..1 : Losing(lost) /\ StoreDelete(lost, InHand.task)
  /\ Seen
  /\ at' = "flush"
  /\ UNCHANGED <<inbox, setup, batch, dispatch, closing, posted, boxes>>

(* The handler returns when it is through, or raises before.                 *)
HandlerEnds ==
  /\ At("handler")
  /\ \/ step > Len(Stream) /\ at' = "flush"
     \/ CanFail /\ at' = "failed"
  /\ UNCHANGED <<inbox, setup, batch, dispatch, closing, store, posted, clients, faults>>

SendFailed ==
  /\ At("failed")
  /\ \E lost \in 0..1 : Losing(lost) /\ SendEvent(lost, "FAILED", TRUE)
  /\ at' = "flush"
  /\ UNCHANGED <<inbox, setup, batch, dispatch, closing, store, clients>>

(* The loop is left for good.                                                *)
Leave == at' = "closed" /\ batch' = <<>> /\ step' = 1 /\ read' = NoTasks

(* Faulty: a handler that has enqueued COMPLETED needs no last marker.       *)
FlushUnlessDone ==
  /\ at = "flush"
  /\ IF step > Len(Stream) THEN UNCHANGED posted
     ELSE SendEvent(0, "COMPLETED", TRUE)
  /\ IF closing THEN Leave ELSE at' = "ack" /\ UNCHANGED <<batch, dispatch>>
  /\ UNCHANGED <<inbox, setup, closing, store, clients, faults>>

(* finally: flush_last(), after a return, a failure and a cancellation.      *)
FlushLast ==
  /\ at = "flush"
  /\ \E lost \in 0..1 : Losing(lost) /\ SendEvent(lost, "COMPLETED", TRUE)
  /\ IF closing THEN Leave ELSE at' = "ack" /\ UNCHANGED <<batch, dispatch>>
  /\ UNCHANGED <<inbox, setup, closing, store, clients>>

(* Faulty: a request whose handler raised is not acknowledged.               *)
AckIfDone ==
  /\ At("ack")
  /\ offset' = IF InHand.method # "SendMessage" \/ step > Len(Stream)
               THEN Advanced(Cur) ELSE offset
  /\ NextMessage
  /\ UNCHANGED <<log, late, body, setup, closing, store, posted, clients, faults>>

(* Faulty: an ACK that fails ends the loop.                                  *)
AckErrorEnds ==
  /\ At("ack")
  /\ \/ Losing(0) /\ offset' = Advanced(Cur) /\ NextMessage
     \/ Losing(1) /\ Leave /\ UNCHANGED offset
  /\ UNCHANGED <<log, late, body, setup, closing, store, posted, clients>>

(* The ACK, once the dispatch has returned; a lost one is only logged.       *)
Ack ==
  /\ At("ack")
  /\ \/ Losing(0) /\ offset' = Advanced(Cur) /\ UNCHANGED late
     \/ Losing(1) /\ late' = late \cup {Cur} /\ UNCHANGED offset
  /\ NextMessage
  /\ UNCHANGED <<log, body, setup, closing, store, posted, clients>>

(* close() cancels the loop at an await.  A handler that is cut off leaves   *)
(* through the finally clause, anything else leaves at once; an ACK under    *)
(* way may still arrive.  A handler that raises a CancelledError of its own  *)
(* ends the loop in the same way, without close().                           *)
Close ==
  /\ ~closing /\ closing' = TRUE
  /\ \/ /\ at \in {"handler", "failed", "flush"} /\ at' = "flush"
        /\ UNCHANGED <<batch, dispatch>>
     \/ at \notin {"handler", "failed"} /\ Leave
  /\ late' = IF at = "ack" THEN late \cup {Cur} ELSE late
  /\ UNCHANGED <<log, offset, body, setup, store, posted, clients, faults>>

BrokerLateAck ==
  /\ LateAck
  /\ UNCHANGED <<body, setup, at, batch, dispatch, closing, store, posted, clients, faults>>

Loop ==
  \/ Fetch \/ DispatchRaises
  \/ DispatchSend \/ DispatchGet \/ DispatchList \/ DispatchCancel
  \/ CancelSave \/ Notify \/ Answer
  \/ HandlerStep \/ HandlerDelete \/ HandlerEnds \/ SendFailed \/ FlushLast
  \/ Ack

Next == Clients \/ Loop \/ Close \/ BrokerLateAck

Spec == Init /\ [][Next]_vars

(* The event loop runs the agent's task, and every request has a timeout.    *)
FairSpec == Spec /\ WF_vars(Loop)
-----------------------------------------------------------------------------
Views == UNION {[T -> States \ {"none"}] : T \in SUBSET Tasks}

TypeOK ==
  /\ log \in Seq({Critical, Normal}) /\ Len(log) = Len(body)
  /\ offset \in 1..Len(log) + 1 /\ late \subseteq MsgIds
  /\ \A m \in MsgIds : /\ body[m].method \in Calls \cup {"SendMessage", "event"}
                       /\ body[m].task \in Tasks /\ body[m].to \in -1..boxes
  /\ headers \in Headers /\ executor \in BOOLEAN /\ closing \in BOOLEAN
  /\ at \in {"fetch", "dispatch", "handler", "failed", "flush", "cancel",
             "notify", "answer", "ack", "closed"}
  /\ batch \in Seq(MsgIds) /\ (at \notin {"fetch", "closed"} => batch # <<>>)
  /\ step \in 1..Len(Stream) + 1 /\ read \in Views
  /\ store \in [Tasks -> States]
  /\ \A m \in 1..MaxMsgs : events[m] \in
       Seq([state : {"WORKING", "ARTIFACT", "COMPLETED", "FAILED"}, last : BOOLEAN])
  /\ \A n \in 1..MaxCalls : answers[n] \in Seq(Views)
  /\ boxes \in 0..MaxCalls /\ faults \in 0..MaxFaults /\ missed \subseteq MsgIds
  /\ \A c \in Callers : call[c].pc \in {"idle", "wait"} /\ call[c].box \in 0..boxes

(* A call never answers with something out of date: the states it returns    *)
(* are ones that the store held while the call was under way, though earlier *)
(* calls were given up, requests are delivered twice and answers come late.  *)
(* After a fault a store that could not be read looks empty, and a           *)
(* cancellation that could not be saved is answered all the same.            *)
AnswerIsFresh ==
  \A c \in Callers : HasAnswer(c) =>
    \/ \E s \in call[c].seen :
         Returned(c) = IF call[c].method = "ListTasks"
                       THEN Known(s) ELSE Only(s, call[c].task)
    \/ faults > 0 /\ (Returned(c) = NoTasks \/ call[c].method = "CancelTask")

(* The stream of a request is complete: its sender has a last marker.        *)
Ended(m) == \E i \in DOMAIN events[m] : events[m][i].last

(* A request was passed over when a more important message was acknowledged: *)
(* the notice of a cancellation that arrived after it.                       *)
Overtaken(m) == \E k \in m + 1..offset - 1 : log[k] < log[m]

(* No sender waits in vain: a task request that the group has got past has   *)
(* its last marker in the sender's mailbox, whether the handler returned,    *)
(* failed or was cut off, unless an event of it was lost or a cancellation   *)
(* overtook it.                                                              *)
AckedIsAnswered ==
  executor => \A m \in MsgIds : m < offset /\ body[m].to = Sender =>
    Ended(m) \/ m \in missed \/ Overtaken(m)

(* While nothing is lost a request has one stream and not two, however it is *)
(* redelivered or cut off: its sender finds the handler's events in order,   *)
(* up to some point, and behind them at most FAILED and at most COMPLETED.   *)
(* Both have the last marker, so that a failure has two: see LastIsLast.     *)
OneStream ==
  faults = 0 => \A m \in MsgIds : \E n \in 0..Len(Stream) :
    LET Plain == [i \in 1..n |-> [state |-> Stream[i], last |-> FALSE]]
        Failed == [state |-> "FAILED", last |-> TRUE]
        Completed == [state |-> "COMPLETED", last |-> TRUE]
    IN events[m] \in {Plain, Plain \o <<Failed>>, Plain \o <<Completed>>,
                      Plain \o <<Failed, Completed>>}

(* The last marker is on the last event of a stream (a2a.md), so that a      *)
(* receiver may stop there.  It does not hold: the finally clause follows    *)
(* FAILED with COMPLETED.                                                    *)
LastIsLast ==
  \A m \in MsgIds : \A i \in DOMAIN events[m] :
    events[m][i].last => i = Len(events[m])

(* A task request is answered in the end, as long as the agent runs and its  *)
(* messages have headers, however often its ACK or other requests are lost.  *)
RequestAnswered ==
  \A m \in 1..MaxRequests :
    (headers /\ executor /\ m <= Len(log) /\ body[m].to = Sender) ~>
      (Ended(m) \/ m \in missed \/ Overtaken(m) \/ closing)

(* The agent receives messages once its mailbox has been created: a task     *)
(* request reaches its handler.                                              *)
MessageReceived ==
  \A m \in 1..MaxMsgs :
    (executor /\ m <= Len(log) /\ body[m].method = "SendMessage") ~>
      ((at = "handler" /\ Cur = m) \/ Overtaken(m) \/ closing)
=============================================================================
