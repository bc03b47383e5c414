----------------------------- MODULE ConsumeLoop -----------------------------
(* What the consume loops of the six SDKs have in common: the state of the   *)
(* loop and of the Consumer handle, the broker at the other end, and the     *)
(* history from which the delivery guarantees are stated.  Each SDK's module *)
(* extends this one with its own control flow.                               *)
EXTENDS Mailbox

CONSTANTS
  AutoAck,          \* auto_ack is set and a group_name was given
  HasErrorHandler,  \* an error handler was given (Python, JavaScript, C#)
  CanFail,          \* a handler may fail
  CanPanic,         \* a handler may end in something its loop does not catch
  CanLose,          \* a request or its reply may be lost, or answered too late
  CanCrash,         \* the process may die and be started again
  MaxCount          \* bound: processed_count saturates here

ASSUME ConsumeAssumption ==
  /\ AutoAck \in BOOLEAN
  /\ HasErrorHandler \in BOOLEAN
  /\ CanFail \in BOOLEAN
  /\ CanPanic \in BOOLEAN
  /\ CanLose \in BOOLEAN
  /\ CanCrash \in BOOLEAN
  /\ MaxCount \in Nat

VARIABLES
  pc,        \* where the loop is; "off" before consume(), "done" once it ended
  batch,     \* the messages of the last fetch
  pos,       \* the one of them the loop is at
  ack,       \* the ACK the loop waits for: "none", "sent", or "applied"
  count,     \* the handle's processed count
  running,   \* the handle's running flag
  stop,      \* the caller of stop(): "none", "requested", or "returned"
  attempted, \* history: messages whose handler returned or failed
  handled,   \* history: messages whose handler returned
  repeated,  \* history: messages whose handler returned more than once
  counted    \* history: messages counted by an SDK that counts after the ACK

loopVars == <<pc, batch, pos>>
history == <<attempted, handled, repeated>>
vars == <<log, offset, late, pc, batch, pos, ack, count, running, stop,
          attempted, handled, repeated, counted>>

Current == batch[pos]
InBatch == pos \in 1..Len(batch)
LetThrough == pc \in {"call", "handler"}
Alive == pc \notin {"off", "done"}

LoopInit ==
  /\ MailboxInit
  /\ pc = "off" /\ batch = <<>> /\ pos = 1 /\ ack = "none"
  /\ count = 0 /\ running = FALSE /\ stop = "none"
  /\ attempted = {} /\ handled = {} /\ repeated = {} /\ counted = {}

(* The steps nobody in the SDK takes: a producer sends, the broker applies   *)
(* the ACK the loop is waiting for, or one that nobody waits for.            *)
Produce ==
  /\ \E p \in Priorities : Send(p)
  /\ UNCHANGED <<pc, batch, pos, ack, count, running, stop, history, counted>>

BrokerAck ==
  /\ ack = "sent"
  /\ ack' = "applied"
  /\ offset' = Advanced(Current)
  /\ UNCHANGED <<log, late, pc, batch, pos, count, running, stop, history, counted>>

BrokerLateAck ==
  /\ LateAck
  /\ UNCHANGED <<pc, batch, pos, ack, count, running, stop, history, counted>>

Broker == Produce \/ BrokerAck \/ BrokerLateAck

(* consume() hands out a fresh handle and starts the loop at entry.          *)
StartLoop(entry) ==
  /\ pc \in {"off", "done"} /\ stop # "requested"
  /\ pc' = entry /\ batch' = <<>> /\ pos' = 1 /\ ack' = "none"
  /\ count' = 0 /\ running' = TRUE /\ stop' = "none"
  /\ UNCHANGED <<mailboxVars, history, counted>>

(* The loop only moves on to another place.                                  *)
GoTo(place) ==
  /\ pc' = place
  /\ UNCHANGED <<mailboxVars, batch, pos, ack, count, running, stop, history, counted>>

(* The loop ends and lowers the running flag of its handle.                  *)
Leave ==
  /\ pc' = "done" /\ running' = FALSE
  /\ UNCHANGED <<mailboxVars, batch, pos, ack, count, stop, history, counted>>

(* A fetch is answered; an empty answer and one with messages lead on.       *)
FetchAnswered(empty, each) ==
  /\ \E b \in Batches :
       /\ batch' = b
       /\ pc' = IF b = <<>> THEN empty ELSE each
  /\ pos' = 1
  /\ UNCHANGED <<mailboxVars, ack, count, running, stop, history, counted>>

(* Faulty: the loop runs one past the end of the batch.                      *)
NextMessageOverrun(each, top) ==
  IF pos <= Len(batch)
  THEN pc' = each /\ pos' = pos + 1 /\ UNCHANGED batch
  ELSE pc' = top /\ pos' = 1 /\ batch' = <<>>

(* The loop goes on to the next message of the batch, or back to the top.    *)
NextMessage(each, top) ==
  IF pos < Len(batch)
  THEN pc' = each /\ pos' = pos + 1 /\ UNCHANGED batch
  ELSE pc' = top /\ pos' = 1 /\ batch' = <<>>

(* The handler of the current message returned, or failed.                   *)
HandlerReturned ==
  /\ attempted' = attempted \cup {Current}
  /\ handled' = handled \cup {Current}
  /\ repeated' = repeated \cup ({Current} \cap handled)

HandlerFailed ==
  /\ CanFail
  /\ attempted' = attempted \cup {Current}
  /\ UNCHANGED <<handled, repeated>>

CountUp == count' = IF count < MaxCount THEN count + 1 ELSE count

Counted == CountUp /\ counted' = counted \cup {Current}

(* The loop waits no longer for the ACK it sent, which may still arrive.     *)
AbandonAck ==
  /\ ack' = "none"
  /\ late' = IF ack = "sent" THEN late \cup {Current} ELSE late

(* stop() has been called and waits for the loop; it returns once that ended.*)
StopCalled ==
  /\ pc # "off" /\ stop = "none"
  /\ stop' = "requested"
  /\ UNCHANGED <<mailboxVars, loopVars, ack, count, history, counted>>

StopReturned ==
  /\ pc = "done" /\ stop = "requested"
  /\ stop' = "returned"
  /\ UNCHANGED <<mailboxVars, loopVars, ack, count, history, counted>>

(* The process dies: the handle and the loop are gone, the broker is not.    *)
Crash ==
  /\ CanCrash
  /\ pc # "off"
  /\ AbandonAck
  /\ pc' = "off" /\ batch' = <<>> /\ pos' = 1
  /\ count' = 0 /\ running' = FALSE /\ stop' = "none"
  /\ UNCHANGED <<log, offset, history, counted>>

TypeOKLoop ==
  /\ log \in Seq(Priorities)
  /\ offset \in 1..Len(log) + 1
  /\ late \subseteq MsgIds
  /\ batch \in Seq(MsgIds)
  /\ pos \in Nat \ {0}
  /\ ack \in {"none", "sent", "applied"}
  /\ count \in 0..MaxCount
  /\ running \in BOOLEAN
  /\ stop \in {"none", "requested", "returned"}
  /\ attempted \subseteq MsgIds
  /\ handled \subseteq attempted
  /\ repeated \subseteq handled
  /\ counted \subseteq handled

(* What ties the loop to the group, for messages of one priority: whatever   *)
(* precedes a message of the batch has been attempted or comes earlier in    *)
(* what is left of the batch, and whatever precedes an abandoned ACK has     *)
(* been attempted.                                                           *)
Distinct == \A i, j \in 1..Len(batch) : i < j => batch[i] # batch[j]

Covered ==
  \A i \in pos..Len(batch) : \A m \in MsgIds :
    m < batch[i] => m \in attempted \/ \E j \in pos..(i - 1) : batch[j] = m

LateCovered == \A m \in late : \A k \in 1..m : k \in attempted
-----------------------------------------------------------------------------
(* The loop implements the contract of DeliveryContract.                     *)
Contract == INSTANCE DeliveryContract WITH sent <- Len(log)
ImplementsContract == Contract!Spec

(* The group never gets past a message that no handler has seen to its end:  *)
(* whatever is lost, cancelled or restarted, such a message is delivered     *)
(* again.  It takes messages of one priority: see NothingLost.               *)
NothingSkipped == \A m \in MsgIds : m < offset => m \in attempted

(* Only successful handling moves the group: an ACK is sent for a message    *)
(* whose handler returned, and the offset stands just past such a message.   *)
AckedWasHandled ==
  /\ late \subseteq handled
  /\ ack # "none" => Current \in handled
  /\ offset > 1 => offset - 1 \in handled

(* Together they are inductive, given the type invariant of the SDK's loop.  *)
DeliveryInv ==
  /\ AckedWasHandled
  /\ Distinct
  /\ Uniform => NothingSkipped /\ Covered /\ LateCovered

(* At-least-once delivery for any priorities: a message that the group has   *)
(* got past was in a handler's hands, or the live loop still has it to do.   *)
NothingLost ==
  \A m \in MsgIds : m < offset /\ m \notin attempted =>
    Alive /\ \E i \in pos..Len(batch) : batch[i] = m

(* No handler returns twice for one message.                                 *)
HandledOnce == repeated = {}

(* A message that was counted after its ACK (Python, JavaScript) is in no    *)
(* processed count again, also when ACKs are lost, the loop is cancelled and *)
(* started again, in any SDK, and messages are delivered again.              *)
CountedOnce == [][count' > count => Current \notin counted]_vars

(* There, what has been counted has been acknowledged and applied.           *)
CountedIsAcked == AutoAck => \A m \in counted : m < offset

(* A message whose handler has only failed so far is still to be delivered.  *)
StaysForRetry == \A m \in attempted \ handled : m >= offset

(* stop() leaves nobody to wait for a second handler: once it was called, no *)
(* message is let through to the handler any more.  The one that has been    *)
(* let through is handled to its end.                                        *)
StopLetsNoneThrough ==
  [][stop' = "requested" /\ LetThrough' => LetThrough /\ UNCHANGED <<batch, pos>>]_vars

(* stop() drains the batch: when it returns, every message that the loop had *)
(* fetched has been handed to the handler.                                   *)
StopDrains == stop = "returned" => \A i \in DOMAIN batch : batch[i] \in attempted

(* stop() returns, unless the process dies first.                            *)
StopReturns == stop = "requested" ~> stop # "requested"

(* A message is handed to a handler in the end, as long as the loop runs.    *)
Delivered ==
  \A m \in 1..MaxMsgs :
    m <= Len(log) /\ Alive ~> m \in attempted \/ ~Alive \/ stop = "requested"

(* The handle says that the loop is running exactly as long as it is.        *)
RunningIsAlive == running <=> Alive
=============================================================================
