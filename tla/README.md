# mq9 in TLA+

mq9 is an asynchronous messaging system for agents. This repository holds its
client side: SDKs in Python, Go, Rust, JavaScript, Java and C#, an A2A agent layer
on top of the Python and the Java SDK, LangChain tools, demos and the website. The
broker (RobustMQ, spoken to over NATS) is not in the repository. What can go wrong
here is therefore not storage or replication but what the clients do with the
broker's primitives: the consume loop with its handler, its acknowledgement and its
stop; the agent with its mailboxes, its registration, its heartbeat and its tasks; the
language models that use the broker through tools and remember only text.

## Inventory

| Component | State | Operations | Interacts with |
| --- | --- | --- | --- |
| Broker (external): mailbox and consumer group | log of messages with priority, offset per group | MSG.SEND, MSG.FETCH, MSG.ACK, QUERY, DELETE | every SDK, by request and reply |
| Broker (external): agent registry | entries kept alive by reports | AGENT.REGISTER, UNREGISTER, REPORT, DISCOVER | A2A agents, LangChain tools |
| SDK consume loop, six of them (`consume` in each client file) | place in the loop, batch, running flag, processed count | fetch, call the handler, ack, call the error handler, sleep after an error | the handler (callback), the broker, the caller of `stop()` |
| SDK `Consumer` handle | running flag, count, stop signal, the task or thread | `stop`, `is_running`, `processed_count` | the loop |
| SDK one-shot requests | none | `send`, `query`, `delete`, `mailbox_create`, `agent_*` | the broker |
| Python A2A agent (`python/mq9/a2a/agent.py`) | client, mailbox, consumer, heartbeat task, task store | `connect`, `create_mailbox`, `register`, `unregister`, `close`, `send_message`, task RPC; `_dispatch` on the receiving side | consume loop, registry, other agents |
| Python task store (`_task_store.py`) | a mailbox with one keyed message per task | `save`, `get`, `delete`, `list` | the broker |
| Java A2A agent (`java/.../a2a`) | client, mailbox, consumer, scheduled heartbeat, event queue | as Python, without task RPC | consume loop, registry |
| LangChain tools (`langchain_mq9/tools.py`) | none, a connection per call; the model remembers the text of the answers | eight tools of one or two requests | the broker; models that share a mailbox and a group |
| LangGraph example (`examples/langgraph_agent.py`) | address for replies, messages, done | `setup`, `poll_reply`, `should_continue` | the tools; workers that reply |

The hard behaviours are these. The loop runs beside its owner, who may stop it at
any moment; a stop is a cancellation (Python), a token (C#), a channel (Go, Rust) or
a flag (Java, JavaScript), and lands between any two steps. Requests and replies are
lost or late: a client that has given up on an ACK does not know whether the broker
applies it, or when. Handlers fail, panic and call an error handler that fails as
well. The process dies and a new one continues with the same group. And one fact of
the broker makes all of this matter: an ACK is cumulative. It sets one offset for
the whole group, past everything with a smaller msg_id, while the messages of a
batch come in order of priority.

Correctness of the consume loops means: a message that no handler has seen is delivered
again until one has; the offset moves only over messages that have been in a handler's
hands; a handled message is not handled again unless its ACK went wrong; the count
counts what it claims to count; `stop` lets no further message through to the handler,
ends the loop and returns; messages are delivered in the end. Correctness of the agent
layer means: an agent that is started again finds its inbox and its tasks; an agent that
reports has a mailbox and has begun to read it; the entry of one that has been taken
back fades, unless a heartbeat has got out of hand; a request that the group has got
past has its whole stream in the sender's mailbox; an answer to a call is about the
store as it was during that call. Correctness of the tools means: models that share a
mailbox lose nothing that none of them has seen, a registration that failed half-way can
be repeated once the TTL is over, and the graph stops polling when there is a reply.

## Modules

```
Mailbox            the broker's mailbox, as one group sees it (external)
  ConsumeLoop      what the six loops share: state, broker steps, history, properties
    PyConsumer  GoConsumer  RustConsumer  JavaConsumer  JsConsumer  CsConsumer
    Consumers      the six loops taking turns on one group; fairness
DeliveryContract   the abstract specification, instantiated in ConsumeLoop
ConsumeLoopProofs  lemmas about the shared steps
  PyConsumerProofs theorems about PyConsumer
  ConsumersProofs  theorems about Consumers: all six loops
AgentLife          what the two A2A agents share: broker, heartbeats, calls, properties
  PyAgent  JavaAgent
  Agents           an agent of either SDK through its restarts; fairness
    AgentsProofs   theorems about Agents
TaskStore          the task store, a keyed mailbox
  TaskAgent        a Python agent's dispatch, handler, reply streams and task RPC;
                   EXTENDS Mailbox as well
    TaskAgentProofs     theorems about TaskAgent: types and the freshness of answers
      TaskStreamProofs  and about acknowledgement and streams
Tools              the LangChain tools on one shared mailbox; EXTENDS Mailbox
  Orchestrator     the LangGraph example, the models that work for it; fairness
    OrchestratorProofs  theorems about Orchestrator
```

**Mailbox.** `log` holds the priority of each message, its index being the msg_id;
`offset` is the first msg_id the group has not got past; `late` holds the ACKs whose
sender gave up and that may still arrive, at any later time or never. `Batches` is
the answer of a FETCH: the first `NumMsgs` pending messages, smaller priority number
first (protocol.md: "higher priority is processed first", FIFO within one).
`BatchesOf(S)` is the same for the messages of `S` only, for mailboxes with deleted
messages. `Advanced` is the effect of an ACK. Number 1 stands for critical and 3 for normal.

**ConsumeLoop.** `pc` is the place where a loop is; the labels are the awaits or
blocking calls of the code (`fetch`, `sleep`, `handler`, `ack`, `error_handler`)
and the looks at the stop signal (`top`, `msg`). In Go, Rust, Java and C#, where the
owner runs beside the loop, `call` is the place between the look at the signal and the
start of the handler: a stop that comes there is followed by one more handler, as in the
code. Python and JavaScript have no such gap. `batch` and `pos` are the list of
the last fetch and the position in it. `ack` is the request under way: sent, or
applied and its answer on its way back. `count`, `running` and `stop` are the
handle. `attempted`, `handled`, `repeated` and `counted` are history variables that
no action reads, except to extend them. A request that fails or times out is
`FetchError` or `AckError`; an ACK given up in this way goes to `late`
(`AbandonAck`) when the broker had not applied it yet, so that it may be lost for
good or arrive late. `Crash` loses the loop and the handle but no broker state.

**The SDK modules** each follow one loop, place by place:

| | Python | Go | Rust | Java | JavaScript | C# |
| --- | --- | --- | --- | --- | --- | --- |
| stop reaches the loop | CancelledError at any await | channel, at `top`, `msg`, in `sleep` | oneshot, at `top`, `msg` | flag, at `top`, after a failed fetch, `msg` | flag, at `top`, `msg`; ends a sleep | token, at `top`, `msg`; cancels fetch, delay, ACK |
| an ACK under way at a stop | given up | waited for | waited for | waited for | waited for | cancelled, or never sent |
| counted | after the ACK | before | before | before | after the ACK | before |
| failed ACK | error handler | log | log | log | error handler | error handler |
| error handler fails | dropped | as a panic: process dies | (none) | logged | logged | ends the loop |
| uncaught by the loop (`CanPanic`) | the handler's own CancelledError ends the task, flag stays up | process dies (`Crash`) | panic ends the task, flag stays up | Error ends the thread, through `finally` | nothing | nothing |
| running flag goes down | when `stop()` has awaited the task | deferred, before `wg.Done` | last statement of the task | in `stop()`, and in `finally` | in `stop()`, and at the end | with the task |

Error callbacks of Go and Java are synchronous and have no effect on the loop; they
are part of `HandlerError`.

**Consumers** composes them. Whenever no loop runs, the program may end and another
one, written with any of the SDKs, takes over the group (`Switch`). Each loop thus
has to cope with what any other leaves behind. This module also holds the fairness.

**DeliveryContract** says in four variables what the users of a group are promised:
messages reach a handler in any order and any number of times, and the offset moves
only to just past a handled message with nothing before it that no handler has seen
(`Advance`). `ConsumeLoop!ImplementsContract` maps `sent` to the length of the log;
the other three variables are the loop's own.

**AgentLife** is the lifecycle of an A2A agent. The broker's part outlives the
process: `inbox` (the name is taken), `entry` (the registry's entry, fresh, stale or
absent) and `late` (requests whose sender gave up). The process has its connection
`nc`, the `mailbox` it knows, its `consumer`, the `call` that its owner waits for
with what became of the request (`reply`), and its heartbeats: `heartbeat` is the
stored handle, `beating` those that go on, `reporting` those waiting for the answer
to a report. A call is one step up to its await and one for each outcome: answered
(`...Done`), or refused, timed out or lost (`...Failed`). `published` is history.
The consume loop can end without being asked (`LoopDies`): of a handler's own
CancelledError in Python (client.py:279), of an Error in Java (Mq9Client.java:245). The
heartbeat, a task of its own, then goes on. A second `register()` is accepted: it stores
its own heartbeat in place of the first, which nobody can cancel any more (`Orphaned`).
`PyAgent` has create_mailbox with its second request, for the tasks mailbox, whose
failure is swallowed; unregister, which awaits the cancelled heartbeat and swallows
the broker's error; and close, which awaits the consume loop and leaves the
heartbeat alone. `JavaAgent` has one continuation for createMailbox, a scheduler
thread that runs one report at a time, `cancel(false)`, which lets a report run on,
and a close that waits for nothing and ends the periodic task.

Assumed of the owner, and not enforced by the code: one method at a time, one
`connect()` per agent object, and `create_mailbox()` until it succeeds and then not
before the loop has died. Assumed of
the broker: a name is given to one mailbox (protocol.md: "CREATE is not
idempotent"), entries that are not refreshed disappear (agent.py:205), and a report
does not bring back an entry that is gone.

**TaskStore** is `_task_store.py`: `store` is the latest state under each key, and
each operation says what it does when its request gets through and when it does not
(`lost`): `save` and `delete` do nothing, `get` and `list` find nothing. That the
error is swallowed is the point of the model.

**TaskAgent** is what a Python agent does with its inbox. Other agents send task
requests, with and without `reply_to`, and make calls (`Call`, `CallEnds`), each with a
callback mailbox of its own; a call ends with the first answer there, or without one
at any time. The agent's loop takes one message after the other: `at` is the await it
has got to. `DispatchSend` runs the handler, which enqueues the events of the A2A demo
(`HandlerStep`), may delete its task, may raise (`SendFailed`), and always leaves
through `FlushLast`. `DispatchGet`, `DispatchList` and `DispatchCancel` read the store
and go on to `CancelSave`, `Notify` (the CRITICAL event to the agent's own inbox, which
the agent later takes for a task request, fails to parse and drops) and `Answer`.
`Close` cancels the loop at any await; only a running handler has a `finally` to go
through. `call[c].seen` are the stores there were during a call, `missed` the requests
of which an event was lost; no action depends on them. Two things to know. First,
`_dispatch` reads `msg.headers`, and the SDK's `Message` has no such attribute: with
`headers = FALSE` every dispatch raises (`DispatchRaises`), which is what the code does
today (`py_headers`); with `headers = TRUE` the rest of the code is modelled as it is
written, for messages that carry them. Second, a message whose reply is lost has been
carried out and the caller swallows the error, so that only lost requests are told
apart. Assumed: `on_message` comes before `create_mailbox`; the agent is not restarted
(`agent_restart` shows what happens then); a callback mailbox outlives its call (30 s
against 5 s); `page_size` is no smaller than the number of tasks; the handler saves
the status that it reports, as the RequestContext's task store invites it to.

**Tools** has one action per LangChain tool, on one mailbox that has the name of an
agent (`Owner`), shared by language models (`Users`). A tool call opens a connection,
makes its request or two and closes it; what survives is what the model was shown
(`hand`): the messages, the msg_id "last" of a fetch, and nothing that tells one
mailbox from a later one of the same name (`old` after `MailboxExpires`). A tool that
raises may or may not have had its effect: `RegisterCreate` may leave the mailbox
without going on to `RegisterEntry`, `AckTool` may leave its ACK to arrive late.
That mailbox has whatever TTL the model asked for: with 0 it stays for ever.
`RegisterEntry` is the second request of agent_register; no tool removes the entry.
`shown` and `stale` are history. A request that is refused or lost changes nothing and
needs no action. An ACK under way does not outlive its mailbox.

**Orchestrator** adds the LangGraph example: `node` is the node and tool it is at. The
task goes to the shared mailbox, which need not exist; whoever is shown the task
(`told`) knows the address for replies and may reply, more than once. `PollReply` looks
for the words "No messages" in the text, whether the tool wrote them or a reply has them
in it, and takes a msg_id of 0 for none. The msg_id is the last number after "msg_id="
in that text, which is the one the tool printed or one in the content of the last reply
(`Extracted`): the graph acknowledges whatever it finds. A reply is thus told by what
the graph finds in it (`Texts`): the words, no number, or a number. With `node = "none"`
the models work without a graph, and then use every tool; beside a graph one of them
works, with the tools that working takes (a bound; another one is that no mailbox is
created for ever while a model goes by an earlier one). Replies are of any priority, so
that any of them may be the last of a poll, and no more than the 5 of a poll.

## Runs

| Run | Module | Checks | Bounds |
| --- | --- | --- | --- |
| `sdk_consume` | Consumers | `TypeOK`, `NothingSkipped`, `AckedWasHandled`, `CountedIsAcked`, `HandleIsExact`, `ImplementsContract`, `CountedOnce`, `StopLetsNoneThrough`, `Delivered`, `StopReturns` under `FairSpec` | six SDKs taking turns, 2 messages, fetches of 2, one priority; failing and panicking handlers, failing error handlers, losses, crashes |
| `sdk_stop` | Consumers | `HandledOnce` for Go, Rust, Java, JavaScript | 3 messages, two priorities, no losses, no crashes |
| `agents` | Agents | `TypeOK`, `AdvertisedIsStarted`, `UnregisteredFades` under `FairSpec` | both SDKs, losses, late requests, loops that die, restarts, TTL, 2 heartbeats |
| `tasks` | TaskAgent | `TypeOK`, `AnswerIsFresh`, `AckedIsAnswered`, `OneStream`, `RequestAnswered` under `FairSpec` | 3 requests and a notice, fetches of 2, 1 task, 1 caller with 2 calls, 1 loss, failing handlers, close at any point |
| `tools` | Orchestrator | `TypeOK`, `NothingVanishes`, `RegisteredAgain`, `PollFinds` under `FairSpec` | 2 messages, fetches of 1 or 2, three priorities, 2 models, 2 replies; losses, mailboxes with and without a TTL |
| `agent_restart` | Agents | `Recovers`: violated | both SDKs, restarts, nothing lost, no TTL |
| `py_retry` | PyConsumer | `StaysForRetry`: violated | 3 messages, only handlers fail |
| `py_priority` | PyConsumer | `NothingLost`: violated | 3 messages, two priorities, no faults |
| `rust_panic` | RustConsumer | `RunningIsAlive`: violated | 2 messages, panicking handlers |
| `py_headers` | TaskAgent | `MessageReceived`: violated | 1 request, nothing lost |
| `stream_last` | TaskAgent | `LastIsLast`: violated | 1 request and a notice, failing handlers, nothing lost |
| `stop_drains` | CsConsumer | `StopDrains`: violated | 2 messages, fetches of 2, no faults |

What the passing runs show. For messages of one priority every loop implements the
delivery contract under all of these faults together: the offset never gets past a
message no handler has seen, however ACKs are lost, cancelled, late or repeated by a
later program. An ACK is only ever sent for a message whose handler returned. The counts
of Python and JavaScript, raised after the ACK, count nothing twice and nothing
unacknowledged, over any number of restarts, also in turns with the other SDKs. Go's and
C#'s running flag is exact. Once a loop is asked to stop it lets no further message
through to the handler, and `stop` returns; the message that had been let through is
handled to its end, and what is left of the batch comes again. Where the loop waits for
the ACK under way (Go, Rust, Java, JavaScript), stopping and starting again causes no
second handling, whatever the priorities. For the agents: whichever call failed and
whatever was lost, an agent that reports itself as running has started to consume the
mailbox it advertises, and only a handler of its own can have ended that; and the entry
of an agent that was taken back, closed or killed disappears, though UNREGISTER be lost
and REGISTER be late. It stays where a second `register()` has left a heartbeat without
a handle, which the property excepts. For tasks: a call returns what the store held at
some moment of the call, never the late answer to an earlier call, because each has its
own callback mailbox; a request that the group has got past has its last marker in the
sender's mailbox, also when the handler raised or was cut off by `close()`, which sends
COMPLETED all the same; what a sender gets, as long as nothing is lost, is one run of
the handler, in order, and what closes it, never parts of two runs; and every request is
answered in the end. Two exceptions are written into the properties, as the code has
them: a lost event is not sent again, and the notice of a cancellation overtakes older
requests and its ACK moves the group past them. For the tools: the msg_id that a fetch
puts first belongs to the least important message of what was fetched, which makes the
cumulative ACK safe among models that share a group: what it covers has been shown to
someone or was overtaken by something more important. The ACK or the deletion by a model
that remembers a msg_id of an earlier mailbox of the name is not safe, and excepted. A
registration that failed half-way heals when the TTL is over; with a TTL of 0 the name
is taken for good. The graph stops polling when there is a reply, unless one has the
words in it that the graph looks for. What its ACK covers depends on the content of the
replies, and nothing is claimed of it.

What the seven violations show, each against a sentence of the repository's
documentation (quoted in `PROJECT.json`):

* `py_retry`. A failed message is said to stay for retry. It does only as long as no
  later message is acknowledged: the next successful one in the same batch moves the
  group past it. The loops of all SDKs share this.
* `py_priority`. Delivery is said to be at least once. With an urgent message in a
  batch, its ACK moves the group past older, normal ones that wait in the same
  batch; a stop or a crash at that point loses them. All SDKs share this, too.
* `rust_panic`. `is_running` is said to be true while the loop is active; after a
  panic of the handler it is true for ever.
* `agent_restart`. Consumption is said to resume after a restart. The restarted
  agent's `create_mailbox()` is refused because its inbox exists, and the consume
  loop is started only after it, so that the agent never consumes again.
* `py_headers`. An agent is said to receive messages once its mailbox is created. The
  dispatch reads `msg.headers`, which the SDK's `Message` does not have: it raises
  before its `try`, the message is not acknowledged and is fetched again for ever.
* `stream_last`. The last event of a stream is said to carry the last marker. A handler
  that raises sends FAILED with the marker, and then COMPLETED with the marker. (With
  messages that have headers; the Java agent, which has them, sends the same two.)
* `stop_drains`. Stopping is said to drain the current batch. C#'s loop looks at the token
  before every message and leaves the rest of the batch to the next loop; so do the other
  SDKs, and Python cancels the loop in the middle of a message.

Bounds. In `sdk_consume` two messages and fetches of two give batches that are full,
partial and overtaken by new messages, a failed message before or after a handled one, a
message let through or left behind by a stop, and a late ACK behind, inside and beyond
the current batch; the second message is reached only if the first is past, so that the
whole chain of fetch, handler and ACK has to make progress. `MaxCount` is the number of
messages here; it saturates the count, of which the properties compare a step's two
values only. The safety properties of this run are theorems for every number of
messages; what rests on the bound is liveness. `sdk_stop` takes three messages, so that
one can overtake, one be in hand and one follow. Two priorities suffice for one message
to overtake another. The agents' state is finite but for the heartbeats, of which two
can be told apart: a report that runs on after `cancel(false)` and the heartbeat of the
next registration, or the two heartbeats of an agent that registers twice. In `tasks`,
`MaxRequests` leaves room in the inbox for one notice, which may overtake a request of
the same batch or of a later one; two calls are needed for an answer to come late into
the second; one loss (`MaxFaults`) hits any one request, ACK or event; clients are not
followed once the agent closes. In `tools`, two messages overtake, replace and shadow
each other, and two models suffice for one to acknowledge what another has in hand; the
word "high" is no priority. `MaxReplies` of two lets a reply arrive after a poll, and a
reply's content name a reply that is not there yet. Deadlock is checked in every run but
`tasks`, `py_headers` and `stream_last`, where a closed agent stops.

Fairness (`Consumers!Fairness`). Weak fairness of the loop and of the return of
`stop()`: the runtimes schedule tasks that can run, every request has a timeout, and
handlers are taken to end. Strong fairness of a successful fetch, handler call and
ACK: a network and a handler that are tried again and again succeed in the end.
Nothing is assumed about a late ACK, about the callers of `consume()` and `stop()`,
or about crashes. `StopReturns` uses no more than the weak part.

Fairness (`Agents!Fairness`), all of it weak: the owner connects and calls
create_mailbox until it succeeds, a call ends (every request has a timeout), a
report is answered or times out, the broker serves requests and drops old entries.
Nothing makes an owner register or unregister, a heartbeat beat, or a late request
arrive.

Fairness (`TaskAgent!FairSpec`): weak, of the agent's loop as a whole; its requests
time out and the handler ends. Nothing makes a call end, a client ask or a late ACK
arrive. Fairness (`Orchestrator!Fairness`): weak, of the graph and of the end of a
TTL; strong, of a registration request that gets through, because a model that calls
the tool again and again succeeds in the end. Nothing is assumed of any other tool.

Assumptions that the code does not enforce: the group has been read from with
`deliver="earliest"`, so that a fetch resumes at the offset; one consumer per group
is active at a time; handlers let CancelledError through.

## Proofs

`ConsumeLoopProofs` states once what the shared steps keep: `BatchFacts` (what a
FETCH may answer), `FetchKeeps`, `NextMessageKeeps`, `AdvanceKeeps`, `BrokerKeeps`,
`AbandonKeeps`, `StartKeeps`, `CrashKeeps`, `HandledKeeps`, and which steps of the
contract they are (`BrokerImplements`, `HandlerImplements`, `OthersImplement`).
`PyConsumerProofs` proves for every number of messages, every batch size, every set
of priorities and every combination of faults, from `MailboxAssumption` and
`ConsumeAssumption`, of the Python loop by itself:

| Theorem | Statement |
| --- | --- |
| `PyTypeOK` | `Spec => []TypeOK` |
| `PyAckedWasHandled` | `Spec => []AckedWasHandled` |
| `PyNothingSkipped` | one priority: `Spec => []NothingSkipped` |
| `PyImplementsContract` | one priority: `Spec => ImplementsContract` |
| `PyCountedIsAcked` | `Spec => []CountedIsAcked` |
| `PyCountedOnce` | `auto_ack`: `Spec => CountedOnce` |

`NothingSkipped` is not inductive: that the offset moves over seen messages only
depends on what the loop still has in hand and on the ACKs under way. `DeliveryInv`
adds this: `Covered` (whatever precedes a message of the batch has been attempted or
comes earlier in what is left of the batch), `LateCovered` (whatever precedes an
abandoned ACK has been attempted), and `Distinct`. The argument for an ACK is then:
it is for the current message, so by `Covered` everything before it was attempted.
For the count, `CountInv` says that a counted message is behind the offset and
nothing left in the batch is counted; a fetch answers only with messages at or after
the offset, so what was counted never comes again.

`ConsumersProofs` proves, for all six loops that take over a group from each
other, for any set of SDKs, number of messages and batch size, from the same
assumptions:

| Theorem | Statement |
| --- | --- |
| `SdkTypeOK` | `Spec => []TypeOK` |
| `SdkHandleIsExact` | `Spec => []HandleIsExact` |
| `SdkAckedWasHandled` | `Spec => []AckedWasHandled` |
| `SdkNothingSkipped` | one priority: `Spec => []NothingSkipped` |
| `SdkImplementsContract` | one priority: `Spec => ImplementsContract` |
| `SdkCountedIsAcked` | `Spec => []CountedIsAcked` |
| `SdkCountedOnce` | `auto_ack`: `Spec => CountedOnce` |
| `SdkStopLetsNoneThrough` | `Spec => StopLetsNoneThrough` |
| `SdkHandledOnce` | `auto_ack`, no losses, no crashes, only Go, Rust, Java and JavaScript: `Spec => []HandledOnce` |

The six loops have more than fifty actions between them; the proofs are not repeated for
each. The steps are sorted into six kinds: `Goes` (to another place, or to the end),
`Fetches`, `Breaks` (drops the rest of a batch), `Returns` and `Fails` (of a handler)
and `Settles` (an ACK, or the error handler). One lemma per SDK (`GoLoop` ... `PyLoop`)
shows that each of its steps is of a kind, keeps to the places of that SDK, lets nothing
through after a stop and counts in the history after an ACK only; what a kind keeps is
proved once (`KindsKeep`). The inductive invariant `ConsumersInv` is `DeliveryInv` with
the places of the SDK at work (`InPlace`), where a message is in hand and an ACK awaited
(`Shape`), and that Java's and JavaScript's flag is down once they were asked to stop
(`StopSeen`), without which `StopLetsNoneThrough` does not follow. The counts rest on
`CountInv` again, here kept by the kinds of step (`CountKindsKeep`), whoever counts and
whoever takes over. `HandledOnce` needs `OnceInv`: a handled message is behind the
offset, or is the one in hand with its ACK awaited, and nothing else that is left in the
batch has been handled. It is kept by loops whose steps are `Patient`, i.e. that do not
leave an ACK before it is applied; Python's and C#'s are not, and for them the property
is false.

`AgentsProofs` proves, for both SDKs, any number of heartbeats and every combination
of losses, crashes and TTLs, from `AgentAssumption`:

| Theorem | Statement |
| --- | --- |
| `AgentTypeOK` | `Spec => []TypeOK` |
| `AgentAdvertisedIsStarted` | `Spec => []AdvertisedIsStarted` |

The second is not inductive. `LifeInv` adds what one call leaves to the next: a
request is under way on an open connection only; an agent that registers or beats
knows its mailbox; and a known mailbox has had its loop started, except between the two
requests of the first create_mailbox and during close. The steps are grouped into lemmas:
`EnvironmentKeeps`, `OwnerKeeps`, `PyKeeps`, `JavaKeeps`.

`TaskAgentProofs` and `TaskStreamProofs` prove, for any number of tasks, callers, calls,
messages and lost requests, from `MailboxAssumption` and `TaskAssumption`:

| Theorem | Statement |
| --- | --- |
| `TaskTypeOK` | `Spec => []TypeOK` |
| `TaskAnswerIsFresh` | `Spec => []AnswerIsFresh` |
| `TaskAckedIsAnswered` | `Spec => []AckedIsAnswered` |
| `TaskOneStream` | `Spec => []OneStream` |

Each has an inductive invariant of its own, on top of `Typed`, which adds to the types
that a request's address fits its method (`Addressed`) and the place of the loop fits
the message in hand (`Placed`). `FreshInv`: a caller that waits has seen the store as
it is now; every message that is to be answered to its mailbox is its own request; what
has been read for such a message, and the first answer in the mailbox, are fresh. A new
call keeps it because its mailbox has a number that no message and no answer has yet;
with one mailbox per caller, as in the mutant `CallReuses`, this step fails. `AckInv`:
not only what is behind the offset but also the message at its ACK and every ACK still
travelling is `Passed`, and whatever precedes a message of the batch, or such an ACK, is
passed, comes earlier in the batch, or matters less. An ACK turns "matters less" into
`Overtaken`, as with the tools. `Passed` is stable because no step takes anything back
(`StepGrows`). `StreamInv`, while nothing is lost: what the sender has got follows from
the place of the loop and the events enqueued so far (`SoFar`); what waits in the batch
or at the broker is untouched, so no message is dispatched twice (`Untouched`); a stream
starts with the first event and no ACK is late (`Unstarted`). The three invariants were
checked by TLC on the instance of `tasks` before they were proved.

`OrchestratorProofs` proves, for any number of models, messages, priorities and replies,
from `MailboxAssumption` and `ToolsAssumption`:

| Theorem | Statement |
| --- | --- |
| `ToolsTypeOK` | `Spec => []TypeOK` |
| `ToolsNothingVanishes` | `Spec => []NothingVanishes` |

`NothingVanishes` says what is true of the messages out of reach; what keeps it true is
what the models have in mind. `ShareInv` adds it: an ACK that a model may still send
(`HandsSafe`) or that is still travelling (`LateSafe`) is `Safe`, i.e. every message up
to its msg_id is excused or matters less than the acknowledged one; what a model may
still delete has been shown (`HandsShown`); and the offset is within the log, so that no
new message is born behind it. A fetch makes its last msg_id safe by the order of the
batch (`FetchKeeps`), an ACK turns "matters less" into `Overtaken` (`AdvanceKeeps`), an
excuse is never withdrawn (`ExcusedStays`), and the end of a TTL starts anew with every
memory marked as old (`ExpireKeeps`). After a use of such a memory (`stale`) only the
types are claimed. Of the graph only the types are (`GraphInv`).

Every safety property of a passing run is thus also a theorem. Only model-checked is
liveness, which is out of this prover's reach: `Delivered`, `StopReturns`,
`UnregisteredFades`, `RequestAnswered`, `RegisteredAgain` and `PollFinds`. The theorems
speak of the specifications without fairness and, like the runs, within the bounds that
guards name (`MaxMsgs`, `MaxCalls`, `MaxFaults`, ...), which are arbitrary there.

## Not modelled, and the plan

1. Java's `dispatch`, `handleSendMessage` and `ForwardingEventQueue`: the reply stream of
   `TaskAgent` on futures, without task store and task RPC.
2. Request building and parsing of the six SDKs as operators, compared with each other.
3. Agents used against the assumptions above: a second `connect()`, overlapping calls; a
   second `stop()` (Go panics on it), a Rust handle dropped without `stop()` (the loop
   goes on), several consume loops on one group.

Left out for good: the broker's internals, NATS, JSON and base64, the delay, ttl and
tags of single messages (the broker's business), logging, the language models
themselves, the website, and of the demos all but what users do in them.
