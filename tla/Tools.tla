-------------------------------- MODULE Tools --------------------------------
(* The LangChain tools (langchain_mq9/tools.py): language models that share  *)
(* one mailbox, with the name of an agent, and its entry in the registry.    *)
(* A tool call is a connection with one request of the Python client, or two *)
(* for agent_register; between two calls a model has only the text of the    *)
(* answers to go by.  A lost request or reply is an exception of the tool.   *)
EXTENDS Mailbox

CONSTANTS
  Users,  \* the language models that have the tools
  Owner,  \* the one that is registered, under its own name
  Words   \* what they give as a priority

Priority == [critical |-> 1, urgent |-> 2, normal |-> 3]

ASSUME ToolsAssumption ==
  /\ Owner \in Users
  /\ \A w \in DOMAIN Priority : Priority[w] \in Priorities

VARIABLES
  box,       \* the mailbox: "none", or created "ttl" with or "forever" without one
  entry,     \* the registry lists the mailbox
  gone,      \* the messages that were deleted, or replaced under their key
  keyed,     \* the messages with the key in use
  creating,  \* agent_register has created the mailbox and not yet the entry
  known,     \* agent_discover has given the address to one of them
  hand,      \* what each goes by: messages that a fetch or a query has returned,
             \* the last of a fetch, and whether the mailbox has expired since
  shown,     \* history: the messages that somebody has been shown
  stale      \* history: what was meant for an earlier mailbox of the name was
             \* applied to this one

queueVars == <<box, log, offset, late, gone, keyed>>
userVars == <<creating, known, hand>>
historyVars == <<shown, stale>>

Nothing == [ids |-> {}, last |-> 0, old |-> FALSE]

ToolsInit ==
  /\ MailboxInit
  /\ box = "none" /\ entry = FALSE /\ gone = {} /\ keyed = {}
  /\ creating = FALSE /\ known = FALSE /\ hand = [u \in Users |-> Nothing]
  /\ shown = {} /\ stale = FALSE

Exists == box # "none"

(* The owner knows its name, which is the address; it may be passed on.      *)
CanUse(u) == Exists /\ (known \/ u = Owner)
Live == Pending \ gone
-----------------------------------------------------------------------------
(* agent_register, the first request: a mailbox with the agent's name and    *)
(* the TTL that the model gives, 0 for none.  The broker refuses a name that *)
(* exists, and the tool raises; without a reply it raises as well, and the   *)
(* mailbox is there.                                                         *)
RegisterCreate ==
  /\ ~creating /\ ~Exists
  /\ box' \in {"ttl", "forever"} /\ creating' \in BOOLEAN
  /\ UNCHANGED <<log, offset, late, gone, keyed, entry, known, hand, historyVars>>

(* Faulty: the second request is not sent.                                   *)
RegisterNoEntry ==
  /\ creating /\ creating' = FALSE
  /\ UNCHANGED <<queueVars, entry, known, hand, historyVars>>

(* The second request: the entry in the registry.                            *)
RegisterEntry ==
  /\ creating /\ creating' = FALSE
  /\ entry' \in {entry, TRUE}
  /\ UNCHANGED <<queueVars, known, hand, historyVars>>

(* agent_discover, by keywords, by a sentence or for all agents: an agent    *)
(* that is not found makes no difference.                                    *)
DiscoverTool ==
  /\ entry
  /\ known' = TRUE
  /\ UNCHANGED <<queueVars, entry, creating, hand, historyVars>>

(* A message reaches the mailbox.                                            *)
Arrives(p) == Exists /\ Send(p) /\ UNCHANGED <<box, entry, userVars, historyVars>>

(* send_message: a word that is no priority counts as normal.                *)
SendToolRaw ==
  /\ \E w \in Words : Arrives(IF w \in DOMAIN Priority THEN Priority[w] ELSE 0)
  /\ UNCHANGED <<gone, keyed>>

SendTool ==
  /\ \E w \in Words :
       Arrives(Priority[IF w \in DOMAIN Priority THEN w ELSE "normal"])
  /\ UNCHANGED <<gone, keyed>>

(* send() with a key: of the messages with a key only the latest is kept.    *)
SendKeyed ==
  /\ Arrives(Priority.normal)
  /\ gone' = gone \cup keyed
  /\ keyed' = keyed \cup {Len(log')}

(* The model u is shown messages, and keeps some of them in mind.            *)
Shows(u, messages, ids, last) ==
  /\ hand' = [hand EXCEPT ![u] = [ids |-> ids, last |-> last, old |-> FALSE]]
  /\ shown' = shown \cup messages
  /\ UNCHANGED <<queueVars, entry, creating, known, stale>>

(* fetch_messages of n messages, always for the same group: the text begins  *)
(* with the msg_id of the last message in the order of priority, or says     *)
(* that there are no messages.                                               *)
FetchTool(u) ==
  /\ CanUse(u)
  /\ \E b \in BatchesOf(Live) :
       \/ \E n \in DOMAIN b :
            LET ids == {b[i] : i \in 1..n} IN Shows(u, ids, ids, b[n])
       \/ b = <<>> /\ Shows(u, {}, {}, 0)

(* query_messages, with or without the key, to find a message to delete.     *)
QueryTool(u) ==
  /\ CanUse(u)
  /\ \E ids \in {MsgIds \ gone, keyed \ gone} : \E m \in ids :
       Shows(u, ids, {m}, 0)

(* What u was shown was of an earlier mailbox, and is used on this one.      *)
Used(u) == stale' = (stale \/ hand[u].old)

(* Faulty: acknowledges everything that is in the mailbox by now.            *)
AckToolNewest(u) ==
  /\ CanUse(u) /\ hand[u].last # 0
  /\ offset' = Advanced(Len(log)) /\ UNCHANGED late
  /\ hand' = [hand EXCEPT ![u] = Nothing]
  /\ Used(u)
  /\ UNCHANGED <<box, log, gone, keyed, entry, creating, known, shown>>

(* ack_messages with the msg_id of the last message.  An ACK that the model  *)
(* takes for lost may still arrive.                                          *)
AckTool(u) ==
  /\ CanUse(u) /\ hand[u].last # 0
  /\ \/ /\ offset' = Advanced(hand[u].last) /\ UNCHANGED late
        /\ hand' = [hand EXCEPT ![u] = Nothing]
     \/ late' = late \cup {hand[u].last} /\ UNCHANGED <<offset, hand>>
  /\ Used(u)
  /\ UNCHANGED <<box, log, gone, keyed, entry, creating, known, shown>>

(* delete_message, of a message it was shown.                                *)
DeleteTool(u) ==
  /\ CanUse(u)
  /\ \E m \in hand[u].ids \cap MsgIds :
       /\ gone' = gone \cup {m}
       /\ hand' \in {hand, [hand EXCEPT ![u] = Nothing]}
  /\ Used(u)
  /\ UNCHANGED <<box, log, offset, late, keyed, entry, creating, known, shown>>

(* What a model that works off its mailbox does, and what else it may do.    *)
Work(u) ==
  \/ u = Owner /\ (RegisterCreate \/ RegisterEntry)
  \/ DiscoverTool \/ FetchTool(u) \/ AckTool(u)

Tool(u) ==
  Work(u) \/ SendTool \/ SendKeyed \/ QueryTool(u) \/ DeleteTool(u)
-----------------------------------------------------------------------------
BrokerLateAck ==
  /\ LateAck
  /\ UNCHANGED <<box, gone, keyed, entry, userVars, historyVars>>

(* The mailbox is destroyed when its TTL is over, and its msg_ids are given  *)
(* out anew in the next one.                                                 *)
MailboxExpires ==
  /\ box = "ttl" /\ box' = "none"
  /\ log' = <<>> /\ offset' = 1 /\ late' = {} /\ gone' = {} /\ keyed' = {}
  /\ hand' = [u \in Users |-> IF hand[u] = Nothing THEN Nothing
                              ELSE [hand[u] EXCEPT !.old = TRUE]]
  /\ shown' = {} /\ stale' = FALSE
  /\ UNCHANGED <<entry, creating, known>>

(* The registry drops an agent that does not report; the tools never do.     *)
EntryFades ==
  /\ entry /\ entry' = FALSE
  /\ UNCHANGED <<queueVars, userVars, historyVars>>

Broker == BrokerLateAck \/ MailboxExpires \/ EntryFades
-----------------------------------------------------------------------------
TypeOKTools ==
  /\ log \in Seq(Priorities) /\ Len(log) <= MaxMsgs
  /\ offset \in 1..MaxMsgs + 1
  /\ late \subseteq 1..MaxMsgs
  /\ box \in {"none", "ttl", "forever"} /\ entry \in BOOLEAN
  /\ gone \subseteq MsgIds /\ keyed \subseteq MsgIds /\ shown \subseteq MsgIds
  /\ creating \in BOOLEAN /\ known \in BOOLEAN
  /\ hand \in [Users -> [ids : SUBSET (1..MaxMsgs), last : 0..MaxMsgs, old : BOOLEAN]]
  /\ stale \in BOOLEAN

(* A message that was sent after m, and matters more, has been acknowledged. *)
Overtaken(m) == \E k \in m + 1..offset - 1 : k \in MsgIds /\ log[k] < log[m]

(* Nothing gets lost among models that share the group and the mailbox,      *)
(* acknowledge, delete and repeat calls that failed: a message that no fetch *)
(* returns any more has been shown to one of them, unless a newer message    *)
(* has its key, a more important one was acknowledged after it, or a model   *)
(* used msg_ids of an earlier mailbox of the same name.                      *)
NothingVanishes ==
  \A m \in MsgIds : m < offset \/ m \in gone =>
    \/ m \in shown \/ Overtaken(m) \/ stale
    \/ m \in keyed /\ \E k \in keyed : k > m

(* An agent that registers whenever it can is listed again and again, though *)
(* a registration may fail half-way and leave the name taken: the TTL of the *)
(* mailbox gives it back.  A mailbox without a TTL has taken it for good.    *)
RegisteredAgain == []<>(entry \/ box = "forever")
=============================================================================
