----------------------------- MODULE Orchestrator -----------------------------
(* The LangGraph example (langchain-mq9/examples/langgraph_agent.py) and the *)
(* models that work for it: the graph creates a mailbox for replies, sends a *)
(* task with its address to the mailbox of the models, and polls the replies *)
(* until there is a result.  The models use the tools as they like.          *)
EXTENDS Tools

CONSTANT MaxReplies  \* bound: how many replies are sent

(* One poll fetches all the replies there can be.                            *)
ASSUME OrchestratorAssumption == MaxReplies \in 0..5

VARIABLES
  node,      \* the node of the graph that runs, and the tool it has got to;
             \* "none" for models that work without a graph
  replyBox,  \* the mailbox for replies: "none", "live", or "expired"
  task,      \* the msg_id of the task, 0 once it is not in the mailbox
  told,      \* who has been shown the task, and with it the address for replies
  replies,   \* the texts of the replies
  acking,    \* the msg_id that the graph is about to acknowledge
  consumed   \* how many replies the graph's group has got past

graphVars == <<node, replyBox, task, told, replies, acking, consumed>>
others == <<queueVars, entry, userVars, historyVars>>
vars == <<others, graphVars>>

(* What the graph looks for in a reply: the words "No messages", or else a   *)
(* number after "msg_id=", the last one if there are several.  The msg_ids   *)
(* of replies count from 0; MaxReplies stands for one not given out.         *)
Empty == -2
NoId == -1
Texts == Empty..MaxReplies

Init ==
  /\ ToolsInit
  /\ node \in {"none", "create"} /\ replyBox = "none" /\ task = 0 /\ told = {}
  /\ replies = <<>> /\ acking = 0 /\ consumed = 0

(* An exception of a tool ends the graph.                                    *)
Raise ==
  /\ node' = "failed"
  /\ UNCHANGED <<others, replyBox, task, told, replies, acking, consumed>>

(* setup, the first tool: create_mailbox with a TTL.                         *)
SetupCreate ==
  /\ node = "create"
  /\ \/ /\ node' = "send" /\ replyBox' = "live"
        /\ UNCHANGED <<others, task, told, replies, acking, consumed>>
     \/ Raise

(* setup, the second tool: send_message to a mailbox that need not be there. *)
(* When only the reply is lost the task is in the mailbox all the same.      *)
SetupSend ==
  /\ node = "send"
  /\ \/ /\ Arrives(Priority.normal) /\ UNCHANGED <<gone, keyed>>
        /\ task' = Len(log')
        /\ node' \in {"poll_reply", "failed"}
        /\ UNCHANGED <<replyBox, told, replies, acking, consumed>>
     \/ Raise

(* A model answers the task, again after a failure or when it sees it again. *)
ReplyTool(u) ==
  /\ u \in told /\ replyBox = "live" /\ Len(replies) < MaxReplies
  /\ \E text \in Texts : replies' = Append(replies, text)
  /\ UNCHANGED <<others, node, replyBox, task, told, acking, consumed>>

(* The text of fetch_messages contains "No messages": there are none, or one *)
(* of them says so.                                                          *)
SaysNoMessages == replies = <<>> \/ \E i \in DOMAIN replies : replies[i] = Empty

(* _extract_last_msg_id: the text of fetch_messages ends with a reply, which *)
(* one depends on the priorities: its msg_id and then its content, in which  *)
(* there may be another.                                                     *)
Extracted(i) == IF replies[i] = NoId THEN i - 1 ELSE replies[i]

(* Faulty: should_continue the wrong way round.                              *)
PollReplySwapped ==
  /\ node = "poll_reply"
  /\ node' = IF SaysNoMessages THEN "end" ELSE "poll_reply"
  /\ UNCHANGED <<others, replyBox, task, told, replies, acking, consumed>>

(* poll_reply up to the ACK.  A msg_id 0 is taken for none, and is not       *)
(* acknowledged.                                                             *)
PollReply ==
  /\ node = "poll_reply"
  /\ \/ /\ replyBox = "live"
        /\ \/ SaysNoMessages /\ UNCHANGED <<node, acking>>
           \/ /\ ~SaysNoMessages
              /\ \E i \in DOMAIN replies : acking' = Extracted(i)
              /\ node' = IF acking' = 0 THEN "end" ELSE "ack"
        /\ UNCHANGED <<others, replyBox, task, told, replies, consumed>>
     \/ Raise

(* poll_reply, the ACK, of whatever number was found: the graph fails when   *)
(* it is lost, or only its reply.                                            *)
AckReply ==
  /\ node = "ack"
  /\ \/ /\ replyBox = "live"
        /\ consumed' = acking + 1 /\ acking' = 0
        /\ node' \in {"end", "failed"}
        /\ UNCHANGED <<others, replyBox, task, told, replies>>
     \/ Raise

Graph == SetupCreate \/ SetupSend \/ PollReply \/ AckReply

(* The TTL of the mailbox for replies is over.                               *)
ReplyBoxExpires ==
  /\ replyBox = "live" /\ replyBox' = "expired"
  /\ UNCHANGED <<others, node, task, told, replies, acking, consumed>>

(* A model uses one of the tools, and may come to know of the task by it.    *)
(* Bounds: for the graph one model works, and on its task only; and a        *)
(* mailbox is not created for ever while a model goes by an earlier one.     *)
UseTool(u) ==
  /\ IF node = "none" THEN Tool(u) ELSE u = Owner /\ Work(u)
  /\ box' = "forever" => Exists \/ \A v \in Users : ~hand[v].old
  /\ told' = IF task \in hand'[u].ids /\ ~hand'[u].old THEN told \cup {u} ELSE told
  /\ UNCHANGED <<node, replyBox, task, replies, acking, consumed>>

BrokerStep ==
  /\ Broker
  /\ task' = IF log' = <<>> THEN 0 ELSE task
  /\ UNCHANGED <<node, replyBox, told, replies, acking, consumed>>

Next ==
  \/ \E u \in Users : UseTool(u) \/ ReplyTool(u)
  \/ Graph \/ ReplyBoxExpires \/ BrokerStep

Spec == Init /\ [][Next]_vars

(* The graph runs on.  A model calls agent_register again and again, and     *)
(* requests that are sent again and again get through in the end.            *)
Fairness ==
  /\ WF_vars(Graph)
  /\ WF_vars(MailboxExpires /\ BrokerStep)
  /\ SF_vars(RegisterCreate /\ creating' /\ UseTool(Owner))
  /\ SF_vars(RegisterEntry /\ entry' /\ UseTool(Owner))

FairSpec == Spec /\ Fairness
-----------------------------------------------------------------------------
TypeOK ==
  /\ TypeOKTools
  /\ node \in {"none", "create", "send", "poll_reply", "ack", "end", "failed"}
  /\ replyBox \in {"none", "live", "expired"}
  /\ task \in 0..Len(log) /\ told \subseteq Users
  /\ replies \in Seq(Texts) /\ Len(replies) <= MaxReplies
  /\ acking \in 0..MaxReplies /\ consumed \in 0..MaxReplies + 1

(* Polling ends: once there are replies, and none of them has the words in   *)
(* it that the graph takes for an empty mailbox, the graph is done, or fails *)
(* with an exception, unless a reply with those words joins them.            *)
PollFinds ==
  (node = "poll_reply" /\ ~SaysNoMessages) ~>
    (node \in {"end", "failed"} \/ SaysNoMessages)
=============================================================================
