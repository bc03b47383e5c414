------------------------------- MODULE Mailbox -------------------------------
(* One mailbox of the broker as one consumer group sees it.  The broker is   *)
(* not in this repository; what is modelled is what the SDKs rely on:        *)
(*   MSG.SEND   appends a message and answers with its msg_id (the offset in *)
(*              the log; here the position, counted from 1);                 *)
(*   MSG.FETCH  with a group_name answers with at most num_msgs messages at  *)
(*              or after the group's offset, the higher priority first and   *)
(*              in the order of msg_id within a priority;                    *)
(*   MSG.ACK    advances the offset of the group past msg_id, and never      *)
(*              moves it back.                                               *)
EXTENDS Integers, Sequences

CONSTANTS
  Priorities,  \* the priorities in use, 1 the most important ("critical")
  MaxMsgs,     \* bound: how many messages are ever sent
  NumMsgs      \* num_msgs of a fetch

ASSUME MailboxAssumption ==
  /\ Priorities \subseteq Nat
  /\ MaxMsgs \in Nat
  /\ NumMsgs \in Nat \ {0}

VARIABLES
  log,     \* the priorities of the messages, in the order of their msg_id
  offset,  \* the first msg_id that the group has not got past
  late     \* msg_ids of ACK requests nobody waits for any more, still travelling

mailboxVars == <<log, offset, late>>

MsgIds == 1..Len(log)

MailboxInit ==
  /\ log = <<>>
  /\ offset = 1
  /\ late = {}

(* Every message has the same priority: fetches come in order of msg_id.     *)
Uniform == \A p, q \in Priorities : p = q

Send(p) ==
  /\ Len(log) < MaxMsgs
  /\ log' = Append(log, p)
  /\ UNCHANGED <<offset, late>>

Before(m, n) == log[m] < log[n] \/ (log[m] = log[n] /\ m < n)

Pending == offset..Len(log)

(* The answers to a FETCH: the first NumMsgs of these messages, by Before.   *)
BatchesOf(S) ==
  {b \in UNION {[1..n -> S] : n \in 0..NumMsgs} :
     /\ \A i, j \in DOMAIN b : i < j => Before(b[i], b[j])
     /\ \A m \in S : (\A i \in DOMAIN b : b[i] # m) =>
          /\ Len(b) = NumMsgs
          /\ \A i \in DOMAIN b : Before(b[i], m)}

Batches == BatchesOf(Pending)

(* The offset once an ACK of m has been applied.                             *)
Advanced(m) == IF m >= offset THEN m + 1 ELSE offset

(* An ACK whose sender gave up, was cancelled or died reaches the broker     *)
(* after all.  Nothing forces this step: an ACK may also be lost for good.   *)
LateAck ==
  \E m \in late :
    /\ offset' = Advanced(m)
    /\ late' = late \ {m}
    /\ UNCHANGED log
=============================================================================
