------------------------------ MODULE AgentLife ------------------------------
(* What the A2A agents of the Python and the Java SDK have in common: an     *)
(* owner that calls the agent's methods one after the other, the heartbeats  *)
(* that run beside it, and the broker's mailboxes and registry, which        *)
(* outlive the process.  PyAgent and JavaAgent add the methods.              *)
EXTENDS Integers, FiniteSets

CONSTANTS
  CanLose,   \* a request or its reply may be lost, or answered too late
  CanCrash,  \* the process may die and be started again
  HasTtl,    \* the mailbox was created with a TTL and is destroyed in the end
  MaxBeats   \* bound: how many heartbeats can be told apart

ASSUME AgentAssumption ==
  /\ CanLose \in BOOLEAN
  /\ CanCrash \in BOOLEAN
  /\ HasTtl \in BOOLEAN
  /\ MaxBeats \in Nat

VARIABLES
  inbox,      \* broker: the mailbox with the agent's name exists
  entry,      \* broker: the registry entry, "absent", "fresh", or "stale"
  late,       \* requests that nobody waits for any more, still travelling
  nc,         \* the connection: "none", "open", or "closed"
  mailbox,    \* the agent knows its mailbox
  consumer,   \* the consume loop: "none", "live", "stopping", "over", or "dead"
              \* when a handler has ended it
  call,       \* the request the owner waits for, or "idle"
  reply,      \* what became of it: "none", "sent", "applied", or "refused"
  heartbeat,  \* the heartbeat the agent has stored, 0 for none
  beating,    \* the heartbeats that go on
  reporting,  \* the heartbeats that wait for the reply to their report
  published   \* history: the owner has registered the agent and not taken it back

brokerVars == <<inbox, entry, late>>
ownVars == <<nc, mailbox, consumer>>
beatVars == <<heartbeat, beating, reporting>>
agentVars == <<inbox, entry, late, nc, mailbox, consumer, call, reply, heartbeat,
               beating, reporting, published>>

LifeInit ==
  /\ inbox = FALSE /\ entry = "absent" /\ late = {}
  /\ nc = "none" /\ mailbox = FALSE /\ consumer = "none"
  /\ call = "idle" /\ reply = "none"
  /\ heartbeat = 0 /\ beating = {} /\ reporting = {}
  /\ published = FALSE

(* The owner sends a request and waits for the reply; a reply comes, and the *)
(* call goes on; the call gives up on it, or it is refused.                  *)
Ask(request) == call' = request /\ reply' = "sent"

Answered(request) ==
  /\ call = request /\ reply = "applied"
  /\ reply' = "none"

GivenUp(request) ==
  /\ call = request
  /\ reply = "refused" \/ CanLose
  /\ late' = IF reply = "sent" THEN late \cup {request} ELSE late
  /\ call' = "idle" /\ reply' = "none"

(* What the broker does with a request.  A name is given to one mailbox.     *)
Apply(request) ==
  /\ inbox' = (inbox \/ request = "create")
  /\ entry' = CASE request = "register" -> "fresh"
                [] request = "unregister" -> "absent"
                [] OTHER -> entry

BrokerServes ==
  /\ call # "idle" /\ reply = "sent"
  /\ IF call = "create" /\ inbox
     THEN reply' = "refused" /\ UNCHANGED <<inbox, entry>>
     ELSE reply' = "applied" /\ Apply(call)
  /\ UNCHANGED <<late, ownVars, call, beatVars, published>>

BrokerServesLate ==
  /\ \E request \in late : Apply(request) /\ late' = late \ {request}
  /\ UNCHANGED <<ownVars, call, reply, beatVars, published>>

MailboxExpires ==
  /\ HasTtl /\ inbox
  /\ inbox' = FALSE
  /\ UNCHANGED <<entry, late, ownVars, call, reply, beatVars, published>>

(* An entry that is not refreshed grows old, and is dropped.                 *)
Expire ==
  /\ entry # "absent"
  /\ entry' = IF entry = "fresh" THEN "stale" ELSE "absent"
  /\ UNCHANGED <<inbox, late, ownVars, call, reply, beatVars, published>>

(* A report refreshes the entry, if there is one; its loss is only logged.   *)
ReportApplied ==
  /\ \E h \in reporting : reporting' = reporting \ {h}
  /\ entry' = IF entry = "absent" THEN entry ELSE "fresh"
  /\ UNCHANGED <<inbox, late, ownVars, call, reply, heartbeat, beating, published>>

ReportLost ==
  /\ CanLose \/ nc = "closed"
  /\ \E h \in reporting : reporting' = reporting \ {h}
  /\ UNCHANGED <<brokerVars, ownVars, call, reply, heartbeat, beating, published>>

(* A new heartbeat is started and stored, in place of any other.  Bound:     *)
(* there is room for it.                                                     *)
CanBeat == (1..MaxBeats) \ (beating \cup reporting) # {}

StartHeartbeat ==
  \E h \in (1..MaxBeats) \ (beating \cup reporting) :
    heartbeat' = h /\ beating' = beating \cup {h}

(* The process ends, killed or not, and is started again.                    *)
Crash ==
  /\ CanCrash /\ nc # "none"
  /\ late' = IF reply = "sent" THEN late \cup {call} ELSE late
  /\ nc' = "none" /\ mailbox' = FALSE /\ consumer' = "none"
  /\ call' = "idle" /\ reply' = "none"
  /\ heartbeat' = 0 /\ beating' = {} /\ reporting' = {}
  /\ published' = FALSE
  /\ UNCHANGED <<inbox, entry>>

(* The consume loop ends of what its handler lets through: in Python a       *)
(* CancelledError, in Java an Error.  Nobody is told.                        *)
LoopDies ==
  /\ consumer = "live"
  /\ consumer' = "dead"
  /\ UNCHANGED <<brokerVars, nc, mailbox, call, reply, beatVars, published>>

(* What goes on beside the owner's calls.                                    *)
Environment ==
  BrokerServes \/ BrokerServesLate \/ MailboxExpires \/ Expire
  \/ ReportApplied \/ ReportLost \/ Crash \/ LoopDies
-----------------------------------------------------------------------------
(* The owner's side that both agents share.  One owner calls the methods     *)
(* one after the other, connects an agent once, and does not create its      *)
(* mailbox again while it is consumed.                                       *)
Connect ==
  /\ call = "idle" /\ nc = "none"
  /\ nc' = "open"
  /\ UNCHANGED <<brokerVars, mailbox, consumer, call, reply, beatVars, published>>

CreateMailbox ==
  /\ call = "idle" /\ nc = "open" /\ consumer \in {"none", "dead"}
  /\ Ask("create")
  /\ UNCHANGED <<brokerVars, ownVars, beatVars, published>>

CreateFailed ==
  /\ GivenUp("create")
  /\ UNCHANGED <<inbox, entry, ownVars, beatVars, published>>

(* register(), which may be called again: nothing refuses it.                *)
Register ==
  /\ call = "idle" /\ nc = "open" /\ mailbox /\ CanBeat
  /\ Ask("register")
  /\ published' = TRUE
  /\ UNCHANGED <<brokerVars, ownVars, beatVars>>

RegisterDone ==
  /\ Answered("register")
  /\ call' = "idle"
  /\ StartHeartbeat
  /\ UNCHANGED <<brokerVars, ownVars, reporting, published>>

(* An earlier registration is not taken back by it.                          *)
RegisterFailed ==
  /\ GivenUp("register")
  /\ published' = (heartbeat \in beating)
  /\ UNCHANGED <<inbox, entry, ownVars, beatVars>>

(* unregister() sends its request if the agent has anything to take back;    *)
(* a closed connection refuses it at once.                                   *)
SendUnregister ==
  IF mailbox /\ nc = "open"
  THEN Ask("unregister")
  ELSE UNCHANGED <<call, reply>>

UnregisterDone ==
  /\ Answered("unregister")
  /\ call' = "idle"
  /\ UNCHANGED <<brokerVars, ownVars, beatVars, published>>

UnregisterFailed ==
  /\ GivenUp("unregister")
  /\ UNCHANGED <<inbox, entry, ownVars, beatVars, published>>

(* close() asks the consume loop to stop.                                    *)
Close ==
  /\ call = "idle" /\ nc = "open"
  /\ call' = "close"
  /\ consumer' = IF consumer = "live" THEN "stopping" ELSE consumer
  /\ UNCHANGED <<brokerVars, nc, mailbox, reply, beatVars, published>>

LoopEnds ==
  /\ consumer = "stopping"
  /\ consumer' = "over"
  /\ UNCHANGED <<brokerVars, nc, mailbox, call, reply, beatVars, published>>

Owner ==
  \/ Connect
  \/ CreateMailbox \/ CreateFailed
  \/ Register \/ RegisterDone \/ RegisterFailed
  \/ UnregisterDone \/ UnregisterFailed
  \/ Close \/ LoopEnds
-----------------------------------------------------------------------------
LifeTypeOK ==
  /\ inbox \in BOOLEAN
  /\ entry \in {"absent", "fresh", "stale"}
  /\ late \subseteq {"create", "register", "unregister"}
  /\ nc \in {"none", "open", "closed"}
  /\ mailbox \in BOOLEAN
  /\ consumer \in {"none", "live", "stopping", "over", "dead"}
  /\ call \in {"idle", "create", "tasks", "register", "unregister", "close"}
  /\ reply \in {"none", "sent", "applied", "refused"}
  /\ heartbeat \in 0..MaxBeats
  /\ beating \subseteq 1..MaxBeats
  /\ reporting \subseteq 1..MaxBeats
  /\ published \in BOOLEAN

(* An agent that reports itself as running has started a consume loop on the *)
(* mailbox it advertises, whichever of its calls failed before and whichever *)
(* requests were lost, and only a handler of its own can have ended it.      *)
AdvertisedIsStarted ==
  beating # {} /\ nc = "open" /\ call # "close" =>
    mailbox /\ consumer \in {"live", "dead"}

(* A heartbeat goes on that unregister() cannot end: its handle was          *)
(* overwritten by a second register().                                       *)
Orphaned == nc = "open" /\ beating \ {heartbeat} # {}

(* Once the agent has been taken back, or has been closed, or has died, its  *)
(* entry disappears, though UNREGISTER may be lost and REGISTER be late: no  *)
(* report keeps it alive, but those of an orphaned heartbeat.                *)
UnregisteredFades == ~published ~> (entry = "absent" \/ published \/ Orphaned)

(* A connected agent whose owner calls create_mailbox() until it succeeds    *)
(* starts to consume its inbox, after a restart too.                         *)
Recovers == nc = "open" ~> (consumer # "none" \/ nc # "open" \/ call = "close")
=============================================================================
