----------------------------- MODULE AgentsProofs ----------------------------
(* The lifecycle's safety properties, proved for both SDKs, with or without  *)
(* losses, crashes and a TTL.                                                *)
EXTENDS Agents, TLAPS

(* What the steps of one call leave to the next: a request is under way on   *)
(* an open connection only; what beats or is being registered has its        *)
(* mailbox known; and the consume loop has been started by then, unless the  *)
(* first create_mailbox() has not come so far.                               *)
Requests ==
  /\ call # "idle" => nc = "open"
  /\ reply # "none" => call \in {"create", "register", "unregister"}

Fresh == nc = "none" => ~mailbox /\ consumer = "none" /\ beating = {}

Creating == call \in {"create", "tasks"} => consumer \in {"none", "dead"}

Consumed == mailbox /\ nc = "open" /\ call \notin {"tasks", "close"}
              => consumer \in {"live", "dead"}

Registering == call = "register" => mailbox

Running == beating # {} => mailbox /\ consumer # "none"

LifeInv ==
  /\ TypeOK /\ Requests /\ Fresh /\ Creating /\ Consumed
  /\ Registering /\ Running

USE DEF brokerVars, ownVars, beatVars, agentVars, vars,
        Py!brokerVars, Py!ownVars, Py!beatVars, Java!brokerVars, Java!ownVars,
        Java!beatVars

(* The value that stands for no heartbeat is of its type.                    *)
LEMMA NoHeartbeat == 0 \in 0..MaxBeats
BY AgentAssumption

(* The state an agent starts in satisfies the invariant.                     *)
LEMMA LifeInitially == Init => LifeInv
BY NoHeartbeat DEF Init, LifeInit, LifeInv, TypeOK, LifeTypeOK, Requests, Fresh,
   Creating, Consumed, Registering, Running

(* The broker, the loss of requests and a crash preserve it.                 *)
LEMMA EnvironmentKeeps ==
  ASSUME LifeInv, Environment, UNCHANGED lang
  PROVE  LifeInv'
<1> USE DEF LifeInv, TypeOK, LifeTypeOK, Requests, Fresh, Creating, Consumed,
            Registering, Running
<1>1. CASE BrokerServes
  BY <1>1 DEF BrokerServes, Apply
<1>2. CASE BrokerServesLate
  BY <1>2 DEF BrokerServesLate, Apply
<1>3. CASE MailboxExpires
  BY <1>3 DEF MailboxExpires
<1>4. CASE Expire
  BY <1>4 DEF Expire
<1>5. CASE ReportApplied
  BY <1>5 DEF ReportApplied
<1>6. CASE ReportLost
  BY <1>6 DEF ReportLost
<1>7. CASE Crash
  BY <1>7, NoHeartbeat DEF Crash
<1>8. CASE LoopDies
  BY <1>8 DEF LoopDies
<1> QED
  BY <1>1, <1>2, <1>3, <1>4, <1>5, <1>6, <1>7, <1>8 DEF Environment

(* So do the calls that the two agents share.                                *)
LEMMA OwnerKeeps ==
  ASSUME LifeInv, Owner, UNCHANGED lang
  PROVE  LifeInv'
<1> USE DEF LifeInv, TypeOK, LifeTypeOK, Requests, Fresh, Creating, Consumed,
            Registering, Running
<1>1. CASE Connect
  BY <1>1 DEF Connect
<1>2. CASE CreateMailbox
  BY <1>2 DEF CreateMailbox, Ask
<1>3. CASE CreateFailed
  BY <1>3 DEF CreateFailed, GivenUp
<1>4. CASE Register
  BY <1>4 DEF Register, Ask
<1>5. CASE RegisterDone
  BY <1>5 DEF RegisterDone, Answered, StartHeartbeat
<1>6. CASE RegisterFailed
  BY <1>6 DEF RegisterFailed, GivenUp
<1>7. CASE UnregisterDone
  BY <1>7 DEF UnregisterDone, Answered
<1>8. CASE UnregisterFailed
  BY <1>8 DEF UnregisterFailed, GivenUp
<1>9. CASE Close
  BY <1>9 DEF Close
<1>10. CASE LoopEnds
  BY <1>10 DEF LoopEnds
<1> QED
  BY <1>1, <1>2, <1>3, <1>4, <1>5, <1>6, <1>7, <1>8, <1>9, <1>10 DEF Owner

(* So do the calls and the heartbeat of the Python agent, ...                *)
LEMMA PyKeeps ==
  ASSUME LifeInv, lang = "py", UNCHANGED lang,
         Py!CreateDone \/ Py!TasksDone \/ Py!Beat \/ Py!Unregister \/ Py!CloseDone
  PROVE  LifeInv'
<1> USE DEF LifeInv, TypeOK, LifeTypeOK, Requests, Fresh, Creating, Consumed,
            Registering, Running
<1>1. CASE Py!CreateDone
  BY <1>1 DEF Py!CreateDone, Py!Answered
<1>2. CASE Py!TasksDone
  BY <1>2 DEF Py!TasksDone
<1>3. CASE Py!Beat
  BY <1>3 DEF Py!Beat
<1>4. CASE Py!Unregister
  BY <1>4 DEF Py!Unregister, Py!SendUnregister, Py!Ask
<1>5. CASE Py!CloseDone
  BY <1>5 DEF Py!CloseDone
<1> QED
  BY <1>1, <1>2, <1>3, <1>4, <1>5

(* ... and those of the Java agent.                                          *)
LEMMA JavaKeeps ==
  ASSUME LifeInv, lang = "java", UNCHANGED lang,
         Java!CreateDone \/ Java!Beat \/ Java!Unregister \/ Java!CloseDone
  PROVE  LifeInv'
<1> USE DEF LifeInv, TypeOK, LifeTypeOK, Requests, Fresh, Creating, Consumed,
            Registering, Running
<1>1. CASE Java!CreateDone
  BY <1>1 DEF Java!CreateDone, Java!Answered
<1>2. CASE Java!Beat
  BY <1>2 DEF Java!Beat
<1>3. CASE Java!Unregister
  BY <1>3, NoHeartbeat DEF Java!Unregister, Java!SendUnregister, Java!Ask
<1>4. CASE Java!CloseDone
  BY <1>4 DEF Java!CloseDone
<1> QED
  BY <1>1, <1>2, <1>3, <1>4

(* The invariant holds throughout.                                           *)
LEMMA LifeInductive == Spec => []LifeInv
<1>1. LifeInv /\ [Next]_vars => LifeInv'
  <2> SUFFICES ASSUME LifeInv, [Next]_vars PROVE LifeInv'
    OBVIOUS
  <2>1. CASE Shared
    BY <2>1, EnvironmentKeeps, OwnerKeeps DEF Shared
  <2>2. CASE CreateDone
    BY <2>2, PyKeeps, JavaKeeps DEF CreateDone, Step
  <2>3. CASE Beat
    BY <2>3, PyKeeps, JavaKeeps DEF Beat, Step
  <2>4. CASE Unregister
    BY <2>4, PyKeeps, JavaKeeps DEF Unregister, Step
  <2>5. CASE CloseDone
    BY <2>5, PyKeeps, JavaKeeps DEF CloseDone, Step
  <2>6. CASE UNCHANGED vars
    BY <2>6 DEF LifeInv, TypeOK, LifeTypeOK, Requests, Fresh, Creating, Consumed,
       Registering, Running
  <2> QED
    BY <2>1, <2>2, <2>3, <2>4, <2>5, <2>6 DEF Next
<1> QED
  BY <1>1, LifeInitially, PTL DEF Spec

(* Calls of create_mailbox(), register(), unregister() and close(), and the  *)
(* heartbeats, leave the agent in one of the states of TypeOK whatever       *)
(* request is lost, late or cut off by a crash.                              *)
THEOREM AgentTypeOK == Spec => []TypeOK
<1>1. LifeInv => TypeOK
  BY DEF LifeInv
<1> QED
  BY <1>1, LifeInductive, PTL

(* An agent that reports itself as running has got as far as starting the    *)
(* consume loop of the mailbox it advertises, and only a handler of its own  *)
(* has ended that (create_mailbox(), register(), the heartbeat).             *)
THEOREM AgentAdvertisedIsStarted == Spec => []AdvertisedIsStarted
<1>1. LifeInv => AdvertisedIsStarted
  BY DEF LifeInv, Creating, Consumed, Running, AdvertisedIsStarted
<1> QED
  BY <1>1, LifeInductive, PTL
=============================================================================
