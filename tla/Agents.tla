-------------------------------- MODULE Agents -------------------------------
(* The A2A agent of one name through its restarts, written with the Python   *)
(* or the Java SDK.                                                          *)
EXTENDS AgentLife

CONSTANT Langs  \* the SDKs in use

ASSUME AgentsAssumption == Langs \subseteq {"py", "java"}

VARIABLE lang  \* the SDK of this agent

Py == INSTANCE PyAgent
Java == INSTANCE JavaAgent

vars == <<agentVars, lang>>

Init == LifeInit /\ lang \in Langs

(* A step of the agent, given that step in each of the SDKs.                 *)
Step(py, java) ==
  /\ \/ lang = "py" /\ py
     \/ lang = "java" /\ java
  /\ UNCHANGED lang

CreateDone == Step(Py!CreateDone \/ Py!TasksDone, Java!CreateDone)

Beat == Step(Py!Beat, Java!Beat)

Unregister == Step(Py!Unregister, Java!Unregister)

CloseDone == Step(Py!CloseDone, Java!CloseDone)

Shared == (Environment \/ Owner) /\ UNCHANGED lang

Next == Shared \/ CreateDone \/ Beat \/ Unregister \/ CloseDone

Spec == Init /\ [][Next]_vars

(* The owner connects and goes on until the mailbox has been created; the    *)
(* broker serves requests and drops entries that are not refreshed.          *)
Fairness ==
  /\ WF_vars(Connect /\ UNCHANGED lang)
  /\ WF_vars(CreateMailbox /\ UNCHANGED lang)
  /\ WF_vars((CreateFailed \/ RegisterDone \/ RegisterFailed \/ UnregisterDone
              \/ UnregisterFailed) /\ UNCHANGED lang)
  /\ WF_vars(CreateDone) /\ WF_vars(CloseDone)
  /\ WF_vars(LoopEnds /\ UNCHANGED lang)
  /\ WF_vars(BrokerServes /\ UNCHANGED lang)
  /\ WF_vars((ReportApplied \/ ReportLost) /\ UNCHANGED lang)
  /\ WF_vars(Expire /\ UNCHANGED lang)

FairSpec == Spec /\ Fairness
-----------------------------------------------------------------------------
TypeOK == LifeTypeOK /\ lang \in Langs
=============================================================================
