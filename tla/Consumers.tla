------------------------------ MODULE Consumers ------------------------------
(* The consume loops of the six SDKs behind one consumer group.  Whenever a  *)
(* loop is started, after a stop or a crash of the one before, the program   *)
(* may be written with any of the SDKs, so each of them takes over what any  *)
(* other has left behind: its batch half done, its ACKs still travelling.    *)
EXTENDS ConsumeLoop

CONSTANT SDKs  \* the SDKs in use

ASSUME ConsumersAssumption == SDKs \subseteq {"py", "go", "rust", "java", "js", "cs"}

VARIABLE sdk  \* the SDK of the current consumer

Py == INSTANCE PyConsumer
Go == INSTANCE GoConsumer
Rust == INSTANCE RustConsumer
Java == INSTANCE JavaConsumer
Js == INSTANCE JsConsumer
Cs == INSTANCE CsConsumer

Init == LoopInit /\ sdk \in SDKs

(* A step of the current consumer, given that step in each of the SDKs.      *)
Step(py, go, rust, java, js, cs) ==
  /\ \/ sdk = "py" /\ py
     \/ sdk = "go" /\ go
     \/ sdk = "rust" /\ rust
     \/ sdk = "java" /\ java
     \/ sdk = "js" /\ js
     \/ sdk = "cs" /\ cs
  /\ UNCHANGED sdk

(* The program ends; the next one is written with any of the SDKs.           *)
Switch ==
  /\ ~Alive /\ stop # "requested"
  /\ sdk' \in SDKs \ {sdk}
  /\ pc' = "off" /\ batch' = <<>> /\ pos' = 1
  /\ count' = 0 /\ running' = FALSE /\ stop' = "none"
  /\ UNCHANGED <<mailboxVars, ack, history, counted>>

Consume == Step(Py!Consume, Go!Consume, Rust!Consume, Java!Consume, Js!Consume, Cs!Consume)

Loop == Step(Py!Loop, Go!Loop, Rust!Loop, Java!Loop, Js!Loop, Cs!Loop)

Stop == Step(Py!Stop, Go!Stop, Rust!Stop, Java!Stop, Js!Stop, Cs!Stop)

StopReturn == Step(Py!StopReturn, Go!StopReturn, Rust!StopReturn, Java!StopReturn,
                   Js!StopReturn, Cs!StopReturn)

Environment == (Broker \/ Crash) /\ UNCHANGED sdk

Next == Environment \/ Switch \/ Consume \/ Loop \/ Stop \/ StopReturn

Spec == Init /\ [][Next]_<<vars, sdk>>

(* The steps of a loop that need the network or the handler to succeed.      *)
Fetched == Step(Py!Fetch, Go!Fetch, Rust!Fetch, Java!Fetch, Js!Fetch, Cs!Fetch)

HandledOk == Step(Py!HandlerOk, Go!HandlerOk, Rust!HandlerOk, Java!HandlerOk,
                  Js!HandlerOk, Cs!HandlerOk)

AckedOk == Step(Py!AckOk, Go!AckOk, Rust!AckOk, Java!AckOk, Js!AckOk, Cs!AckOk)

(* The runtime of the SDK runs the loop and the caller of stop(), and a      *)
(* network and a handler that are tried again and again succeed in the end.  *)
Fairness ==
  /\ WF_<<vars, sdk>>(Loop) /\ WF_<<vars, sdk>>(StopReturn)
  /\ SF_<<vars, sdk>>(Fetched) /\ SF_<<vars, sdk>>(HandledOk)
  /\ SF_<<vars, sdk>>(AckedOk) /\ SF_<<vars, sdk>>(BrokerAck /\ UNCHANGED sdk)

FairSpec == Spec /\ Fairness
-----------------------------------------------------------------------------
TypeOK ==
  /\ sdk \in SDKs
  /\ sdk = "py" => Py!TypeOK
  /\ sdk = "go" => Go!TypeOK
  /\ sdk = "rust" => Rust!TypeOK
  /\ sdk = "java" => Java!TypeOK
  /\ sdk = "js" => Js!TypeOK
  /\ sdk = "cs" => Cs!TypeOK

(* IsRunning of the Go and the C# handle is exact, whatever happened.        *)
HandleIsExact == sdk \in {"go", "cs"} => RunningIsAlive
=============================================================================
