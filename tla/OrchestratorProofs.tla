-------------------------- MODULE OrchestratorProofs --------------------------
(* Proofs about the tools and the graph: their types, and that nothing       *)
(* vanishes from a mailbox that models share.                                *)
EXTENDS Orchestrator, TLAPS

(* Why a message may be out of the reach of a fetch.                         *)
Excused(m) ==
  m \in shown \/ Overtaken(m) \/ (m \in keyed /\ \E k \in keyed : k > m)

(* An ACK of n does no harm: what it takes the group past is excused, or     *)
(* matters less than n.                                                      *)
Safe(n) ==
  /\ n \in MsgIds
  /\ \A m \in MsgIds : m <= n => Excused(m) \/ log[n] < log[m]

(* What is out of reach is excused, and so is whatever the models and the    *)
(* late ACKs may still put there.                                            *)
Excuses == \A m \in MsgIds : m < offset \/ m \in gone => Excused(m)
HandsShown == \A u \in Users : ~hand[u].old => hand[u].ids \subseteq shown
HandsSafe ==
  \A u \in Users : \A n \in 1..MaxMsgs :
    ~hand[u].old /\ hand[u].last = n => Safe(n)
LateSafe == \A n \in late : Safe(n)

ShareInv ==
  offset <= Len(log) + 1 /\ Excuses /\ HandsShown /\ HandsSafe /\ LateSafe

ToolsInv == TypeOKTools /\ (stale \/ ShareInv)

(* What the invariant is about, apart from the types.                        *)
shareVars == <<log, offset, late, gone, keyed, hand, shown, stale>>

(* The numbers behind the type invariant.                                    *)
LEMMA Numbers ==
  ASSUME TypeOKTools
  PROVE  /\ Len(log) \in Nat /\ offset \in Nat /\ MaxMsgs \in Nat
         /\ MsgIds = 1..Len(log)
         /\ \A m \in MsgIds : m \in Nat /\ log[m] \in Int
<1>1. Len(log) \in Nat /\ offset \in Nat /\ MsgIds = 1..Len(log) /\ MaxMsgs \in Nat
  BY MailboxAssumption DEF TypeOKTools, MsgIds
<1>2. log \in Seq(Priorities) /\ Priorities \subseteq Int
  BY MailboxAssumption DEF TypeOKTools
<1>3. \A m \in 1..Len(log) : m \in Nat /\ log[m] \in Priorities
  BY <1>1, <1>2
<1>4. QED
  BY <1>1, <1>2, <1>3

(* An excuse stays one while messages arrive and the group moves on.         *)
LEMMA ExcusedStays ==
  ASSUME TypeOKTools, NEW m \in MsgIds, Excused(m),
         MsgIds \subseteq MsgIds',
         \A j \in MsgIds : log'[j] = log[j],
         offset' \in Nat, offset <= offset',
         shown \subseteq shown', keyed \subseteq keyed'
  PROVE  Excused(m)'
<1>1. CASE Overtaken(m)
  <2>1. PICK k \in m + 1..offset - 1 : k \in MsgIds /\ log[k] < log[m]
    BY <1>1 DEF Overtaken
  <2>2. k \in m + 1..offset' - 1
    <3>1. m \in Nat /\ offset \in Nat
      BY Numbers
    <3>2. k \in Int /\ m + 1 <= k /\ k <= offset - 1
      BY <2>1, <3>1
    <3>3. PICK o \in Nat : o = offset'
      OBVIOUS
    <3>4. offset <= o
      BY <3>3
    <3>5. k \in m + 1..o - 1
      BY <3>1, <3>2, <3>4
    <3>6. QED
      BY <3>3, <3>5
  <2>3. log'[k] = log[k] /\ log'[m] = log[m]
    BY <2>1
  <2>4. k \in MsgIds'
    BY <2>1
  <2>5. Overtaken(m)'
    BY <2>1, <2>2, <2>3, <2>4 DEF Overtaken
  <2>6. QED
    BY <2>5 DEF Excused
<1>2. CASE ~Overtaken(m)
  BY <1>2 DEF Excused
<1>3. QED
  BY <1>1, <1>2

(* So does the harmlessness of an ACK when no message is new.                *)
LEMMA SafeStays ==
  ASSUME TypeOKTools, NEW n, Safe(n), UNCHANGED log,
         offset' \in Nat, offset <= offset',
         shown \subseteq shown', keyed \subseteq keyed'
  PROVE  Safe(n)'
<1>1. MsgIds' = MsgIds
  BY DEF MsgIds
<1>2. ASSUME NEW m \in MsgIds, m <= n
      PROVE  Excused(m)' \/ log'[n] < log'[m]
  <2>1. CASE Excused(m)
    BY <1>1, <2>1, ExcusedStays
  <2>2. CASE log[n] < log[m]
    BY <2>2
  <2>3. QED
    BY <1>2, <2>1, <2>2 DEF Safe
<1>3. QED
  BY <1>1, <1>2 DEF Safe

(* A step that concerns neither messages nor models keeps the invariant.     *)
LEMMA QuietKeeps ==
  ASSUME ToolsInv, UNCHANGED shareVars,
         box' \in {"none", "ttl", "forever"}, entry' \in BOOLEAN,
         creating' \in BOOLEAN, known' \in BOOLEAN
  PROVE  ToolsInv'
<1>1. TypeOKTools'
  BY DEF ToolsInv, TypeOKTools, shareVars, MsgIds
<1>2. ShareInv => ShareInv'
  BY DEF ShareInv, Excuses, HandsShown, HandsSafe, LateSafe, Safe, Excused, Overtaken,
         shareVars, MsgIds
<1>3. QED
  BY <1>1, <1>2 DEF ToolsInv, shareVars

(* The log grows by one message.                                             *)
LEMMA LogGrows ==
  ASSUME TypeOKTools, NEW p \in Priorities, Send(p)
  PROVE  /\ log' \in Seq(Priorities) /\ Len(log') = Len(log) + 1 /\ Len(log') <= MaxMsgs
         /\ MsgIds' = MsgIds \cup {Len(log')}
         /\ \A m \in MsgIds : log'[m] = log[m] /\ m < Len(log')
<1>1. /\ log \in Seq(Priorities) /\ Len(log) \in Nat /\ MaxMsgs \in Nat
      /\ log' = Append(log, p) /\ Len(log) < MaxMsgs
  BY Numbers DEF Send, TypeOKTools
<1>2. log' \in Seq(Priorities) /\ Len(log') = Len(log) + 1
  BY <1>1
<1>3. \A m \in 1..Len(log) : log'[m] = log[m]
  BY <1>1
<1>4. QED
  BY <1>1, <1>2, <1>3 DEF MsgIds

(* A message that arrives, with or without the key, keeps the invariant.     *)
LEMMA ArrivesKeeps ==
  ASSUME ToolsInv, NEW p \in Priorities, Arrives(p),
         \/ UNCHANGED <<gone, keyed>>
         \/ gone' = gone \cup keyed /\ keyed' = keyed \cup {Len(log')}
  PROVE  ToolsInv'
<1>1. TypeOKTools /\ Send(p)
  BY DEF ToolsInv, Arrives
<1>2. /\ log' \in Seq(Priorities) /\ Len(log') = Len(log) + 1 /\ Len(log') <= MaxMsgs
      /\ MsgIds' = MsgIds \cup {Len(log')}
      /\ \A m \in MsgIds : log'[m] = log[m] /\ m < Len(log')
  BY <1>1, LogGrows
<1>3. UNCHANGED <<offset, late, box, entry, creating, known, hand, shown, stale>>
  BY DEF Arrives, Send, userVars, historyVars
<1>4. keyed \subseteq keyed' /\ gone \subseteq gone' /\ keyed' \subseteq MsgIds' /\ gone' \subseteq MsgIds'
  BY <1>1, <1>2 DEF TypeOKTools
<1>5. TypeOKTools'
  BY <1>1, <1>2, <1>3, <1>4 DEF TypeOKTools
<1>6. /\ Len(log) \in Nat /\ offset \in Nat /\ MsgIds = 1..Len(log)
      /\ \A m \in MsgIds : m \in Nat
  BY <1>1, Numbers
<1>7. \A m \in MsgIds : Excused(m) => Excused(m)'
  BY <1>1, <1>2, <1>3, <1>4, <1>6, ExcusedStays
<1>8. ASSUME NEW n, Safe(n) PROVE Safe(n)'
  <2>1. n \in MsgIds /\ n \in Nat /\ n < Len(log') /\ log'[n] = log[n]
    BY <1>2, <1>6, <1>8 DEF Safe
  <2>2. ASSUME NEW m \in MsgIds', m <= n PROVE Excused(m)' \/ log'[n] < log'[m]
    <3>1. m \in MsgIds
      BY <1>2, <1>6, <2>1, <2>2
    <3>2. Excused(m) \/ log[n] < log[m]
      BY <1>8, <2>2, <3>1 DEF Safe
    <3>3. QED
      BY <1>2, <1>7, <2>1, <3>1, <3>2
  <2>3. QED
    BY <1>2, <2>1, <2>2 DEF Safe
<1>9. ASSUME ShareInv PROVE ShareInv'
  <2>1. ASSUME NEW m \in MsgIds', m < offset' \/ m \in gone' PROVE Excused(m)'
    <3>1. m \in MsgIds
      BY <1>1, <1>2, <1>3, <1>6, <1>9, <2>1 DEF ShareInv, TypeOKTools
    <3>2. CASE m < offset \/ m \in gone
      BY <1>7, <1>9, <3>1, <3>2 DEF ShareInv, Excuses
    <3>3. CASE ~(m < offset \/ m \in gone)
      <4>1. m \in keyed /\ keyed' = keyed \cup {Len(log')}
        BY <1>3, <2>1, <3>3
      <4>2. m < Len(log') /\ Len(log') \in keyed' /\ m \in keyed'
        BY <1>2, <3>1, <4>1
      <4>3. Len(log') > m
        BY <1>2, <1>6, <3>1, <4>2
      <4>4. QED
        BY <4>2, <4>3 DEF Excused
    <3>4. QED
      BY <3>2, <3>3
  <2>2. offset' <= Len(log') + 1
    BY <1>2, <1>3, <1>6, <1>9 DEF ShareInv
  <2>3. HandsShown' /\ HandsSafe' /\ LateSafe'
    BY <1>3, <1>8, <1>9 DEF ShareInv, HandsShown, HandsSafe, LateSafe
  <2>4. QED
    BY <2>1, <2>2, <2>3 DEF ShareInv, Excuses
<1>10. QED
  BY <1>3, <1>5, <1>9 DEF ToolsInv

(* The ACK of a message keeps the offset in range.                           *)
LEMMA AdvancedTyped ==
  ASSUME TypeOKTools, NEW n \in 1..MaxMsgs
  PROVE  /\ Advanced(n) \in 1..MaxMsgs + 1 /\ Advanced(n) \in Nat
         /\ offset <= Advanced(n) /\ n < Advanced(n)
         /\ \A m \in Nat : m < Advanced(n) => m < offset \/ m <= n
<1>1. offset \in 1..MaxMsgs + 1 /\ MaxMsgs \in Nat
  BY MailboxAssumption DEF TypeOKTools
<1>2. QED
  BY <1>1 DEF Advanced

(* A harmless ACK leaves an excuse for whatever it takes the group past.     *)
LEMMA AdvanceKeeps ==
  ASSUME TypeOKTools, ShareInv, NEW n \in 1..MaxMsgs, Safe(n),
         offset' = Advanced(n), UNCHANGED <<log, gone, keyed, shown>>
  PROVE  /\ offset' <= Len(log') + 1 /\ Excuses'
         /\ \A k : Safe(k) => Safe(k)'
<1>1. /\ Len(log) \in Nat /\ offset \in Nat /\ MaxMsgs \in Nat /\ MsgIds = 1..Len(log)
      /\ \A m \in MsgIds : m \in Nat /\ log[m] \in Int
  BY Numbers
<1>2. /\ offset' \in Nat /\ offset <= offset' /\ n < offset'
      /\ \A m \in Nat : m < offset' => m < offset \/ m <= n
  BY AdvancedTyped
<1>3. MsgIds' = MsgIds /\ n \in MsgIds
  BY DEF MsgIds, Safe
<1>4. \A m \in MsgIds : Excused(m) => Excused(m)'
  BY <1>2, <1>3, ExcusedStays
<1>5. \A k : Safe(k) => Safe(k)'
  BY <1>2, SafeStays
<1>6. ASSUME NEW m \in MsgIds', m < offset' \/ m \in gone' PROVE Excused(m)'
  <2>1. m \in MsgIds /\ m \in Nat
    BY <1>1, <1>3
  <2>2. CASE m < offset \/ m \in gone
    BY <1>4, <2>1, <2>2 DEF ShareInv, Excuses
  <2>3. CASE ~(m < offset \/ m \in gone)
    <3>1. m <= n
      BY <1>2, <1>6, <2>1, <2>3
    <3>2. CASE Excused(m)
      BY <1>4, <2>1, <3>2
    <3>3. CASE log[n] < log[m]
      <4>1. PICK o \in Nat : o = offset'
        BY <1>2
      <4>2. n # m
        BY <1>1, <1>3, <2>1, <3>3
      <4>3. n \in m + 1..o - 1
        BY <1>1, <1>2, <1>3, <2>1, <3>1, <4>1, <4>2
      <4>4. Overtaken(m)'
        BY <1>3, <3>3, <4>1, <4>3 DEF Overtaken
      <4>5. QED
        BY <4>4 DEF Excused
    <3>4. QED
      BY <2>1, <3>1, <3>2, <3>3 DEF Safe
  <2>4. QED
    BY <2>2, <2>3
<1>7. offset' <= Len(log') + 1
  BY <1>1, <1>3 DEF Advanced, ShareInv
<1>8. QED
  BY <1>5, <1>6, <1>7 DEF Excuses

(* ack_messages, answered or not.                                            *)
LEMMA AckKeeps ==
  ASSUME ToolsInv, NEW u \in Users, AckTool(u)
  PROVE  ToolsInv'
<1> DEFINE n == hand[u].last
<1>1. TypeOKTools /\ n \in 1..MaxMsgs /\ hand[u] \in [ids : SUBSET (1..MaxMsgs), last : 0..MaxMsgs, old : BOOLEAN]
  BY MailboxAssumption DEF ToolsInv, TypeOKTools, AckTool
<1>2. /\ UNCHANGED <<box, log, gone, keyed, entry, creating, known, shown>>
      /\ stale' = (stale \/ hand[u].old)
  BY DEF AckTool, Used
<1>3. Nothing \in [ids : SUBSET (1..MaxMsgs), last : 0..MaxMsgs, old : BOOLEAN]
  BY MailboxAssumption DEF Nothing
<1>4. stale' \in BOOLEAN
  BY <1>1, <1>2 DEF TypeOKTools
<1>5. CASE offset' = Advanced(n) /\ UNCHANGED late /\ hand' = [hand EXCEPT ![u] = Nothing]
  <2>1. offset' \in 1..MaxMsgs + 1
    BY <1>1, <1>5, AdvancedTyped
  <2>2. TypeOKTools'
    BY <1>1, <1>2, <1>3, <1>4, <1>5, <2>1 DEF TypeOKTools, MsgIds
  <2>3. ASSUME ~stale' PROVE ShareInv'
    <3>1. ShareInv /\ ~hand[u].old
      BY <1>2, <2>3 DEF ToolsInv
    <3>2. Safe(n)
      BY <1>1, <3>1 DEF ShareInv, HandsSafe
    <3>3. /\ offset' <= Len(log') + 1 /\ Excuses'
          /\ \A k : Safe(k) => Safe(k)'
      BY <1>1, <1>2, <1>5, <3>1, <3>2, AdvanceKeeps
    <3>4. LateSafe'
      BY <1>5, <3>1, <3>3 DEF ShareInv, LateSafe
    <3>5. \A v \in Users : hand'[v] = IF v = u THEN Nothing ELSE hand[v]
      BY <1>1, <1>5 DEF TypeOKTools
    <3>6. HandsShown'
      BY <1>2, <3>1, <3>5 DEF ShareInv, HandsShown, Nothing
    <3>7. HandsSafe'
      BY <3>1, <3>3, <3>5 DEF ShareInv, HandsSafe, Nothing
    <3>8. QED
      BY <3>3, <3>4, <3>6, <3>7 DEF ShareInv
  <2>4. QED
    BY <2>2, <2>3 DEF ToolsInv
<1>6. CASE late' = late \cup {n} /\ UNCHANGED <<offset, hand>>
  <2>1. TypeOKTools'
    BY <1>1, <1>2, <1>4, <1>6 DEF TypeOKTools, MsgIds
  <2>2. ASSUME ~stale' PROVE ShareInv'
    <3>1. ShareInv /\ ~hand[u].old
      BY <1>2, <2>2 DEF ToolsInv
    <3>2. Safe(n)
      BY <1>1, <3>1 DEF ShareInv, HandsSafe
    <3>3. \A k : Safe(k) => Safe(k)'
      BY <1>2, <1>6 DEF Safe, Excused, Overtaken, MsgIds
    <3>4. HandsShown' /\ HandsSafe'
      BY <1>2, <1>6, <3>1, <3>3 DEF ShareInv, HandsShown, HandsSafe
    <3>5. LateSafe'
      BY <1>6, <3>1, <3>2, <3>3 DEF ShareInv, LateSafe
    <3>6. Excuses' /\ offset' <= Len(log') + 1
      BY <1>2, <1>6, <3>1 DEF ShareInv, Excuses, Excused, Overtaken, MsgIds
    <3>7. QED
      BY <3>4, <3>5, <3>6 DEF ShareInv
  <2>3. QED
    BY <2>1, <2>2 DEF ToolsInv
<1>7. QED
  BY <1>5, <1>6 DEF AckTool

(* An ACK that arrives late.                                                 *)
LEMMA LateAckKeeps ==
  ASSUME ToolsInv, BrokerLateAck
  PROVE  ToolsInv'
<1>1. PICK n \in late : offset' = Advanced(n) /\ late' = late \ {n} /\ UNCHANGED log
  BY DEF BrokerLateAck, LateAck
<1>2. UNCHANGED <<box, gone, keyed, entry, creating, known, hand, shown, stale>>
  BY DEF BrokerLateAck, userVars, historyVars
<1>3. TypeOKTools /\ n \in 1..MaxMsgs
  BY <1>1 DEF ToolsInv, TypeOKTools
<1>4. offset' \in 1..MaxMsgs + 1
  BY <1>1, <1>3, AdvancedTyped
<1>5. TypeOKTools'
  BY <1>1, <1>2, <1>3, <1>4 DEF TypeOKTools, MsgIds
<1>6. ASSUME ShareInv PROVE ShareInv'
  <2>1. Safe(n)
    BY <1>1, <1>6 DEF ShareInv, LateSafe
  <2>2. /\ offset' <= Len(log') + 1 /\ Excuses'
        /\ \A k : Safe(k) => Safe(k)'
    BY <1>1, <1>2, <1>3, <1>6, <2>1, AdvanceKeeps
  <2>3. HandsShown' /\ HandsSafe' /\ LateSafe'
    BY <1>1, <1>2, <1>6, <2>2 DEF ShareInv, HandsShown, HandsSafe, LateSafe
  <2>4. QED
    BY <2>2, <2>3 DEF ShareInv
<1>7. QED
  BY <1>2, <1>5, <1>6 DEF ToolsInv

(* To be shown messages keeps the invariant, if what the msg_id to go by     *)
(* covers is excused, among these messages, or matters less.                 *)
LEMMA ShowsKeeps ==
  ASSUME ToolsInv, NEW u \in Users, NEW messages, NEW ids, NEW last \in 0..MaxMsgs,
         messages \subseteq MsgIds, ids \subseteq messages,
         Shows(u, messages, ids, last),
         ShareInv /\ last # 0 =>
           /\ last \in MsgIds
           /\ \A m \in MsgIds : m <= last =>
                Excused(m) \/ m \in messages \/ log[last] < log[m]
  PROVE  ToolsInv'
<1>1. TypeOKTools /\ MsgIds \subseteq 1..MaxMsgs
  BY Numbers DEF ToolsInv, TypeOKTools
<1>2. /\ UNCHANGED <<box, log, offset, late, gone, keyed, entry, creating, known, stale>>
      /\ shown' = shown \cup messages
      /\ hand' = [hand EXCEPT ![u] = [ids |-> ids, last |-> last, old |-> FALSE]]
  BY DEF Shows, queueVars
<1>3. MsgIds' = MsgIds /\ offset \in Nat
  BY <1>1, <1>2, Numbers DEF MsgIds
<1>4. [ids |-> ids, last |-> last, old |-> FALSE]
        \in [ids : SUBSET (1..MaxMsgs), last : 0..MaxMsgs, old : BOOLEAN]
  BY <1>1
<1>5. TypeOKTools'
  BY <1>1, <1>2, <1>3, <1>4 DEF TypeOKTools
<1>6. \A m \in MsgIds : Excused(m) => Excused(m)'
  BY <1>1, <1>2, <1>3, ExcusedStays
<1>7. \A k : Safe(k) => Safe(k)'
  BY <1>1, <1>2, <1>3, SafeStays
<1>8. \A v \in Users : hand'[v] =
        IF v = u THEN [ids |-> ids, last |-> last, old |-> FALSE] ELSE hand[v]
  BY <1>1, <1>2 DEF TypeOKTools
<1>9. ASSUME ShareInv PROVE ShareInv'
  <2>1. last # 0 => Safe(last)'
    <3>1. SUFFICES ASSUME last # 0, NEW m \in MsgIds, m <= last
                   PROVE  last \in MsgIds /\ (Excused(m)' \/ log'[last] < log'[m])
      <4>1. last # 0 => last \in MsgIds
        BY <1>9
      <4>2. QED
        BY <1>3, <3>1, <4>1 DEF Safe
    <3>2. CASE Excused(m)
      BY <1>6, <1>9, <3>1, <3>2
    <3>3. CASE m \in messages
      BY <1>2, <1>9, <3>1, <3>3 DEF Excused
    <3>4. CASE log[last] < log[m]
      BY <1>2, <1>9, <3>1, <3>4
    <3>5. QED
      BY <1>9, <3>1, <3>2, <3>3, <3>4
  <2>2. HandsShown'
    BY <1>2, <1>8, <1>9 DEF ShareInv, HandsShown
  <2>3. HandsSafe'
    <3>1. SUFFICES ASSUME NEW v \in Users, NEW n \in 1..MaxMsgs, ~hand'[v].old, hand'[v].last = n
                   PROVE  Safe(n)'
      BY DEF HandsSafe
    <3>2. CASE v = u
      <4>1. n = last /\ last # 0
        BY <1>8, <3>1, <3>2
      <4>2. QED
        BY <2>1, <4>1
    <3>3. CASE v # u
      BY <1>7, <1>8, <1>9, <3>1, <3>3 DEF ShareInv, HandsSafe
    <3>4. QED
      BY <3>2, <3>3
  <2>4. LateSafe' /\ offset' <= Len(log') + 1
    BY <1>2, <1>7, <1>9 DEF ShareInv, LateSafe
  <2>5. Excuses'
    BY <1>2, <1>3, <1>6, <1>9 DEF ShareInv, Excuses
  <2>6. QED
    BY <2>2, <2>3, <2>4, <2>5 DEF ShareInv
<1>10. QED
  BY <1>2, <1>5, <1>9 DEF ToolsInv

(* fetch_messages: by the order of a batch its last message is harmless to   *)
(* acknowledge.                                                              *)
LEMMA FetchKeeps ==
  ASSUME ToolsInv, NEW u \in Users, FetchTool(u)
  PROVE  ToolsInv'
<1>1. TypeOKTools
  BY DEF ToolsInv
<1>2. /\ Len(log) \in Nat /\ offset \in Nat /\ MaxMsgs \in Nat /\ MsgIds = 1..Len(log)
      /\ \A m \in MsgIds : m \in Nat /\ log[m] \in Int
  BY <1>1, Numbers
<1>3. Live \subseteq MsgIds /\ MsgIds \subseteq 1..MaxMsgs
      /\ \A m \in MsgIds : m \in Live \/ m < offset \/ m \in gone
  BY <1>1, <1>2 DEF Live, Pending, TypeOKTools
<1>4. PICK b \in BatchesOf(Live) :
        \/ \E n \in DOMAIN b : Shows(u, {b[i] : i \in 1..n}, {b[i] : i \in 1..n}, b[n])
        \/ b = <<>> /\ Shows(u, {}, {}, 0)
  BY DEF FetchTool
<1>5. CASE Shows(u, {}, {}, 0)
  BY <1>2, <1>5, ShowsKeeps
<1>6. ASSUME NEW n \in DOMAIN b, Shows(u, {b[i] : i \in 1..n}, {b[i] : i \in 1..n}, b[n])
      PROVE  ToolsInv'
  <2> DEFINE messages == {b[i] : i \in 1..n}
  <2>1. PICK l \in 0..NumMsgs : b \in [1..l -> Live]
    BY DEF BatchesOf
  <2>2. l \in Nat /\ n \in 1..l /\ DOMAIN b = 1..l
    BY <1>6, <2>1, MailboxAssumption
  <2>3. /\ \A i, j \in DOMAIN b : i < j => Before(b[i], b[j])
        /\ \A m \in Live : (\A i \in DOMAIN b : b[i] # m) => \A i \in DOMAIN b : Before(b[i], m)
    BY DEF BatchesOf
  <2>4. messages \subseteq MsgIds /\ b[n] \in MsgIds
    <3>1. \A i \in 1..l : b[i] \in MsgIds
      BY <1>3, <2>1
    <3>2. \A i \in 1..n : i \in 1..l
      BY <2>2
    <3>3. QED
      BY <2>2, <3>1, <3>2
  <2>5. b[n] \in 0..MaxMsgs
    BY <1>2, <1>3, <2>4
  <2>6. ASSUME ShareInv, NEW m \in MsgIds, m <= b[n]
        PROVE  Excused(m) \/ m \in messages \/ log[b[n]] < log[m]
    <3>1. CASE m < offset \/ m \in gone
      BY <2>6, <3>1 DEF ShareInv, Excuses
    <3>2. CASE m \in Live /\ \E j \in 1..l : b[j] = m /\ j <= n
      BY <2>2, <3>2
    <3>3. CASE m \in Live /\ \A j \in 1..l : b[j] = m => n < j
      <4>1. Before(b[n], m)
        BY <2>2, <2>3, <3>3
      <4>2. QED
        BY <1>2, <2>4, <2>6, <4>1 DEF Before
    <3>4. QED
      BY <1>3, <2>2, <2>6, <3>1, <3>2, <3>3
  <2>7. QED
    <3>1. messages \subseteq messages
      OBVIOUS
    <3>2. Shows(u, messages, messages, b[n])
      BY <1>6
    <3> HIDE DEF messages
    <3>3. QED
      BY <2>4, <2>5, <2>6, <3>1, <3>2, ShowsKeeps
<1>7. QED
  BY <1>4, <1>5, <1>6

(* query_messages.                                                           *)
LEMMA QueryKeeps ==
  ASSUME ToolsInv, NEW u \in Users, QueryTool(u)
  PROVE  ToolsInv'
<1>1. PICK ids \in {MsgIds \ gone, keyed \ gone} : \E m \in ids : Shows(u, ids, {m}, 0)
  BY DEF QueryTool
<1>2. PICK m \in ids : Shows(u, ids, {m}, 0)
  BY <1>1
<1>3. ids \subseteq MsgIds /\ {m} \subseteq ids /\ 0 \in 0..MaxMsgs
  BY <1>1, <1>2, MailboxAssumption DEF ToolsInv, TypeOKTools
<1>4. QED
  BY <1>2, <1>3, ShowsKeeps

(* delete_message: what it deletes has been shown.                           *)
LEMMA DeleteKeeps ==
  ASSUME ToolsInv, NEW u \in Users, DeleteTool(u)
  PROVE  ToolsInv'
<1>1. PICK d \in hand[u].ids \cap MsgIds :
        gone' = gone \cup {d} /\ hand' \in {hand, [hand EXCEPT ![u] = Nothing]}
  BY DEF DeleteTool
<1>2. /\ UNCHANGED <<box, log, offset, late, keyed, entry, creating, known, shown>>
      /\ stale' = (stale \/ hand[u].old)
  BY DEF DeleteTool, Used
<1>3. TypeOKTools /\ MsgIds' = MsgIds
  BY <1>2 DEF ToolsInv, MsgIds
<1>4. Nothing \in [ids : SUBSET (1..MaxMsgs), last : 0..MaxMsgs, old : BOOLEAN]
  BY MailboxAssumption DEF Nothing
<1>5. hand[u] \in [ids : SUBSET (1..MaxMsgs), last : 0..MaxMsgs, old : BOOLEAN]
  BY <1>3 DEF TypeOKTools
<1>6. stale' \in BOOLEAN
  BY <1>2, <1>3, <1>5 DEF TypeOKTools
<1>7. hand' \in [Users -> [ids : SUBSET (1..MaxMsgs), last : 0..MaxMsgs, old : BOOLEAN]]
  BY <1>1, <1>3, <1>4 DEF TypeOKTools
<1>8. TypeOKTools'
  BY <1>1, <1>2, <1>3, <1>6, <1>7 DEF TypeOKTools
<1>9. \A v \in Users : hand'[v] = hand[v] \/ hand'[v] = Nothing
  BY <1>1, <1>3 DEF TypeOKTools
<1>10. ASSUME ~stale' PROVE ShareInv'
  <2>1. ShareInv /\ ~hand[u].old
    BY <1>2, <1>10 DEF ToolsInv
  <2>2. d \in shown
    BY <1>1, <2>1 DEF ShareInv, HandsShown
  <2>3. \A m \in MsgIds : Excused(m) => Excused(m)'
    BY <1>2, <1>3 DEF Excused, Overtaken
  <2>4. \A k : Safe(k) => Safe(k)'
    BY <1>2, <1>3, <2>3 DEF Safe
  <2>5. Excuses'
    <3>1. Excused(d)
      BY <2>2 DEF Excused
    <3>2. QED
      BY <1>1, <1>2, <1>3, <2>1, <2>3, <3>1 DEF ShareInv, Excuses
  <2>6. HandsShown'
    BY <1>2, <1>9, <2>1 DEF ShareInv, HandsShown, Nothing
  <2>7. HandsSafe'
    BY <1>9, <2>1, <2>4 DEF ShareInv, HandsSafe, Nothing
  <2>8. LateSafe' /\ offset' <= Len(log') + 1
    BY <1>2, <2>1, <2>4 DEF ShareInv, LateSafe
  <2>9. QED
    BY <2>5, <2>6, <2>7, <2>8 DEF ShareInv
<1>11. QED
  BY <1>8, <1>10 DEF ToolsInv

(* The end of a TTL: the next mailbox of the name starts with nothing.       *)
LEMMA ExpireKeeps ==
  ASSUME ToolsInv, MailboxExpires
  PROVE  ToolsInv'
<1>1. /\ log' = <<>> /\ offset' = 1 /\ late' = {} /\ gone' = {} /\ keyed' = {}
      /\ shown' = {} /\ stale' = FALSE /\ box' = "none"
      /\ UNCHANGED <<entry, creating, known>>
      /\ hand' = [u \in Users |-> IF hand[u] = Nothing THEN Nothing
                                  ELSE [hand[u] EXCEPT !.old = TRUE]]
  BY DEF MailboxExpires
<1>2. TypeOKTools
  BY DEF ToolsInv
<1>3. Nothing \in [ids : SUBSET (1..MaxMsgs), last : 0..MaxMsgs, old : BOOLEAN]
  BY MailboxAssumption DEF Nothing
<1>4. hand' \in [Users -> [ids : SUBSET (1..MaxMsgs), last : 0..MaxMsgs, old : BOOLEAN]]
  BY <1>1, <1>2, <1>3 DEF TypeOKTools
<1>5. log' \in Seq(Priorities) /\ Len(log') = 0 /\ MsgIds' = {}
  BY <1>1 DEF MsgIds
<1>6. TypeOKTools'
  <2>1. MaxMsgs \in Nat /\ 1 \in 1..MaxMsgs + 1 /\ 0 <= MaxMsgs
    BY MailboxAssumption
  <2>2. entry' \in BOOLEAN /\ creating' \in BOOLEAN /\ known' \in BOOLEAN /\ stale' \in BOOLEAN
    BY <1>1, <1>2 DEF TypeOKTools
  <2>3. offset' \in 1..MaxMsgs + 1 /\ late' \subseteq 1..MaxMsgs /\ Len(log') <= MaxMsgs
    BY <1>1, <1>5, <2>1
  <2>4. gone' \subseteq MsgIds' /\ keyed' \subseteq MsgIds' /\ shown' \subseteq MsgIds'
    BY <1>1
  <2>5. QED
    BY <1>1, <1>4, <1>5, <2>2, <2>3, <2>4 DEF TypeOKTools
<1>7. ASSUME NEW u \in Users, ~hand'[u].old
      PROVE  hand'[u].ids = {} /\ hand'[u].last = 0
  <2>1. hand[u] # Nothing => hand'[u].old = TRUE
    BY <1>1, <1>2 DEF TypeOKTools
  <2>2. hand'[u] = Nothing
    BY <1>1, <1>7, <2>1
  <2>3. QED
    BY <2>2 DEF Nothing
<1>8. HandsShown' /\ HandsSafe'
  BY <1>7 DEF HandsShown, HandsSafe
<1>9. Excuses' /\ LateSafe' /\ offset' <= Len(log') + 1
  BY <1>1, <1>5 DEF Excuses, LateSafe
<1>10. QED
  BY <1>6, <1>8, <1>9 DEF ToolsInv, ShareInv

(* The priority that is the default.                                         *)
LEMMA NormalIsPriority == "normal" \in DOMAIN Priority /\ Priority.normal = Priority["normal"]
  BY DEF Priority

(* Every tool keeps the invariant, and no tool takes messages off the log.   *)
LEMMA ToolKeeps ==
  ASSUME ToolsInv, NEW u \in Users, Tool(u)
  PROVE  ToolsInv' /\ Len(log) <= Len(log')
<1>1. TypeOKTools /\ Len(log) \in Nat
  BY Numbers DEF ToolsInv
<1>2. CASE RegisterCreate \/ RegisterEntry \/ DiscoverTool
  <2>1. UNCHANGED shareVars
    BY <1>2 DEF RegisterCreate, RegisterEntry, DiscoverTool, queueVars, historyVars, shareVars
  <2>2. box' \in {"none", "ttl", "forever"} /\ entry' \in BOOLEAN
    BY <1>1, <1>2 DEF RegisterCreate, RegisterEntry, DiscoverTool, queueVars, TypeOKTools
  <2>3. creating' \in BOOLEAN /\ known' \in BOOLEAN
    BY <1>1, <1>2 DEF RegisterCreate, RegisterEntry, DiscoverTool, TypeOKTools
  <2>4. QED
    BY <1>1, <2>1, <2>2, <2>3, QuietKeeps DEF shareVars
<1>3. CASE FetchTool(u) \/ QueryTool(u)
  <2>1. ToolsInv'
    BY <1>3, FetchKeeps, QueryKeeps
  <2>2. log' = log
    BY <1>3 DEF FetchTool, QueryTool, Shows, queueVars
  <2>3. QED
    BY <1>1, <2>1, <2>2
<1>4. CASE AckTool(u) \/ DeleteTool(u)
  <2>1. ToolsInv'
    BY <1>4, AckKeeps, DeleteKeeps
  <2>2. log' = log
    BY <1>4 DEF AckTool, DeleteTool
  <2>3. QED
    BY <1>1, <2>1, <2>2
<1>5. CASE SendTool
  <2>1. PICK w \in Words :
          Arrives(Priority[IF w \in DOMAIN Priority THEN w ELSE "normal"])
    BY <1>5 DEF SendTool
  <2>2. PICK p \in Priorities : Arrives(p)
    BY <2>1, ToolsAssumption, NormalIsPriority
  <2>3. UNCHANGED <<gone, keyed>>
    BY <1>5 DEF SendTool
  <2>4. Len(log') = Len(log) + 1
    BY <1>1, <2>2, LogGrows DEF Arrives
  <2>5. QED
    BY <1>1, <2>2, <2>3, <2>4, ArrivesKeeps
<1>6. CASE SendKeyed
  <2>1. PICK p \in Priorities : Arrives(p)
    BY <1>6, ToolsAssumption, NormalIsPriority DEF SendKeyed
  <2>2. gone' = gone \cup keyed /\ keyed' = keyed \cup {Len(log')}
    BY <1>6 DEF SendKeyed
  <2>3. Len(log') = Len(log) + 1
    BY <1>1, <2>1, LogGrows DEF Arrives
  <2>4. QED
    BY <1>1, <2>1, <2>2, <2>3, ArrivesKeeps
<1>7. QED
  BY <1>2, <1>3, <1>4, <1>5, <1>6 DEF Tool, Work

(* So does the broker.                                                       *)
LEMMA BrokerKeeps ==
  ASSUME ToolsInv, Broker
  PROVE  ToolsInv' /\ (log' = log \/ log' = <<>>)
<1>1. CASE BrokerLateAck
  BY <1>1, LateAckKeeps DEF BrokerLateAck, LateAck
<1>2. CASE MailboxExpires
  BY <1>2, ExpireKeeps DEF MailboxExpires
<1>3. CASE EntryFades
  <2>1. UNCHANGED <<shareVars, box, creating, known>> /\ entry' = FALSE
    BY <1>3 DEF EntryFades, queueVars, userVars, historyVars, shareVars
  <2>2. /\ box' \in {"none", "ttl", "forever"} /\ entry' \in BOOLEAN
        /\ creating' \in BOOLEAN /\ known' \in BOOLEAN
    BY <2>1 DEF ToolsInv, TypeOKTools
  <2>3. QED
    BY <2>1, <2>2, QuietKeeps DEF shareVars
<1>4. QED
  BY <1>1, <1>2, <1>3 DEF Broker

(* A step without a tool of the models or of the broker.                     *)
LEMMA OthersKeep ==
  ASSUME ToolsInv, UNCHANGED others
  PROVE  ToolsInv' /\ log' = log
<1>1. UNCHANGED <<shareVars, box, entry, creating, known>>
  BY DEF others, queueVars, userVars, historyVars, shareVars
<1>2. /\ box' \in {"none", "ttl", "forever"} /\ entry' \in BOOLEAN
      /\ creating' \in BOOLEAN /\ known' \in BOOLEAN
  BY <1>1 DEF ToolsInv, TypeOKTools
<1>3. QED
  BY <1>1, <1>2, QuietKeeps DEF shareVars

(* The graph's part.                                                         *)
GraphInv ==
  /\ node \in {"none", "create", "send", "poll_reply", "ack", "end", "failed"}
  /\ replyBox \in {"none", "live", "expired"}
  /\ task \in 0..Len(log) /\ told \subseteq Users
  /\ replies \in Seq(Texts) /\ Len(replies) <= MaxReplies
  /\ acking \in 0..MaxReplies /\ consumed \in 0..MaxReplies + 1

Inv == ToolsInv /\ GraphInv

LEMMA InitInv == Init => Inv
<1> SUFFICES ASSUME Init PROVE Inv
  OBVIOUS
<1>1. /\ log = <<>> /\ offset = 1 /\ late = {} /\ box = "none" /\ entry = FALSE
      /\ gone = {} /\ keyed = {} /\ creating = FALSE /\ known = FALSE
      /\ hand = [u \in Users |-> Nothing] /\ shown = {} /\ stale = FALSE
  BY DEF Init, ToolsInit, MailboxInit
<1>2. Len(log) = 0 /\ log \in Seq(Priorities) /\ MsgIds = {}
  BY <1>1 DEF MsgIds
<1>3. TypeOKTools
  <2>1. hand \in [Users -> [ids : SUBSET (1..MaxMsgs), last : 0..MaxMsgs, old : BOOLEAN]]
    BY <1>1, MailboxAssumption DEF Nothing
  <2>2. offset \in 1..MaxMsgs + 1 /\ Len(log) <= MaxMsgs
    BY <1>1, <1>2, MailboxAssumption
  <2>3. entry \in BOOLEAN /\ creating \in BOOLEAN /\ known \in BOOLEAN /\ stale \in BOOLEAN
    BY <1>1
  <2>4. QED
    BY <1>1, <1>2, <2>1, <2>2, <2>3 DEF TypeOKTools
<1>4. ShareInv
  <2>1. \A u \in Users : hand[u].ids = {} /\ hand[u].last = 0
    BY <1>1 DEF Nothing
  <2>2. HandsShown /\ HandsSafe
    BY <2>1 DEF HandsShown, HandsSafe
  <2>3. QED
    BY <1>1, <1>2, <2>2 DEF ShareInv, Excuses, LateSafe
<1>5. GraphInv
  BY <1>2, OrchestratorAssumption DEF Init, GraphInv
<1>6. QED
  BY <1>3, <1>4, <1>5 DEF Inv, ToolsInv

(* The task sent by the graph.                                               *)
LEMMA SetupSendKeeps ==
  ASSUME Inv, SetupSend
  PROVE  Inv'
<1>1. TypeOKTools /\ ToolsInv /\ GraphInv /\ node = "send" /\ Len(log) \in Nat
  BY Numbers DEF Inv, ToolsInv, SetupSend
<1>2. CASE Arrives(Priority.normal) /\ UNCHANGED <<gone, keyed>> /\ task' = Len(log')
           /\ node' \in {"poll_reply", "failed"}
           /\ UNCHANGED <<replyBox, told, replies, acking, consumed>>
  <2>1. PICK p \in Priorities : Arrives(p)
    BY <1>2, ToolsAssumption, NormalIsPriority
  <2>2. ToolsInv' /\ Len(log') = Len(log) + 1
    BY <1>1, <1>2, <2>1, ArrivesKeeps, LogGrows DEF Arrives
  <2>3. GraphInv'
    BY <1>1, <1>2, <2>2 DEF GraphInv
  <2>4. QED
    BY <2>2, <2>3 DEF Inv
<1>3. CASE Raise
  BY <1>1, <1>3, OthersKeep DEF Raise, Inv, GraphInv
<1>4. QED
  BY <1>2, <1>3 DEF SetupSend

(* The steps that leave the models' mailbox alone.                           *)
LEMMA GraphKeeps ==
  ASSUME Inv,
         \/ SetupCreate \/ PollReply \/ AckReply \/ ReplyBoxExpires
         \/ \E u \in Users : ReplyTool(u)
         \/ UNCHANGED vars
  PROVE  Inv'
<1>1. ToolsInv /\ GraphInv /\ Len(replies) \in Nat
  BY DEF Inv, GraphInv
<1>2. UNCHANGED others
  BY DEF SetupCreate, PollReply, AckReply, ReplyBoxExpires, ReplyTool, Raise, vars
<1>3. ToolsInv' /\ log' = log
  BY <1>1, <1>2, OthersKeep
<1>4. CASE Raise
  BY <1>1, <1>3, <1>4 DEF Raise, GraphInv, Inv
<1>5. CASE SetupCreate \/ ReplyBoxExpires \/ UNCHANGED vars
  BY <1>1, <1>3, <1>4, <1>5
  DEF SetupCreate, ReplyBoxExpires, vars, graphVars, GraphInv, Inv
<1>6. CASE PollReply
  <2>1. ASSUME NEW i \in DOMAIN replies, ~SaysNoMessages PROVE Extracted(i) \in 0..MaxReplies
    <3>a. replies \in Seq(Texts) /\ Len(replies) <= MaxReplies
      BY <1>1 DEF GraphInv
    <3>b. i \in 1..Len(replies) /\ replies[i] \in Texts
      BY <2>1, <3>a
    <3>1. i \in 1..Len(replies) /\ Len(replies) <= MaxReplies /\ replies[i] \in Empty..MaxReplies
      BY <3>a, <3>b DEF Texts
    <3>2. replies[i] # Empty
      BY <2>1 DEF SaysNoMessages
    <3>3. QED
      BY <1>1, <3>1, <3>2, OrchestratorAssumption DEF Extracted, Empty, NoId
  <2>2. CASE Raise
    BY <1>4, <2>2
  <2>3. CASE ~Raise
    <3>1. acking' \in 0..MaxReplies /\ node' \in {"poll_reply", "end", "ack"}
      BY <1>1, <1>6, <2>1, <2>3 DEF PollReply, GraphInv
    <3>2. UNCHANGED <<replyBox, task, told, replies, consumed>>
      BY <1>6, <2>3 DEF PollReply
    <3>3. QED
      BY <1>1, <1>3, <3>1, <3>2 DEF GraphInv, Inv
  <2>4. QED
    BY <2>2, <2>3
<1>7. CASE AckReply
  BY <1>1, <1>3, <1>4, <1>7, OrchestratorAssumption DEF AckReply, GraphInv, Inv
<1>8. CASE \E u \in Users : ReplyTool(u)
  <2>1. PICK text \in Texts : replies' = Append(replies, text) /\ Len(replies) < MaxReplies
    BY <1>8 DEF ReplyTool
  <2>2. replies' \in Seq(Texts) /\ Len(replies') = Len(replies) + 1
    BY <1>1, <2>1 DEF GraphInv
  <2>3. UNCHANGED <<node, replyBox, task, told, acking, consumed>>
    BY <1>8 DEF ReplyTool
  <2>4. QED
    BY <1>1, <1>3, <2>1, <2>2, <2>3, OrchestratorAssumption DEF GraphInv, Inv
<1>9. QED
  BY <1>5, <1>6, <1>7, <1>8

(* The steps of the models and of the broker.                                *)
LEMMA ModelsKeep ==
  ASSUME Inv, (\E u \in Users : UseTool(u)) \/ BrokerStep
  PROVE  Inv'
<1>1. ToolsInv /\ GraphInv /\ TypeOKTools /\ Len(log) \in Nat
  BY Numbers DEF Inv, ToolsInv
<1>2. ASSUME NEW u \in Users, UseTool(u) PROVE Inv'
  <2>1. Tool(u)
    BY <1>2 DEF UseTool, Tool
  <2>2. ToolsInv' /\ Len(log) <= Len(log')
    BY <1>1, <2>1, ToolKeeps
  <2>3. PICK n \in Nat : n = Len(log')
    BY <2>2 DEF ToolsInv, TypeOKTools
  <2>4. UNCHANGED <<node, replyBox, task, replies, acking, consumed>> /\ told' \subseteq Users
    BY <1>1, <1>2 DEF UseTool, GraphInv
  <2>5. task \in 0..n
    BY <1>1, <2>2, <2>3 DEF GraphInv
  <2>6. QED
    BY <1>1, <2>2, <2>3, <2>4, <2>5 DEF Inv, GraphInv
<1>3. CASE BrokerStep
  <2>1. ToolsInv' /\ (log' = log \/ log' = <<>>)
    BY <1>1, <1>3, BrokerKeeps DEF BrokerStep
  <2>2. UNCHANGED <<node, replyBox, told, replies, acking, consumed>>
    BY <1>3 DEF BrokerStep
  <2>3. task' \in 0..Len(log')
    <3>1. CASE log' = <<>>
      BY <1>3, <3>1 DEF BrokerStep
    <3>2. CASE log' # <<>>
      BY <1>1, <1>3, <2>1, <3>2 DEF BrokerStep, GraphInv
    <3>3. QED
      BY <3>1, <3>2
  <2>4. QED
    BY <1>1, <2>1, <2>2, <2>3 DEF Inv, GraphInv
<1>4. QED
  BY <1>2, <1>3

LEMMA Inductive == Inv /\ [Next]_vars => Inv'
<1> SUFFICES ASSUME Inv, [Next]_vars PROVE Inv'
  OBVIOUS
<1>1. QED
  BY SetupSendKeeps, GraphKeeps, ModelsKeep DEF Next, Graph

(* The state of models, graph and broker stays well-typed: whatever word a   *)
(* model gives as a priority, the message has one (send_message).            *)
THEOREM ToolsTypeOK == Spec => []TypeOK
<1>1. Inv => TypeOK
  BY DEF Inv, ToolsInv, GraphInv, TypeOK
<1>2. QED
  BY <1>1, InitInv, Inductive, PTL DEF Spec

(* Models that share a mailbox lose nothing that none of them has seen, with *)
(* any number of models, messages and priorities (fetch_messages,            *)
(* ack_messages, delete_message).                                            *)
THEOREM ToolsNothingVanishes == Spec => []NothingVanishes
<1>1. Inv => NothingVanishes
  BY DEF Inv, ToolsInv, ShareInv, Excuses, Excused, NothingVanishes
<1>2. QED
  BY <1>1, InitInv, Inductive, PTL DEF Spec
=============================================================================
