-------------------------- MODULE ConsumeLoopProofs --------------------------
(* Lemmas about the steps that the consume loops share.  The proofs of the   *)
(* single SDKs cite them.                                                    *)
EXTENDS ConsumeLoop, TLAPS

(* The log gives every message a priority.                                   *)
LEMMA LogFacts ==
  ASSUME TypeOKLoop
  PROVE  \A m \in MsgIds : m \in Int /\ log[m] \in Priorities /\ log[m] \in Nat
<1>1. \A m \in MsgIds : m \in Int /\ log[m] \in Priorities
  BY DEF TypeOKLoop, MsgIds
<1>2. QED
  BY <1>1, MailboxAssumption

(* The initial state.                                                        *)
LEMMA LoopInitTyped == LoopInit => TypeOKLoop /\ DeliveryInv
<1> SUFFICES ASSUME LoopInit PROVE TypeOKLoop /\ DeliveryInv
  OBVIOUS
<1>1. /\ log = <<>> /\ offset = 1 /\ late = {} /\ batch = <<>> /\ pos = 1 /\ ack = "none"
      /\ count = 0 /\ running = FALSE /\ stop = "none"
      /\ attempted = {} /\ handled = {} /\ repeated = {} /\ counted = {}
  BY DEF LoopInit, MailboxInit
<1>2. log \in Seq(Priorities) /\ batch \in Seq(MsgIds) /\ Len(log) = 0
  BY <1>1
<1>3. count \in 0..MaxCount /\ offset \in 1..Len(log) + 1
  BY <1>1, <1>2, ConsumeAssumption
<1>4. TypeOKLoop
  <2>1. late \subseteq MsgIds /\ attempted \subseteq MsgIds /\ pos \in Nat \ {0}
    BY <1>1
  <2>2. running \in BOOLEAN
    BY <1>1
  <2>3. QED
    BY <1>1, <1>2, <1>3, <2>1, <2>2 DEF TypeOKLoop
<1>5. DeliveryInv
  BY <1>1, <1>2
  DEF DeliveryInv, NothingSkipped, AckedWasHandled, Distinct, Covered, LateCovered, MsgIds
<1>6. QED
  BY <1>4, <1>5

(* An answer to a fetch is a sequence of distinct pending messages; with one *)
(* priority it leaves out nothing that precedes one of its messages.         *)
LEMMA BatchFacts ==
  ASSUME TypeOKLoop, NEW b \in Batches
  PROVE  /\ b \in Seq(MsgIds)
         /\ \A i \in 1..Len(b) : b[i] \in MsgIds /\ b[i] >= offset
         /\ \A i, j \in 1..Len(b) : i < j => b[i] # b[j]
         /\ Uniform => \A i \in 1..Len(b) : \A m \in MsgIds :
              m >= offset /\ m < b[i] => \E j \in 1..(i - 1) : b[j] = m
<1>1. PICK n \in 0..NumMsgs : b \in [1..n -> Pending]
  BY DEF Batches, BatchesOf
<1>2. n \in Nat /\ Pending \subseteq MsgIds /\ (\A m \in Pending : m >= offset)
  BY MailboxAssumption DEF TypeOKLoop, Pending, MsgIds
<1>3. b \in Seq(MsgIds) /\ Len(b) = n /\ DOMAIN b = 1..n
  BY <1>1, <1>2
<1>4. \A i \in 1..Len(b) : b[i] \in MsgIds /\ b[i] >= offset /\ b[i] \in Pending
  BY <1>1, <1>2, <1>3
<1>5. \A i, j \in 1..n : i < j => Before(b[i], b[j])
  BY <1>3 DEF Batches, BatchesOf
<1>6. \A i \in 1..n : log[b[i]] \in Nat /\ b[i] \in Int
  BY <1>3, <1>4, LogFacts
<1>7. \A i, j \in 1..n : i < j => b[i] # b[j]
  BY <1>5, <1>6 DEF Before
<1>8. ASSUME Uniform, NEW i \in 1..Len(b), NEW m \in MsgIds, m >= offset, m < b[i]
      PROVE  \E j \in 1..(i - 1) : b[j] = m
  <2>1. m \in Pending /\ m \in Int
    BY <1>8 DEF Pending, MsgIds, TypeOKLoop
  <2>2. \A k \in MsgIds : log[k] = log[m] /\ log[k] \in Int
    BY <1>8, LogFacts DEF Uniform
  <2>3. ~ Before(b[i], m)
    BY <1>3, <1>4, <1>6, <1>8, <2>1, <2>2 DEF Before
  <2>4. PICK j \in 1..n : b[j] = m
    BY <1>3, <1>8, <2>1, <2>3 DEF Batches, BatchesOf
  <2>5. j # i
    BY <1>3, <1>6, <1>8, <2>1, <2>4
  <2>6. ~ (i < j)
    BY <1>3, <1>5, <1>8, <2>3, <2>4
  <2>7. QED
    BY <1>2, <1>3, <1>8, <2>4, <2>5, <2>6
<1>9. QED
  BY <1>3, <1>4, <1>7, <1>8

(* A fetch establishes what the loop needs to know of its batch.             *)
LEMMA FetchKeeps ==
  ASSUME TypeOKLoop, DeliveryInv, ack = "none",
         NEW b \in Batches, batch' = b, pos' = 1,
         UNCHANGED <<mailboxVars, ack, attempted, handled>>
  PROVE  DeliveryInv'
<1>1. Distinct'
  BY BatchFacts DEF Distinct
<1>2. Uniform => Covered'
  <2> SUFFICES ASSUME Uniform, NEW i \in 1..Len(b), NEW m \in MsgIds, m < b[i]
               PROVE  m \in attempted \/ \E j \in 1..(i - 1) : b[j] = m
    BY DEF Covered, mailboxVars, MsgIds
  <2>1. m \in Int /\ offset \in Int
    BY DEF TypeOKLoop, MsgIds
  <2>2. CASE m < offset
    BY <2>2 DEF DeliveryInv, NothingSkipped
  <2>3. CASE m >= offset
    BY <2>3, BatchFacts
  <2>4. QED
    BY <2>1, <2>2, <2>3
<1>3. QED
  BY <1>1, <1>2 DEF DeliveryInv, NothingSkipped, AckedWasHandled, LateCovered,
     mailboxVars, MsgIds

(* Leaving a message that has been attempted keeps the batch covered.        *)
LEMMA NextMessageKeeps ==
  ASSUME TypeOKLoop, DeliveryInv, InBatch,
         NEW each, NEW top, NextMessage(each, top),
         UNCHANGED log, attempted \subseteq attempted', Current \in attempted'
  PROVE  /\ Distinct' /\ (Uniform => Covered')
         /\ batch' \in Seq(MsgIds) /\ pos' \in Nat \ {0}
         /\ pc' = each => InBatch' \/ each = top
<1>1. CASE pos < Len(batch)
  <2>1. batch' = batch /\ pos' = pos + 1 /\ pc' = each
    BY <1>1 DEF NextMessage
  <2>2. Distinct' /\ batch' \in Seq(MsgIds) /\ pos' \in Nat \ {0} /\ InBatch'
    BY <1>1, <2>1 DEF DeliveryInv, Distinct, TypeOKLoop, InBatch
  <2>3. Uniform => Covered'
    <3> SUFFICES ASSUME Uniform, NEW i \in (pos + 1)..Len(batch), NEW m \in MsgIds, m < batch[i]
                 PROVE  m \in attempted' \/ \E j \in (pos + 1)..(i - 1) : batch[j] = m
      BY <2>1 DEF Covered, MsgIds
    <3>1. i \in pos..Len(batch) /\ pos \in Int
      BY DEF TypeOKLoop
    <3>2. m \in attempted \/ \E j \in pos..(i - 1) : batch[j] = m
      BY <3>1 DEF DeliveryInv, Covered
    <3>3. QED
      BY <3>1, <3>2 DEF Current
  <2>4. QED
    BY <2>2, <2>3
<1>2. CASE ~ (pos < Len(batch))
  <2>1. batch' = <<>> /\ pos' = 1 /\ pc' = top
    BY <1>2 DEF NextMessage
  <2>2. QED
    BY <2>1 DEF Distinct, Covered
<1>3. QED
  BY <1>1, <1>2

(* When the loop acknowledges a message, all up to it has been attempted.    *)
LEMMA CurrentCovered ==
  ASSUME TypeOKLoop, DeliveryInv, InBatch, Current \in attempted
  PROVE  Current \in MsgIds /\ (Uniform => \A k \in 1..Current : k \in attempted)
<1>1. Current \in MsgIds /\ pos \in pos..Len(batch) /\ pos \in Int
  BY DEF TypeOKLoop, InBatch, Current
<1>2. SUFFICES ASSUME Uniform, NEW k \in 1..Current, k # Current
               PROVE  k \in attempted
  BY <1>1
<1>3. k \in MsgIds /\ k < Current
  BY <1>1, <1>2 DEF MsgIds, TypeOKLoop
<1>4. k \in attempted \/ \E j \in pos..(pos - 1) : batch[j] = k
  BY <1>1, <1>2, <1>3 DEF DeliveryInv, Covered, Current
<1>5. QED
  BY <1>1, <1>4

(* Applying an ACK of a handled and covered message keeps the group's part.  *)
LEMMA AdvanceKeeps ==
  ASSUME TypeOKLoop, DeliveryInv, NEW m \in MsgIds, m \in handled,
         Uniform => \A k \in 1..m : k \in attempted,
         offset' = Advanced(m), UNCHANGED <<log, attempted, handled>>
  PROVE  /\ offset' \in 1..Len(log) + 1
         /\ Uniform => NothingSkipped'
         /\ offset' > 1 => offset' - 1 \in handled
<1>1. m \in 1..Len(log) /\ offset \in 1..Len(log) + 1 /\ Len(log) \in Nat
  BY DEF TypeOKLoop, MsgIds
<1>2. CASE m >= offset
  BY <1>1, <1>2 DEF Advanced, NothingSkipped, MsgIds
<1>3. CASE ~ (m >= offset)
  BY <1>1, <1>3 DEF Advanced, NothingSkipped, DeliveryInv, AckedWasHandled, MsgIds
<1>4. QED
  BY <1>2, <1>3

(* The environment's steps: a send, an ACK applied in time or late.          *)
LEMMA BrokerKeeps ==
  ASSUME TypeOKLoop, DeliveryInv, ack # "none" => InBatch, Broker
  PROVE  TypeOKLoop' /\ DeliveryInv'
<1>1. CASE Produce
  <2>1. PICK p \in Priorities : log' = Append(log, p)
    BY <1>1 DEF Produce, Send
  <2>2. UNCHANGED <<offset, late, pc, batch, pos, ack, count, running, stop,
                    attempted, handled, repeated, counted>>
    BY <1>1 DEF Produce, Send, history
  <2>3. Len(log') = Len(log) + 1 /\ log' \in Seq(Priorities) /\ Len(log) \in Nat
    BY <2>1 DEF TypeOKLoop
  <2>4. MsgIds \subseteq MsgIds' /\ (\A m \in MsgIds' : m \in MsgIds \/ m = Len(log) + 1)
    BY <2>3 DEF MsgIds
  <2>5. batch \in Seq(MsgIds')
    BY <2>4 DEF TypeOKLoop
  <2>6. TypeOKLoop'
    BY <2>2, <2>3, <2>4, <2>5 DEF TypeOKLoop
  <2>7. Uniform => NothingSkipped'
    BY <2>2, <2>3, <2>4 DEF NothingSkipped, DeliveryInv, TypeOKLoop
  <2>8. Uniform => Covered'
    <3>1. \A i \in pos..Len(batch) : batch[i] \in 1..Len(log)
      BY DEF TypeOKLoop, MsgIds
    <3>2. \A i \in pos..Len(batch) : ~ (Len(log) + 1 < batch[i])
      BY <2>3, <3>1
    <3>3. QED
      BY <2>2, <2>4, <3>2 DEF Covered, DeliveryInv
  <2>9. QED
    BY <2>2, <2>6, <2>7, <2>8
    DEF DeliveryInv, AckedWasHandled, Distinct, LateCovered, Current
<1>2. CASE BrokerAck
  <2>1. UNCHANGED <<log, late, pc, batch, pos, count, running, stop,
                    attempted, handled, repeated, counted>>
        /\ ack = "sent" /\ ack' = "applied" /\ offset' = Advanced(Current)
    BY <1>2 DEF BrokerAck, history
  <2>2. Current \in handled /\ Current \in attempted
    BY <2>1 DEF DeliveryInv, AckedWasHandled, TypeOKLoop
  <2>3. Current \in MsgIds /\ (Uniform => \A k \in 1..Current : k \in attempted)
    BY <2>1, <2>2, CurrentCovered
  <2>4. /\ offset' \in 1..Len(log) + 1
        /\ Uniform => NothingSkipped'
        /\ offset' > 1 => offset' - 1 \in handled
    BY <2>1, <2>2, <2>3, AdvanceKeeps
  <2>5. TypeOKLoop'
    BY <2>1, <2>4 DEF TypeOKLoop, MsgIds
  <2>6. QED
    BY <2>1, <2>2, <2>4, <2>5
    DEF DeliveryInv, AckedWasHandled, Distinct, Covered, LateCovered, Current, MsgIds
<1>3. CASE BrokerLateAck
  <2>1. PICK m \in late : offset' = Advanced(m) /\ late' = late \ {m}
    BY <1>3 DEF BrokerLateAck, LateAck
  <2>2. UNCHANGED <<log, pc, batch, pos, ack, count, running, stop,
                    attempted, handled, repeated, counted>>
    BY <1>3 DEF BrokerLateAck, LateAck, history
  <2>3. m \in MsgIds /\ m \in handled /\ (Uniform => \A k \in 1..m : k \in attempted)
    BY DEF DeliveryInv, AckedWasHandled, LateCovered, TypeOKLoop
  <2>4. /\ offset' \in 1..Len(log) + 1
        /\ Uniform => NothingSkipped'
        /\ offset' > 1 => offset' - 1 \in handled
    BY <2>1, <2>2, <2>3, AdvanceKeeps
  <2>5. TypeOKLoop'
    BY <2>1, <2>2, <2>4 DEF TypeOKLoop, MsgIds
  <2>6. QED
    BY <2>1, <2>2, <2>4, <2>5
    DEF DeliveryInv, AckedWasHandled, Distinct, Covered, LateCovered, Current, MsgIds
<1>4. QED
  BY <1>1, <1>2, <1>3 DEF Broker

(* Giving up an ACK moves it among the late ones, which are covered.         *)
LEMMA AbandonKeeps ==
  ASSUME TypeOKLoop, DeliveryInv, ack # "none" => InBatch,
         AbandonAck, UNCHANGED <<log, offset, attempted, handled>>
  PROVE  /\ late' \subseteq MsgIds /\ AckedWasHandled'
         /\ Uniform => NothingSkipped' /\ LateCovered'
<1>1. CASE ack = "sent"
  <2>1. Current \in handled /\ Current \in attempted
    BY <1>1 DEF DeliveryInv, AckedWasHandled, TypeOKLoop
  <2>2. Current \in MsgIds /\ (Uniform => \A k \in 1..Current : k \in attempted)
    BY <1>1, <2>1, CurrentCovered
  <2>3. late' = late \cup {Current} /\ ack' = "none"
    BY <1>1 DEF AbandonAck
  <2>4. QED
    BY <2>1, <2>2, <2>3
    DEF DeliveryInv, NothingSkipped, AckedWasHandled, LateCovered, TypeOKLoop, MsgIds
<1>2. CASE ack # "sent"
  BY <1>2
  DEF AbandonAck, DeliveryInv, NothingSkipped, AckedWasHandled, LateCovered,
      TypeOKLoop, MsgIds
<1>3. QED
  BY <1>1, <1>2

(* A new loop starts with an empty batch.                                    *)
LEMMA StartKeeps ==
  ASSUME TypeOKLoop, DeliveryInv, NEW entry, StartLoop(entry)
  PROVE  TypeOKLoop' /\ DeliveryInv'
BY ConsumeAssumption
DEF StartLoop, TypeOKLoop, DeliveryInv, NothingSkipped, AckedWasHandled, Distinct,
    Covered, LateCovered, mailboxVars, history, MsgIds

(* A crash empties the loop and abandons its ACK.                            *)
LEMMA CrashKeeps ==
  ASSUME TypeOKLoop, DeliveryInv, ack # "none" => InBatch, Crash
  PROVE  TypeOKLoop' /\ DeliveryInv'
<1>1. /\ UNCHANGED <<log, offset, attempted, handled, repeated, counted>>
      /\ batch' = <<>> /\ pos' = 1 /\ count' = 0 /\ running' = FALSE /\ stop' = "none"
      /\ AbandonAck /\ ack' = "none"
  BY DEF Crash, history, AbandonAck
<1>2. /\ late' \subseteq MsgIds /\ AckedWasHandled'
      /\ Uniform => NothingSkipped' /\ LateCovered'
  BY <1>1, AbandonKeeps
<1>3. Distinct' /\ Covered'
  BY <1>1 DEF Distinct, Covered
<1>4. TypeOKLoop'
  <2>1. batch' \in Seq(MsgIds') /\ pos' \in Nat \ {0} /\ count' \in 0..MaxCount
    BY <1>1, ConsumeAssumption
  <2>2. late' \subseteq MsgIds' /\ MsgIds' = MsgIds
    BY <1>1, <1>2 DEF MsgIds
  <2>3. QED
    BY <1>1, <2>1, <2>2 DEF TypeOKLoop
<1>5. QED
  BY <1>2, <1>3, <1>4 DEF DeliveryInv

(* The handler of the current message ended: history grows, nothing else of  *)
(* what the invariant speaks of moves.                                       *)
LEMMA HandledKeeps ==
  ASSUME TypeOKLoop, DeliveryInv, InBatch, ack = "none",
         HandlerReturned \/ HandlerFailed,
         UNCHANGED mailboxVars,
         ack' = "none" \/ (HandlerReturned /\ UNCHANGED <<batch, pos>>)
  PROVE  /\ attempted' \subseteq MsgIds /\ handled' \subseteq attempted'
         /\ repeated' \subseteq handled' /\ attempted \subseteq attempted'
         /\ handled \subseteq handled' /\ Current \in attempted'
         /\ AckedWasHandled' /\ (Uniform => NothingSkipped' /\ LateCovered')
<1>1. Current \in MsgIds
  BY DEF TypeOKLoop, InBatch, Current
<1>2. /\ attempted' = attempted \cup {Current}
      /\ handled' \in {handled, handled \cup {Current}}
      /\ repeated' \in {repeated, repeated \cup ({Current} \cap handled)}
      /\ HandlerReturned => Current \in handled'
  BY DEF HandlerReturned, HandlerFailed
<1>3. QED
  BY <1>1, <1>2
  DEF TypeOKLoop, DeliveryInv, NothingSkipped, AckedWasHandled, LateCovered,
      mailboxVars, MsgIds, Current

(* The broker's steps send or advance in the contract's sense, or stutter.   *)
LEMMA BrokerImplements ==
  ASSUME TypeOKLoop, Uniform, DeliveryInv, ack # "none" => InBatch, Broker
  PROVE  [Contract!Next]_(Contract!contractVars)
<1>1. CASE Produce
  <2>1. PICK p \in Priorities : log' = Append(log, p)
    BY <1>1 DEF Produce, Send
  <2>2. UNCHANGED <<offset, attempted, handled>> /\ Len(log') = Len(log) + 1
    BY <1>1, <2>1 DEF Produce, Send, history, TypeOKLoop
  <2>3. QED
    BY <2>2 DEF Contract!Next, Contract!Send
<1>2. ASSUME NEW m \in MsgIds, m \in handled, \A k \in 1..m : k \in attempted,
             offset' = Advanced(m), UNCHANGED <<log, attempted, handled>>
      PROVE  [Contract!Next]_(Contract!contractVars)
  <2>1. CASE m >= offset
    BY <1>2, <2>1 DEF Contract!Next, Contract!Advance, Advanced, MsgIds
  <2>2. CASE ~ (m >= offset)
    BY <1>2, <2>2 DEF Contract!contractVars, Advanced
  <2>3. QED
    BY <2>1, <2>2
<1>3. CASE BrokerAck
  <2>1. ack = "sent" /\ offset' = Advanced(Current) /\ UNCHANGED <<log, attempted, handled>>
    BY <1>3 DEF BrokerAck, history
  <2>2. Current \in handled /\ Current \in attempted
    BY <2>1 DEF DeliveryInv, AckedWasHandled, TypeOKLoop
  <2>3. Current \in MsgIds /\ (Uniform => \A k \in 1..Current : k \in attempted)
    BY <2>1, <2>2, CurrentCovered
  <2>4. QED
    BY <1>2, <2>1, <2>2, <2>3
<1>4. CASE BrokerLateAck
  <2>1. PICK m \in late : offset' = Advanced(m)
    BY <1>4 DEF BrokerLateAck, LateAck
  <2>2. UNCHANGED <<log, attempted, handled>>
    BY <1>4 DEF BrokerLateAck, LateAck, history
  <2>3. m \in MsgIds /\ m \in handled /\ (Uniform => \A k \in 1..m : k \in attempted)
    BY DEF DeliveryInv, AckedWasHandled, LateCovered, TypeOKLoop
  <2>4. QED
    BY <1>2, <2>1, <2>2, <2>3
<1>5. QED
  BY <1>1, <1>3, <1>4 DEF Broker

(* The end of a handler is an attempt in the contract's sense.               *)
LEMMA HandlerImplements ==
  ASSUME TypeOKLoop, InBatch, HandlerReturned \/ HandlerFailed, UNCHANGED <<log, offset>>
  PROVE  Contract!Next
<1>1. Current \in 1..Len(log)
  BY DEF TypeOKLoop, InBatch, Current, MsgIds
<1>2. Contract!Attempt(Current)
  BY DEF Contract!Attempt, HandlerReturned, HandlerFailed
<1>3. QED
  BY <1>1, <1>2 DEF Contract!Next

(* Any other step stutters there.                                            *)
LEMMA OthersImplement ==
  ASSUME UNCHANGED <<log, offset, attempted, handled>>
  PROVE  UNCHANGED Contract!contractVars
BY DEF Contract!contractVars
=============================================================================
