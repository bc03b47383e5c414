-------------------------- MODULE DeliveryContract ---------------------------
(* What a consume loop promises to the users of one consumer group: messages *)
(* reach a handler in any order and as often as it takes, and the offset of  *)
(* the group moves only to just past a message that was handled, when        *)
(* everything before it has been in a handler's hands.                       *)
EXTENDS Integers

VARIABLES
  sent,       \* how many messages the mailbox holds
  offset,     \* the first message the group has not got past
  attempted,  \* messages a handler has seen to the end, failing or not
  handled     \* messages a handler has dealt with

contractVars == <<sent, offset, attempted, handled>>

Init == sent = 0 /\ offset = 1 /\ attempted = {} /\ handled = {}

Send ==
  /\ sent' = sent + 1
  /\ UNCHANGED <<offset, attempted, handled>>

Attempt(m) ==
  /\ attempted' = attempted \cup {m}
  /\ handled' \in {handled, handled \cup {m}}
  /\ UNCHANGED <<sent, offset>>

Advance(m) ==
  /\ m >= offset
  /\ m \in handled
  /\ \A k \in 1..m : k \in attempted
  /\ offset' = m + 1
  /\ UNCHANGED <<sent, attempted, handled>>

Next == Send \/ \E m \in 1..sent : Attempt(m) \/ Advance(m)

Spec == Init /\ [][Next]_contractVars
=============================================================================
