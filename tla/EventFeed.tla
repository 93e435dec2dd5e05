------------------------------ MODULE EventFeed ------------------------------
(***************************************************************************)
(* What a digest promises its reader: events are numbered, and deliveries  *)
(* hand them out in order, each once, none skipped.  An event published    *)
(* late still comes after everything that was delivered.                   *)
(***************************************************************************)
EXTENDS Naturals

CONSTANT Events

VARIABLES
  number,  \* number[e]: the place of a published event, 0 before
  sent     \* the events delivered

Init == number = [e \in Events |-> 0] /\ sent = {}

Published == {e \in Events : number[e] # 0}

Publish(e) ==
  /\ e \notin Published
  /\ number'[e] \in Nat \ {0}
  /\ number' = [number EXCEPT ![e] = number'[e]]
  /\ \A d \in sent : number[d] < number'[e]
  /\ UNCHANGED sent

(* A delivery is a prefix of what was not delivered yet.                   *)
Deliver(S) ==
  /\ \A e \in S : \A f \in Published \ sent : number[f] <= number[e] => f \in S
  /\ sent' = sent \cup S
  /\ UNCHANGED number

Next ==
  \/ \E e \in Events : Publish(e)
  \/ \E S \in SUBSET (Published \ sent) : Deliver(S)

Spec == Init /\ [][Next]_<<number, sent>>
=============================================================================
