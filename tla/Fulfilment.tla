----------------------------- MODULE Fulfilment -----------------------------
(***************************************************************************)
(* What a chain of events promises to those who read the outbox: an order, *)
(* once visible, stays so; it is followed up once, after it was placed and *)
(* however often its request is repeated; and it is closed, for good, only *)
(* after that.                                                             *)
(*                                                                         *)
(* Stated without calls, transactions, handlers, attempts and requests.    *)
(***************************************************************************)
EXTENDS Naturals

CONSTANT Id

VARIABLES
  placed,     \* the ids of the orders that are visible
  followUps,  \* how many follow-ups each id has
  closed      \* the ids whose delivery is over

vars == <<placed, followUps, closed>>

Init ==
  /\ placed = {}
  /\ followUps = [id \in Id |-> 0]
  /\ closed = {}

\* Orders become visible, those of a batch together.
Place ==
  /\ placed' \in SUBSET Id
  /\ placed \subseteq placed'
  /\ UNCHANGED <<followUps, closed>>

\* One order is followed up.
FollowUp(id) ==
  /\ id \in placed
  /\ followUps[id] = 0
  /\ followUps' = [followUps EXCEPT ![id] = 1]
  /\ UNCHANGED <<placed, closed>>

\* One order is closed.
Close(id) ==
  /\ followUps[id] = 1
  /\ closed' = closed \cup {id}
  /\ UNCHANGED <<placed, followUps>>

Next == Place \/ \E id \in Id : FollowUp(id) \/ Close(id)

Spec == Init /\ [][Next]_vars

=============================================================================
