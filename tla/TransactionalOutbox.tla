------------------------- MODULE TransactionalOutbox -------------------------
(***************************************************************************)
(* What a transactional outbox promises to the owner of a transaction: the *)
(* events accepted while the transaction is open become visible together   *)
(* with its business writes, in one step, or never.                        *)
(*                                                                         *)
(* The promise of the documentation ("event and business writes commit     *)
(* together"), stated without statements, rows, locks and error codes.     *)
(***************************************************************************)
CONSTANT Tx

VARIABLES
  work,       \* the business writes of each transaction
  accepted,   \* the events the owner was told are part of the transaction
  uncertain,  \* the events whose calls the owner gave up on
  published   \* the events consumers can see

vars == <<work, accepted, uncertain, published>>

UniqueIds(events) == \A e, f \in events : e.event_id = f.event_id => e = f

Init ==
  /\ work      = [t \in Tx |-> "pending"]
  /\ accepted  = [t \in Tx |-> {}]
  /\ uncertain = [t \in Tx |-> {}]
  /\ published = {}

\* The owner learns of calls: what was accepted is never taken back.
Learn(t) ==
  /\ work[t] = "pending"
  /\ accepted[t] \subseteq accepted'[t]
  /\ accepted' = [accepted EXCEPT ![t] = accepted'[t]]
  /\ uncertain' = [uncertain EXCEPT ![t] = uncertain'[t]]
  /\ UNCHANGED <<work, published>>

\* The business writes and the accepted events become visible together.
Publish(t) ==
  /\ work[t] = "pending"
  /\ work' = [work EXCEPT ![t] = "done"]
  /\ published' = published \cup accepted[t]
                    \cup (published' \cap uncertain[t])
  /\ UniqueIds(published')
  /\ UNCHANGED <<accepted, uncertain>>

\* Neither ever does.
Discard(t) ==
  /\ work[t] = "pending"
  /\ work' = [work EXCEPT ![t] = "gone"]
  /\ uncertain' = [uncertain EXCEPT ![t] = uncertain'[t]]
  /\ UNCHANGED <<accepted, published>>

Next == \E t \in Tx : Learn(t) \/ Publish(t) \/ Discard(t)

Spec == Init /\ [][Next]_vars

=============================================================================
