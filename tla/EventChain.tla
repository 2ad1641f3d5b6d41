----------------------------- MODULE EventChain -----------------------------
(***************************************************************************)
(* The parts composed as they are meant to be: an application publishes    *)
(* orders, the dispatcher posts each to the receiver that ships it, and    *)
(* the receiver's handler, before it answers, publishes a follow-up event. *)
(*                                                                         *)
(* Requests are repeated: by the dispatcher, when it had no answer in time *)
(* or a transient failure, and by the network.  Many handlers may be at    *)
(* work for one order.  The handler is not in this repository.  It uses    *)
(* what the documentation offers it: event_id is an idempotency key, so    *)
(* the follow-up is appended with an id derived from it (append_with_id),  *)
(* DuplicateEventId means that it was published before, and the context    *)
(* of the follow-up carries causation_id and correlation_id on.            *)
(***************************************************************************)
EXTENDS Callers, EventContext

CONSTANTS
  Placed,      \* the orders the application publishes
  About,       \* what each one's context is to say
  Derived,     \* the id of the follow-up, derived from an event's id
  MaxAttempts  \* bound: how often the dispatcher tries

IsOption(o) == o = None \/ o = Some(o[1])

\* The id of the saga: the correlation id of the event, or else its own id.
Saga(event_id, correlation_id) ==
  IF correlation_id = None THEN event_id ELSE correlation_id[1]

\* What is to be told of an order, and of the shipping it is the cause of.
AsTold(order) ==
  [event          |-> [kind |-> "placed", order |-> order],
   metadata       |-> About[order].metadata,
   callbacks      |-> About[order].callbacks,
   actor_id       |-> About[order].actor_id,
   correlation_id |-> About[order].correlation_id,
   causation_id   |-> None]

Traced(event_id, item) ==
  [event          |-> [kind |-> "shipped", order |-> item.event.order],
   metadata       |-> item.metadata,
   callbacks      |-> <<"mail">>,
   actor_id       |-> item.actor_id,
   correlation_id |-> Some(Saga(event_id, item.correlation_id)),
   causation_id   |-> Some(event_id)]

ASSUME ChainAssumption ==
  /\ NoCallbacks = {row \in Item : row.callbacks = <<>>}
  /\ \A order \in Placed : /\ AsTold(order) \in Item
                            /\ IsOption(About[order].actor_id)
                            /\ IsOption(About[order].correlation_id)
  /\ \A id \in 1..MaxMint, row \in Item : Traced(id, row) \in Item
  /\ Derived \in [1..MaxMint -> Key]
  /\ \A i, j \in 1..MaxMint : Derived[i] = Derived[j] => i = j
  /\ MaxAttempts \in Nat

VARIABLES
  delivery,  \* the state of each event's delivery to the shipping receiver
  attempts,  \* how often each was sent
  requests,  \* the envelopes sent: the network may deliver each again
  serving    \* the envelope each handler was called with

chainVars == <<delivery, attempts, requests, serving>>
allVars   == <<vars, callerVars, chainVars>>

Handler == Tx \ Emitter

\* No envelope.
Nothing == [event_id |-> 0]

-----------------------------------------------------------------------------
(* The application *)

\* The context of an order.  Metadata and callbacks given twice replace those
\* given before; an id that is not known is not given.
Context(order) ==
  LET a     == About[order]
      draft == with_callbacks(with_metadata(default, {"draft"}), <<"draft">>)
      base  == with_callbacks(with_metadata(draft, a.metadata), a.callbacks)
      saga  == IF a.correlation_id = None THEN base
               ELSE with_correlation(base, a.correlation_id[1])
  IN  IF a.actor_id = None THEN saga ELSE for_actor(saga, a.actor_id[1])

Pair(order) == [event |-> [kind |-> "placed", order |-> order],
                ctx   |-> Context(order)]

\* An order is published by append, or several by append_batch.
Publish(r) ==
  /\ r \in Emitter
  /\ \/ \E order \in Placed :
          Enter(r, <<Columns(Pair(order).event, Pair(order).ctx)>>)
     \/ \E n \in 2..MaxBatch : \E orders \in [1..n -> Placed] :
          /\ IsInjective(orders)
          /\ Enter(r, Unnest(Vectors([i \in 1..n |-> Pair(orders[i])])))
  /\ UNCHANGED chainVars

-----------------------------------------------------------------------------
(* The dispatcher *)

\* A delivery is tried: the envelope is posted.
Dispatch(row) ==
  /\ "ship" \in Range(row.item.callbacks)
  /\ delivery[row.event_id] = "pending"
  /\ attempts[row.event_id] < MaxAttempts
  /\ delivery' = [delivery EXCEPT ![row.event_id] = "awaiting"]
  /\ attempts' = [attempts EXCEPT ![row.event_id] = @ + 1]
  /\ requests' = requests \cup
       {Envelope(row.event_id, row.item, "ship", attempts[row.event_id] + 1)}
  /\ UNCHANGED <<vars, callerVars, serving>>

\* The handler's answer: 2xx if the follow-up is published, by it or before.
Succeeded(h) == at[h] = "ok" \/ dup[h] # {}

\* Mutant: an answer is taken although the delivery is over.
Respond_Late(h) ==
  /\ at[h] \in Outcome \ {"gone"}
  /\ LET id == serving[h].event_id
     IN  /\ serving[h] # Nothing
         /\ attempts[id] = serving[h].attempt
         /\ delivery' =
              [delivery EXCEPT ![id] = IF Succeeded(h) THEN "done" ELSE "pending"]
  /\ UNCHANGED <<vars, callerVars, attempts, requests, serving>>

\* The answer to the current attempt arrives.
Respond(h) ==
  /\ at[h] \in Outcome \ {"gone"}
  /\ LET id == serving[h].event_id
     IN  /\ serving[h] # Nothing
         /\ delivery[id] = "awaiting"
         /\ attempts[id] = serving[h].attempt
         /\ delivery' =
              [delivery EXCEPT ![id] = IF Succeeded(h) THEN "done" ELSE "pending"]
  /\ UNCHANGED <<vars, callerVars, attempts, requests, serving>>

\* No answer arrives in time.
TimedOut(id) ==
  /\ delivery[id] = "awaiting"
  /\ delivery' = [delivery EXCEPT ![id] = "pending"]
  /\ UNCHANGED <<vars, callerVars, attempts, requests, serving>>

-----------------------------------------------------------------------------
(* The receiver *)

\* The context of the follow-up.
FollowUp(env) ==
  LET base   == with_metadata(with_callbacks(default, <<"mail">>), env.metadata)
      traced == with_correlation(with_causation(base, env.event_id),
                                 Saga(env.event_id, env.correlation_id))
  IN  IF env.actor_id = None THEN traced
      ELSE for_actor(traced, env.actor_id[1])

\* A request reaches the handler, which begins with the follow-up.
Receive(h) ==
  /\ h \in Handler
  /\ \E env \in requests :
       /\ Enter(h, <<Columns([kind |-> "shipped", order |-> env.event.order],
                             FollowUp(env))>>)
       /\ serving' = [serving EXCEPT ![h] = env]
  /\ UNCHANGED <<delivery, attempts, requests>>

\* What the application and the handlers do as callers of the publisher.
Work(r) ==
  /\ \/ r \in Emitter /\ CallMinted(r)
     \/ r \in Handler /\ CallWithId(r, Derived[serving[r].event_id])
     \/ Proceed(r)
  /\ UNCHANGED chainVars

-----------------------------------------------------------------------------
ChainInit ==
  /\ CallersInit
  /\ delivery = [id \in 1..MaxMint |-> "pending"]
  /\ attempts = [id \in 1..MaxMint |-> 0]
  /\ requests = {}
  /\ serving  = [h \in Tx |-> Nothing]

ChainNext ==
  \/ \E r \in Tx : Publish(r) \/ Receive(r) \/ Respond(r) \/ Work(r)
  \/ \E row \in outbox : Dispatch(row)
  \/ \E id \in 1..MaxMint : TimedOut(id)

ChainSpec == ChainInit /\ [][ChainNext]_allVars

-----------------------------------------------------------------------------
(* Properties *)

FollowUps(id) == {row \in outbox : row.item.causation_id = Some(id)}

ChainTypeOK ==
  /\ TypeOK
  /\ at \in [Tx -> {"absent"} \cup Awaiting \cup Outcome]
  /\ asked \in [Tx -> Seq(Item)]
  /\ delivery \in [1..MaxMint -> {"pending", "awaiting", "done"}]
  /\ attempts \in [1..MaxMint -> 0..MaxAttempts]
  /\ \A env \in requests : env.event_id \in 1..MaxMint
  /\ serving \in [Tx -> requests \cup {Nothing}]

\* The row of an order, and so every envelope made of it, says of the order
\* what its publisher said last, whichever method published it and whatever
\* the contexts beside it in a batch.
RowSaysAsTold ==
  \A row \in outbox :
    row.item.event.kind = "placed" => row.item = AsTold(row.item.event.order)

\* The trace of a follow-up leads back: its cause is in the outbox, with a
\* smaller id, about the same order, by the same actor, in the same saga.
TraceLeadsBack ==
  \A row \in outbox : row.item.event.kind = "shipped" =>
    \E cause \in outbox : /\ cause.id < row.id
                          /\ cause.item.event.kind = "placed"
                          /\ row.item = Traced(cause.event_id, cause.item)

\* However often the request is delivered and handled, one after the other or
\* at a time, with its answers lost or its commits unanswered, an event has at
\* most one follow-up.
FollowedUpOnce ==
  \A id \in 1..MaxMint : \A r, s \in FollowUps(id) : r = s

\* A delivery is done only if the follow-up is in the outbox: neither the
\* error of a handler that lost the race, nor a commit that failed, passes
\* for success.
DoneIsFollowedUp ==
  \A id \in 1..MaxMint : delivery[id] = "done" => FollowUps(id) # {}

-----------------------------------------------------------------------------
(* The promise of the chain, kept by its parts together *)

Placements == {row \in outbox : row.item.event.kind = "placed"}

Promise == INSTANCE Fulfilment WITH
  Id        <- 1..MaxMint,
  placed    <- {row.event_id : row \in Placements},
  followUps <- [id \in 1..MaxMint |-> Cardinality(FollowUps(id))],
  closed    <- {id \in 1..MaxMint : delivery[id] = "done"}

\* Whatever is lost, repeated, late or dropped between them, publisher,
\* dispatcher and handlers together do no more than place orders, follow each
\* up once, and close those that were: no step takes an order or a follow-up
\* back, opens a delivery that was done, or does two of these at a time.
ImplementsFulfilment == Promise!Spec

=============================================================================
