--------------------------- MODULE EventChainProofs ---------------------------
(***************************************************************************)
(* Theorems about EventChain: for any orders, any number of handlers, any  *)
(* attempts and any order in which requests are delivered, repeated and    *)
(* answered, an order is shipped once, and the trace of the events holds.  *)
(***************************************************************************)
EXTENDS EventChain, CallersProofs, FiniteSetTheorems

-----------------------------------------------------------------------------
(* What the rows say *)

\* The row of an order published by append says what is to be told of it.
LEMMA OrderTold ==
  ASSUME NEW order \in Placed
  PROVE  Columns(Pair(order).event, Pair(order).ctx) = AsTold(order)
<1>1. /\ IsOption(About[order].actor_id)
      /\ IsOption(About[order].correlation_id)
  BY ChainAssumption
<1>2. /\ Pair(order).event = [kind |-> "placed", order |-> order]
      /\ Pair(order).ctx = Context(order)
  BY DEF Pair
<1>3. /\ Context(order).metadata = About[order].metadata
      /\ Context(order).callbacks = About[order].callbacks
      /\ Context(order).causation_id = None
  BY DEF Context, default, with_callbacks, with_metadata, with_correlation,
         for_actor
<1>4. /\ Context(order).actor_id = About[order].actor_id
      /\ Context(order).correlation_id = About[order].correlation_id
  BY <1>1 DEF IsOption, Some, Context, default, with_callbacks, with_metadata,
         with_correlation, for_actor
<1> QED
  BY <1>2, <1>3, <1>4 DEF Columns, AsTold

\* Side by side in a batch, each order has the columns it would have alone.
LEMMA BatchTold ==
  ASSUME NEW n \in Nat, NEW orders \in [1..n -> Placed]
  PROVE  LET rows == Unnest(Vectors([i \in 1..n |-> Pair(orders[i])]))
         IN  /\ rows = [i \in 1..n |-> AsTold(orders[i])]
             /\ rows \in Seq(Item)
<1> DEFINE batch == [i \in 1..n |-> Pair(orders[i])]
           vectors == Vectors(batch)
           rows == Unnest(vectors)
<1>1. ASSUME NEW c \in Column
      PROVE  /\ DOMAIN vectors[c] = 1..n
             /\ \A i \in 1..n : vectors[c][i] =
                  IF c = "event" THEN batch[i].event ELSE batch[i].ctx[c]
  BY <1>1 DEF Vectors
<1>2. rows = [i \in 1..n |-> [c \in Column |-> vectors[c][i]]]
  <2>1. "event" \in Column
    BY DEF Column
  <2> HIDE DEF vectors
  <2> QED
    BY <1>1, <2>1 DEF Unnest
<1>3. ASSUME NEW i \in 1..n
      PROVE  [c \in Column |-> vectors[c][i]] = AsTold(orders[i])
  <2> DEFINE p == Pair(orders[i])
             row == [c \in Column |-> vectors[c][i]]
  <2>1. \A c \in Column : row[c] = IF c = "event" THEN p.event ELSE p.ctx[c]
    BY <1>1, <1>3
  <2>2. Columns(p.event, p.ctx) = AsTold(orders[i])
    BY <1>3, OrderTold
  <2>3. /\ row.event = AsTold(orders[i]).event
        /\ row.metadata = AsTold(orders[i]).metadata
        /\ row.callbacks = AsTold(orders[i]).callbacks
        /\ row.actor_id = AsTold(orders[i]).actor_id
        /\ row.correlation_id = AsTold(orders[i]).correlation_id
        /\ row.causation_id = AsTold(orders[i]).causation_id
    <3>1. \A c \in Column : row[c] = Columns(p.event, p.ctx)[c]
      <4> HIDE DEF row, p
      <4> QED
        BY <2>1 DEF Column, Columns
    <3> HIDE DEF row, p
    <3> QED
      BY <2>2, <3>1 DEF Column
  <2>4. row = [event |-> row.event, metadata |-> row.metadata,
               callbacks |-> row.callbacks, actor_id |-> row.actor_id,
               correlation_id |-> row.correlation_id,
               causation_id |-> row.causation_id]
    <3> HIDE DEF vectors
    <3> QED
      BY DEF Column
  <2>5. AsTold(orders[i]) =
          [event |-> row.event, metadata |-> row.metadata,
           callbacks |-> row.callbacks, actor_id |-> row.actor_id,
           correlation_id |-> row.correlation_id,
           causation_id |-> row.causation_id]
    <3> HIDE DEF row
    <3> QED
      BY <2>3 DEF AsTold
  <2> QED
    BY <2>4, <2>5
<1>4. rows = [i \in 1..n |-> AsTold(orders[i])]
  <2> HIDE DEF rows, vectors
  <2> QED
    BY <1>2, <1>3
<1>5. rows \in Seq(Item)
  <2>1. \A i \in 1..n : AsTold(orders[i]) \in Item
    BY ChainAssumption
  <2> HIDE DEF rows
  <2> QED
    BY <1>4, <2>1
<1> QED
  BY <1>4, <1>5

\* The follow-up of an envelope says what is to be told of its cause.
LEMMA FollowUpTold ==
  ASSUME NEW order \in Placed, NEW id, NEW attempt
  PROVE  LET env == Envelope(id, AsTold(order), "ship", attempt)
         IN  Columns([kind |-> "shipped", order |-> env.event.order],
                     FollowUp(env)) = Traced(id, AsTold(order))
<1> DEFINE env == Envelope(id, AsTold(order), "ship", attempt)
<1>1. IsOption(About[order].actor_id)
  BY ChainAssumption
<1>2. /\ env.event_id = id /\ env.event.order = order
      /\ env.metadata = About[order].metadata
      /\ env.actor_id = About[order].actor_id
      /\ env.correlation_id = About[order].correlation_id
  BY DEF Envelope, AsTold
<1> HIDE DEF env
<1>3. /\ FollowUp(env).metadata = About[order].metadata
      /\ FollowUp(env).callbacks = <<"mail">>
      /\ FollowUp(env).causation_id = Some(id)
      /\ FollowUp(env).correlation_id =
           Some(Saga(id, About[order].correlation_id))
  BY <1>2 DEF FollowUp, default, with_callbacks, with_metadata,
         with_correlation, with_causation, for_actor
<1>4. FollowUp(env).actor_id = About[order].actor_id
  BY <1>1, <1>2 DEF IsOption, Some, FollowUp, default, with_callbacks,
         with_metadata, with_correlation, with_causation, for_actor
<1> QED
  BY <1>2, <1>3, <1>4 DEF Columns, Traced, AsTold, env

-----------------------------------------------------------------------------
(* The inductive invariant *)

\* The row is that of an order.
Cause(row) ==
  /\ row \in outbox
  /\ row.event_id \in 1..mint
  /\ \E order \in Placed : row.item = AsTold(order)

\* The row is the follow-up of the cause.
Follows(row, cause) ==
  /\ Cause(cause)
  /\ cause.id < row.id
  /\ row.item = Traced(cause.event_id, cause.item)
  /\ row.event_id = Derived[cause.event_id]

\* Every row is that of an order, or of the follow-up of one.
Provenance ==
  \A row \in outbox : Cause(row) \/ \E cause \in outbox : Follows(row, cause)

\* Every request is made of the row of an order.
Posted ==
  \A env \in requests : \E cause \in outbox : \E n \in Nat :
    Cause(cause) /\ env = Envelope(cause.event_id, cause.item, "ship", n)

\* The application sends orders, with ids minted for them.
Applied ==
  \A r \in Emitter :
    /\ serving[r] = Nothing
    /\ \A i \in DOMAIN asked[r] :
         \E order \in Placed : asked[r][i] = AsTold(order)
    /\ \A i \in DOMAIN sent[r] : sent[r][i].event_id \in 1..mint

\* The handler was called for the cause, and sends nothing but its follow-up,
\* under the derived id, after the cause was published.  If it is told that
\* the id is a duplicate, then it is this one, and nothing it sent remains.
WorksOn(h, cause) ==
  /\ Cause(cause)
  /\ serving[h] \in requests /\ serving[h].event_id = cause.event_id
  /\ asked[h] = <<Traced(cause.event_id, cause.item)>>
  /\ \A i \in DOMAIN sent[h] : sent[h][i].event_id = Derived[cause.event_id]
  /\ \A i \in DOMAIN staged[h] : cause.id < staged[h][i].id
  /\ dup[h] \subseteq {Derived[cause.event_id]}
  /\ dup[h] # {} => sent[h] = <<>>

Handled ==
  \A h \in Handler : at[h] # "absent" => \E cause \in outbox : WorksOn(h, cause)

ChainInv ==
  /\ CallersInv
  /\ ChainTypeOK
  /\ mint <= MaxMint
  /\ Provenance
  /\ Posted
  /\ Applied
  /\ Handled
  /\ DoneIsFollowedUp

\* An order's row stays one, whatever is added to the outbox.
LEMMA CauseStays ==
  ASSUME outbox \subseteq outbox', mint \in Nat, mint' \in Nat, mint <= mint'
  PROVE  /\ \A row : Cause(row) => Cause(row)'
         /\ \A row, cause : Follows(row, cause) => Follows(row, cause)'
<1>1. \A n \in 1..mint : n \in 1..mint'
  OBVIOUS
<1>2. \A row : Cause(row) => Cause(row)'
  BY <1>1 DEF Cause
<1> QED
  BY <1>2 DEF Follows

\* The events an order's row and a follow-up are about.
LEMMA TwoKinds ==
  /\ \A order : /\ AsTold(order).event.kind = "placed"
                /\ AsTold(order).event.order = order
                /\ AsTold(order).causation_id = None
  /\ \A id, item : /\ Traced(id, item).event.kind = "shipped"
                   /\ Traced(id, item).callbacks = <<"mail">>
                   /\ Traced(id, item).causation_id = Some(id)
  /\ \A id : Some(id) # None
  /\ \A id, n : Some(id) = Some(n) => id = n
<1>1. \A order : /\ AsTold(order).event.kind = "placed"
                 /\ AsTold(order).event.order = order
                 /\ AsTold(order).causation_id = None
  BY DEF AsTold
<1>2. \A id, item : /\ Traced(id, item).event.kind = "shipped"
                    /\ Traced(id, item).callbacks = <<"mail">>
                    /\ Traced(id, item).causation_id = Some(id)
  BY DEF Traced
<1>3. \A id : Some(id) # None
  BY DEF Some, None
<1>4. \A id, n : Some(id) = Some(n) => id = n
  BY DEF Some
<1> QED
  BY <1>1, <1>2, <1>3, <1>4

-----------------------------------------------------------------------------
(* The steps, as steps of callers *)

\* The application enters with orders.
LEMMA PublishTold ==
  ASSUME NEW r \in Tx, Publish(r)
  PROVE  /\ r \in Emitter /\ UNCHANGED chainVars
         /\ \E events \in Seq(Item) :
              /\ Enter(r, events)
              /\ \A i \in DOMAIN events :
                   \E order \in Placed : events[i] = AsTold(order)
<1>1. CASE \E order \in Placed :
             Enter(r, <<Columns(Pair(order).event, Pair(order).ctx)>>)
  <2>1. PICK order \in Placed :
          Enter(r, <<Columns(Pair(order).event, Pair(order).ctx)>>)
    BY <1>1
  <2>2. Enter(r, <<AsTold(order)>>)
    BY <2>1, OrderTold
  <2>3. AsTold(order) \in Item
    BY ChainAssumption
  <2> HIDE DEF AsTold
  <2>4. <<AsTold(order)>> \in Seq(Item)
    BY <2>3
  <2>5. \A i \in DOMAIN <<AsTold(order)>> : <<AsTold(order)>>[i] = AsTold(order)
    OBVIOUS
  <2> QED
    BY <2>2, <2>4, <2>5 DEF Publish
<1>2. CASE \E n \in 2..MaxBatch : \E orders \in [1..n -> Placed] :
             Enter(r, Unnest(Vectors([i \in 1..n |-> Pair(orders[i])])))
  <2>0. PICK n \in 2..MaxBatch : \E orders \in [1..n -> Placed] :
          Enter(r, Unnest(Vectors([i \in 1..n |-> Pair(orders[i])])))
    BY <1>2
  <2>1. PICK orders \in [1..n -> Placed] :
          Enter(r, Unnest(Vectors([i \in 1..n |-> Pair(orders[i])])))
    BY <2>0
  <2> DEFINE events == [i \in 1..n |-> AsTold(orders[i])]
  <2>2. n \in Nat
    BY ConstantsAssumption
  <2>3. Enter(r, events) /\ events \in Seq(Item)
    BY <2>1, <2>2, BatchTold
  <2>4. \A i \in DOMAIN events : \E order \in Placed : events[i] = AsTold(order)
    OBVIOUS
  <2> HIDE DEF events
  <2> QED
    BY <2>3, <2>4 DEF Publish
<1> QED
  BY <1>1, <1>2 DEF Publish

\* A handler enters with the follow-up of an order.
LEMMA ReceiveTold ==
  ASSUME ChainInv, NEW h \in Tx, Receive(h)
  PROVE  /\ h \in Handler /\ UNCHANGED <<delivery, attempts, requests>>
         /\ \E cause \in outbox : \E env \in requests :
              /\ Cause(cause) /\ env.event_id = cause.event_id
              /\ Traced(cause.event_id, cause.item) \in Item
              /\ Enter(h, <<Traced(cause.event_id, cause.item)>>)
              /\ serving' = [serving EXCEPT ![h] = env]
<1>1. PICK env \in requests :
        /\ Enter(h, <<Columns([kind |-> "shipped", order |-> env.event.order],
                              FollowUp(env))>>)
        /\ serving' = [serving EXCEPT ![h] = env]
  BY DEF Receive
<1>2. PICK cause \in outbox, n \in Nat :
        Cause(cause) /\ env = Envelope(cause.event_id, cause.item, "ship", n)
  BY DEF ChainInv, Posted
<1>3. PICK order \in Placed : cause.item = AsTold(order)
  BY <1>2 DEF Cause
<1>4. Columns([kind |-> "shipped", order |-> env.event.order], FollowUp(env))
        = Traced(cause.event_id, cause.item)
  BY <1>2, <1>3, FollowUpTold
<1>5. env.event_id = cause.event_id
  BY <1>2 DEF Envelope
<1>6. cause.event_id \in 1..MaxMint
  <2>1. mint \in Nat /\ mint <= MaxMint /\ MaxMint \in Nat
    BY ConstantsAssumption DEF ChainInv, ChainTypeOK, TypeOK
  <2> QED
    BY <1>2, <2>1 DEF Cause
<1>7. Traced(cause.event_id, cause.item) \in Item
  BY <1>3, <1>6, ChainAssumption
<1> QED
  BY <1>1, <1>2, <1>4, <1>5, <1>7 DEF Receive

\* A handler calls with one event and a derived id.
LEMMA HandlerCalls ==
  ASSUME ChainInv, NEW h \in Handler, at[h] # "absent"
  PROVE  /\ h \in Tx
         /\ Len(asked[h]) = 1
         /\ Derived[serving[h].event_id] \in Key
<1>1. PICK cause \in outbox : WorksOn(h, cause)
  BY DEF ChainInv, Handled
<1>2. cause.event_id \in 1..MaxMint
  <2>1. mint \in Nat /\ mint <= MaxMint /\ MaxMint \in Nat
    BY ConstantsAssumption DEF ChainInv, ChainTypeOK, TypeOK
  <2> QED
    BY <1>1, <2>1 DEF WorksOn, Cause
<1>3. Derived[cause.event_id] \in Key
  BY <1>2, ChainAssumption
<1>4. asked[h] = <<Traced(cause.event_id, cause.item)>>
  BY <1>1 DEF WorksOn
<1>5. Len(asked[h]) = 1
  BY <1>4
<1> QED
  BY <1>1, <1>3, <1>5 DEF WorksOn, Handler

\* What the chain's callers do, callers do.
LEMMA ChainCallers ==
  ASSUME ChainInv, [ChainNext]_allVars
  PROVE  [CallersNext]_<<vars, callerVars>>
<1>1. CASE \E r \in Tx : Publish(r)
  BY <1>1, PublishTold DEF CallersNext
<1>2. CASE \E h \in Tx : Receive(h)
  <2>1. PICK h \in Tx : Receive(h)
    BY <1>2
  <2>2. PICK item \in Item : Enter(h, <<item>>)
    BY <2>1, ReceiveTold
  <2>3. <<item>> \in Seq(Item)
    OBVIOUS
  <2> QED
    BY <2>2, <2>3 DEF CallersNext
<1>3. CASE \E r \in Tx : Work(r)
  <2>1. PICK r \in Tx : Work(r)
    BY <1>3
  <2>2. CASE r \in Handler /\ CallWithId(r, Derived[serving[r].event_id])
    <3>1. at[r] # "absent"
      BY <2>2 DEF CallWithId
    <3> QED
      BY <2>2, <3>1, HandlerCalls DEF CallersNext
  <2> QED
    BY <2>1, <2>2 DEF Work, CallersNext
<1>4. CASE \/ \E r \in Tx : Respond(r)
           \/ \E row \in outbox : Dispatch(row)
           \/ \E id \in 1..MaxMint : TimedOut(id)
           \/ UNCHANGED allVars
  BY <1>4 DEF Respond, Dispatch, TimedOut, allVars, chainVars
<1> QED
  BY <1>1, <1>2, <1>3, <1>4 DEF ChainNext

-----------------------------------------------------------------------------
(* What a step of a caller does to the table *)

\* A row is new, or was staged before; the outbox grows by a commit alone.
LEMMA RowEffect ==
  ASSUME CallersInv, NEW r \in Tx, UNCHANGED vars \/ Step(r)
  PROVE  /\ \A u \in Tx \ {r} : staged'[u] = staged[u] /\ sent'[u] = sent[u]
         /\ \A i \in DOMAIN staged'[r] :
              \/ i \in DOMAIN staged[r] /\ staged'[r][i] = staged[r][i]
              \/ staged'[r][i].id = serial + 1
         /\ outbox' = outbox \/ CommitApplied(r)
         /\ outbox \subseteq outbox'
<1>1. TypeOK /\ Progress
  BY DEF CallersInv, IndInv
<1>2. CASE UNCHANGED vars
  BY <1>2 DEF vars, table
<1>3. CASE Step(r)
  <2>1. /\ \A u \in Tx \ {r} : staged'[u] = staged[u] /\ sent'[u] = sent[u]
        /\ \/ InsertRow(r)
           \/ CommitApplied(r)
           \/ UNCHANGED outbox /\ (staged'[r] = <<>> \/ staged'[r] = staged[r])
    BY <1>1, <1>3, StepEffect DEF Drops, Keeps
  <2>2. CASE InsertRow(r)
    <3>1. /\ staged' \in [Tx -> Seq(Row)]
          /\ Len(staged'[r]) = Len(staged[r]) + 1
          /\ \A i \in 1..Len(staged[r]) : staged'[r][i] = staged[r][i]
          /\ staged'[r][Len(staged[r]) + 1].id = serial + 1
      <4> DEFINE new == staged'[r][Len(staged[r]) + 1]
      <4>1. new = [id |-> serial + 1, event_id |-> Current(r).event_id,
                   item |-> Current(r).item]
        BY <1>1, <2>2, InsertRowStages
      <4>2. new.id = serial + 1
        <5> HIDE DEF new
        <5> QED
          BY <4>1
      <4> QED
        BY <1>1, <2>2, <4>2, InsertRowStages
    <3>2. DOMAIN staged'[r] = 1..Len(staged'[r])
      BY <3>1
    <3>3. DOMAIN staged[r] = 1..Len(staged[r]) /\ Len(staged[r]) \in Nat
      BY <1>1, StagedDomains
    <3>4. outbox' = outbox
      BY <2>2 DEF InsertRow
    <3> QED
      BY <2>1, <3>1, <3>2, <3>3, <3>4
  <2>3. CASE CommitApplied(r)
    <3>1. /\ staged' = [staged EXCEPT ![r] = <<>>]
          /\ outbox' = outbox \cup Range(staged[r])
      BY <2>3 DEF CommitApplied, End
    <3>2. staged'[r] = <<>>
      BY <1>1, <3>1 DEF TypeOK
    <3> QED
      BY <2>1, <2>3, <3>1, <3>2
  <2>4. CASE UNCHANGED outbox /\ (staged'[r] = <<>> \/ staged'[r] = staged[r])
    BY <2>1, <2>4
  <2> QED
    BY <2>1, <2>2, <2>3, <2>4
<1> QED
  BY <1>2, <1>3

\* The ids of the events a call sends are those it was given.
LEMMA ExecuteIds ==
  ASSUME CallersInv, NEW r \in Tx, at[r] = "append",
         NEW ids \in [1..Len(asked[r]) -> EventId],
         Execute(r, ids, asked[r])
  PROVE  \A i \in DOMAIN sent'[r] :
           i \in 1..Len(asked[r]) /\ sent'[r][i].event_id = ids[i]
<1>1. /\ TypeOK /\ sent[r] = <<>> /\ asked[r] \in Seq(Item)
      /\ Len(sent[r]) = 0 /\ Len(asked[r]) \in Nat
  BY DEF CallersInv, IndInv, CallersTypeOK, AsAsked
<1>2. /\ sent' \in [Tx -> Seq(Event)]
      /\ Len(sent'[r]) = Len(sent[r]) + Len(asked[r])
      /\ \A i \in Len(sent[r]) + 1 .. Len(sent[r]) + Len(asked[r]) :
           sent'[r][i] = [event_id |-> ids[i - Len(sent[r])],
                          item |-> asked[r][i - Len(sent[r])]]
  BY <1>1, ExecuteSends
<1>3. DOMAIN sent'[r] = 1..Len(asked[r])
  BY <1>1, <1>2
<1> SUFFICES ASSUME NEW i \in 1..Len(asked[r])
             PROVE  sent'[r][i].event_id = ids[i]
  BY <1>3
<1>4. /\ i \in Len(sent[r]) + 1 .. Len(sent[r]) + Len(asked[r])
      /\ i - Len(sent[r]) = i
  BY <1>1
<1>5. sent'[r][i] = [event_id |-> ids[i - Len(sent[r])],
                     item |-> asked[r][i - Len(sent[r])]]
  BY <1>2, <1>4
<1> QED
  BY <1>4, <1>5

-----------------------------------------------------------------------------
(* What a step of a caller does to the chain *)

\* What the step of a caller may change beside its own place.
Moved(r) ==
  /\ UNCHANGED vars \/ Step(r)
  /\ \A u \in Tx \ {r} : /\ at'[u] = at[u] /\ asked'[u] = asked[u]
                         /\ serving'[u] = serving[u]
  /\ mint' \in Nat /\ mint <= mint' /\ mint' <= MaxMint
  /\ UNCHANGED <<delivery, attempts, requests>>

\* What the step may send: nothing new, or the events of a call.
Sent(r) ==
  \/ sent'[r] = sent[r]
  \/ sent'[r] = <<>>
  \/ r \in Emitter /\ \A i \in DOMAIN sent'[r] : sent'[r][i].event_id \in 1..mint'
  \/ r \in Handler /\ \A i \in DOMAIN sent'[r] :
       sent'[r][i].event_id = Derived[serving[r].event_id]

\* A minted call takes its ids from the mint, which the bound holds.
LEMMA MintedIds ==
  ASSUME ChainInv, NEW r \in Tx, CallMinted(r)
  PROVE  /\ \A i \in DOMAIN sent'[r] : sent'[r][i].event_id \in 1..mint'
         /\ mint' \in Nat /\ mint <= mint' /\ mint' <= MaxMint
<1> DEFINE ids == [i \in 1..Len(asked[r]) |-> mint + i]
<1>1. /\ at[r] = "append" /\ InsertMinted(r, asked[r])
      /\ CallersInv /\ mint \in Nat /\ MaxMint \in Nat
  BY ConstantsAssumption DEF CallMinted, ChainInv, CallersInv, IndInv, TypeOK
<1>2. phase[r] = "open" /\ Refusal(asked[r]) = "none" /\ asked[r] \in Seq(Item)
  BY <1>1 DEF CallersInv, CallersTypeOK, Linked, AsAsked
<1>3. /\ Execute(r, ids, asked[r])
      /\ mint + Len(asked[r]) <= MaxMint
      /\ mint' = mint + Len(asked[r])
  BY <1>1, <1>2 DEF InsertMinted, Refuse, RefuseFailed
<1>4. Len(asked[r]) \in Nat
  BY <1>2
<1>5. /\ ids \in [1..Len(asked[r]) -> EventId]
      /\ \A i \in 1..Len(asked[r]) : ids[i] = mint + i
  BY <1>1, <1>4 DEF EventId
<1> HIDE DEF ids
<1>6. \A i \in DOMAIN sent'[r] :
        i \in 1..Len(asked[r]) /\ sent'[r][i].event_id = ids[i]
  BY <1>1, <1>3, <1>5, ExecuteIds
<1>7. \A i \in 1..Len(asked[r]) : ids[i] \in 1..mint'
  BY <1>1, <1>3, <1>4, <1>5
<1> QED
  BY <1>1, <1>3, <1>4, <1>6, <1>7

\* A call with an id uses that id.
LEMMA GivenId ==
  ASSUME ChainInv, NEW r \in Tx, NEW key \in Key, Len(asked[r]) = 1,
         CallWithId(r, key)
  PROVE  /\ \A i \in DOMAIN sent'[r] : sent'[r][i].event_id = key
         /\ mint' = mint
<1>1. /\ at[r] = "append" /\ Insert(r, <<key>>, asked[r])
      /\ CallersInv
  BY DEF CallWithId, ChainInv
<1>2. phase[r] = "open" /\ Refusal(asked[r]) = "none"
  BY <1>1 DEF CallersInv, Linked, AsAsked
<1>3. Execute(r, <<key>>, asked[r]) /\ mint' = mint
  BY <1>1, <1>2 DEF Insert, Refuse, RefuseFailed
<1>4. <<key>> \in [1..Len(asked[r]) -> EventId] /\ <<key>>[1] = key
  BY DEF EventId
<1>5. \A i \in DOMAIN sent'[r] :
        i \in 1..Len(asked[r]) /\ sent'[r][i].event_id = <<key>>[i]
  BY <1>1, <1>3, <1>4, ExecuteIds
<1>6. \A i \in DOMAIN sent'[r] : i = 1
  BY <1>5
<1> QED
  BY <1>3, <1>4, <1>5, <1>6

\* Proceeding, a caller sends nothing new and mints nothing.
LEMMA ProceedSends ==
  ASSUME CallersInv, NEW r \in Tx, Proceed(r)
  PROVE  /\ sent'[r] = sent[r] \/ sent'[r] = <<>>
         /\ mint' = mint /\ asked' = asked
<1>1. CASE Serve(r)
  BY <1>1, ServeEffect DEF Serve, callerVars
<1>2. CASE ~ Serve(r)
  BY <1>2, OwnEffect
<1> QED
  BY <1>1, <1>2

\* The work of a caller.
LEMMA WorkMoves ==
  ASSUME ChainInv, NEW r \in Tx, Work(r)
  PROVE  /\ Moved(r) /\ Sent(r)
         /\ at[r] # "absent" /\ asked'[r] = asked[r] /\ serving' = serving
<1>1. /\ CallersInv /\ CallersTypeOK /\ mint \in Nat /\ mint <= MaxMint
      /\ UNCHANGED chainVars
  BY DEF ChainInv, CallersInv, IndInv, TypeOK, Work
<1>2. CASE r \in Emitter /\ CallMinted(r)
  <2>1. Calls(r) /\ Step(r)
    BY <1>1, <1>2, CallMintedCalls
  <2>2. \A u \in Tx \ {r} : at'[u] = at[u] /\ asked'[u] = asked[u]
    BY <1>1, <2>1, OtherCallers
  <2>3. at[r] # "absent" /\ asked' = asked
    BY <2>1 DEF Calls
  <2>4. Sent(r) /\ mint' \in Nat /\ mint <= mint' /\ mint' <= MaxMint
    BY <1>2, MintedIds DEF Sent
  <2> QED
    BY <1>1, <2>1, <2>2, <2>3, <2>4 DEF Moved, chainVars
<1>3. CASE r \in Handler /\ CallWithId(r, Derived[serving[r].event_id])
  <2>1. at[r] # "absent"
    BY <1>3 DEF CallWithId
  <2>2. Len(asked[r]) = 1 /\ Derived[serving[r].event_id] \in Key
    BY <1>3, <2>1, HandlerCalls
  <2>3. Calls(r) /\ Step(r)
    BY <1>1, <1>3, <2>2, CallWithIdCalls
  <2>4. \A u \in Tx \ {r} : at'[u] = at[u] /\ asked'[u] = asked[u]
    BY <1>1, <2>3, OtherCallers
  <2>5. asked' = asked
    BY <2>3 DEF Calls
  <2>6. Sent(r) /\ mint' = mint
    BY <1>3, <2>2, GivenId DEF Sent
  <2> QED
    BY <1>1, <2>1, <2>3, <2>4, <2>5, <2>6 DEF Moved, chainVars
<1>4. CASE Proceed(r)
  <2>1. UNCHANGED vars \/ Step(r)
    BY <1>4, ProceedSteps
  <2>2. \A u \in Tx \ {r} : at'[u] = at[u] /\ asked'[u] = asked[u]
    BY <1>1, <1>4, OtherCallers
  <2>3. /\ sent'[r] = sent[r] \/ sent'[r] = <<>>
        /\ mint' = mint /\ asked' = asked
    BY <1>1, <1>4, ProceedSends
  <2>4. at[r] # "absent"
    <3>1. CASE Serve(r)
      <4>1. Running(r)
        BY <1>1, <3>1, ServeEffect DEF Serve
      <4> QED
        BY <1>1, <4>1 DEF Running, CallersInv, Linked
    <3>2. CASE ~ Serve(r)
      BY <1>4, <3>2 DEF Proceed, Acquire, NoConnection, AppendReturns,
                        AppendFails, CommitReturns, GoAway, Release
    <3> QED
      BY <3>1, <3>2
  <2> QED
    BY <1>1, <2>1, <2>2, <2>3, <2>4 DEF Moved, Sent, chainVars
<1> QED
  BY <1>2, <1>3, <1>4 DEF Work

\* A caller that enters has sent nothing, and the table stays as it is.
LEMMA EnterMoves ==
  ASSUME ChainInv, NEW r \in Tx, NEW events \in Seq(Item), Enter(r, events),
         UNCHANGED <<delivery, attempts, requests>>,
         \A u \in Tx \ {r} : serving'[u] = serving[u]
  PROVE  /\ Moved(r) /\ UNCHANGED vars
         /\ sent[r] = <<>> /\ staged[r] = <<>> /\ dup[r] = {}
         /\ asked'[r] = events
<1>1. /\ CallersInv /\ CallersTypeOK /\ mint \in Nat /\ mint <= MaxMint
      /\ asked \in [Tx -> Seq(Item)]
  BY DEF ChainInv, CallersInv, CallersTypeOK, IndInv, TypeOK
<1>2. /\ UNCHANGED vars /\ asked'[r] = events /\ at[r] = "absent"
  BY <1>1 DEF Enter
<1>3. mint' = mint
  BY <1>2 DEF vars
<1>4. \A u \in Tx \ {r} : at'[u] = at[u] /\ asked'[u] = asked[u]
  BY <1>1, OtherCallers
<1>5. phase[r] = "new"
  BY <1>1, <1>2 DEF CallersInv, Linked
<1>6. sent[r] = <<>> /\ staged[r] = <<>> /\ dup[r] = {}
  BY <1>1, <1>5 DEF CallersInv, IndInv, Progress, Informed
<1> QED
  BY <1>1, <1>2, <1>3, <1>4, <1>6 DEF Moved

\* A row enters the outbox as it was staged, and was staged as asked for: with
\* others that are rows of orders, or alone, as the follow-up of a cause.
LEMMA CommittedRow ==
  ASSUME ChainInv, NEW r \in Tx, Moved(r), NEW row \in outbox', row \notin outbox
  PROVE  /\ r \in Emitter => Cause(row)'
         /\ r \notin Emitter =>
              /\ outbox' = outbox \cup {row}
              /\ \E cause \in outbox : Follows(row, cause)
<1>1. /\ CallersInv /\ TypeOK /\ Progress /\ Aligned /\ AsAsked
      /\ mint \in Nat /\ mint' \in Nat /\ mint <= mint'
  BY DEF ChainInv, CallersInv, IndInv, TypeOK, Moved
<1>2. outbox' = outbox \/ CommitApplied(r)
  BY <1>1, RowEffect DEF Moved
<1>3. CommitApplied(r) /\ outbox' = outbox \cup Range(staged[r])
  BY <1>2 DEF CommitApplied
<1>4. PICK i \in DOMAIN staged[r] : row = staged[r][i]
  BY <1>3 DEF Range
<1>5. at[r] # "absent"
  BY <1>1, <1>3 DEF CommitApplied, CallersInv, Linked
<1>6. DOMAIN staged[r] = DOMAIN sent[r] /\ DOMAIN sent[r] = 1..Len(sent[r])
  BY <1>1, <1>3, StagedDomains DEF CommitApplied, Progress
<1>7. row.event_id = sent[r][i].event_id /\ row.item = sent[r][i].item
  BY <1>1, <1>4 DEF Aligned
<1>8. Len(sent[r]) = Len(asked[r]) /\ sent[r][i].item = asked[r][i]
  <2>1. sent[r] # <<>>
    BY <1>4, <1>6
  <2> QED
    BY <1>1, <1>4, <1>6, <2>1 DEF AsAsked
<1>9. ASSUME r \in Emitter PROVE Cause(row)'
  <2>1. i \in DOMAIN asked[r]
    <3>1. asked[r] \in Seq(Item)
      BY <1>1 DEF CallersInv, CallersTypeOK
    <3> QED
      BY <1>4, <1>6, <1>8, <3>1
  <2>2. /\ \E order \in Placed : asked[r][i] = AsTold(order)
        /\ sent[r][i].event_id \in 1..mint
    BY <1>4, <1>6, <1>9, <2>1 DEF ChainInv, Applied
  <2>3. row.event_id \in 1..mint'
    BY <1>1, <1>7, <2>2
  <2> QED
    BY <1>7, <1>8, <2>2, <2>3 DEF Cause
<1>10. ASSUME r \notin Emitter
       PROVE  /\ outbox' = outbox \cup {row}
              /\ \E cause \in outbox : Follows(row, cause)
  <2>1. PICK cause \in outbox : WorksOn(r, cause)
    BY <1>5, <1>10 DEF ChainInv, Handled, Handler
  <2>2. asked[r] = <<Traced(cause.event_id, cause.item)>>
    BY <2>1 DEF WorksOn
  <2>3. Len(asked[r]) = 1 /\ asked[r][1] = Traced(cause.event_id, cause.item)
    BY <2>2
  <2>4. i = 1 /\ DOMAIN staged[r] = {1}
    BY <1>4, <1>6, <1>8, <2>3
  <2>5. row.item = Traced(cause.event_id, cause.item)
    BY <1>7, <1>8, <2>3, <2>4
  <2>6. /\ Cause(cause) /\ cause.id < row.id
        /\ row.event_id = Derived[cause.event_id]
    BY <1>4, <1>6, <1>7, <2>1 DEF WorksOn
  <2>7. Range(staged[r]) = {row}
    BY <1>4, <2>4 DEF Range
  <2>8. Follows(row, cause)
    BY <2>5, <2>6 DEF Follows
  <2> QED
    BY <1>3, <2>7, <2>8
<1> QED
  BY <1>9, <1>10

\* What a caller commits is, like all that was there before, an order or the
\* follow-up of one.
LEMMA StepProvenance ==
  ASSUME ChainInv, NEW r \in Tx, Moved(r)
  PROVE  Provenance' /\ outbox \subseteq outbox'
<1>1. /\ CallersInv /\ mint \in Nat /\ mint' \in Nat /\ mint <= mint'
  BY DEF ChainInv, CallersInv, IndInv, TypeOK, Moved
<1>2. outbox \subseteq outbox'
  BY <1>1, RowEffect DEF Moved
<1>3. /\ \A row : Cause(row) => Cause(row)'
      /\ \A row, cause : Follows(row, cause) => Follows(row, cause)'
  BY <1>1, <1>2, CauseStays
<1>4. \A row \in outbox :
        Cause(row)' \/ \E cause \in outbox' : Follows(row, cause)'
  BY <1>2, <1>3 DEF ChainInv, Provenance
<1>5. ASSUME NEW row \in outbox', row \notin outbox
      PROVE  Cause(row)' \/ \E cause \in outbox' : Follows(row, cause)'
  BY <1>2, <1>3, <1>5, CommittedRow
<1> QED
  BY <1>2, <1>4, <1>5 DEF Provenance

\* Rows do not change, nor do the requests made of them.
LEMMA StepPosted ==
  ASSUME ChainInv, outbox \subseteq outbox', mint' \in Nat, mint <= mint',
         requests' = requests
  PROVE  Posted'
<1>1. mint \in Nat
  BY DEF ChainInv, CallersInv, IndInv, TypeOK
<1>2. \A row : Cause(row) => Cause(row)'
  BY <1>1, CauseStays
<1> QED
  BY <1>2 DEF ChainInv, Posted

\* Another caller's step leaves a handler its place and its cause.
LEMMA OtherHandlers ==
  ASSUME ChainInv, NEW r \in Tx, Moved(r), NEW h \in Tx \ {r}
  PROVE  /\ \A cause : WorksOn(h, cause) => WorksOn(h, cause)'
         /\ /\ at'[h] = at[h] /\ asked'[h] = asked[h] /\ sent'[h] = sent[h]
            /\ serving'[h] = serving[h]
<1>1. /\ CallersInv
      /\ mint \in Nat /\ mint' \in Nat /\ mint <= mint'
      /\ outbox \subseteq outbox'
  BY StepProvenance DEF ChainInv, CallersInv, IndInv, TypeOK, Moved
<1>2. \A row : Cause(row) => Cause(row)'
  BY <1>1, CauseStays
<1>3. /\ staged'[h] = staged[h] /\ sent'[h] = sent[h] /\ dup'[h] = dup[h]
  BY <1>1, RowEffect, DupEffect DEF Moved
<1>4. /\ at'[h] = at[h] /\ asked'[h] = asked[h] /\ serving'[h] = serving[h]
      /\ requests' = requests
  BY DEF Moved
<1> QED
  BY <1>2, <1>3, <1>4 DEF WorksOn

\* At work, the application sends nothing but orders, under minted ids.
LEMMA WorkApplied ==
  ASSUME ChainInv, NEW r \in Tx, Work(r)
  PROVE  Applied'
<1>1. /\ Moved(r) /\ Sent(r) /\ asked'[r] = asked[r] /\ serving' = serving
      /\ mint \in Nat /\ mint' \in Nat /\ mint <= mint'
  BY WorkMoves DEF Moved, ChainInv, CallersInv, IndInv, TypeOK
<1> SUFFICES ASSUME NEW u \in Emitter
             PROVE  /\ serving'[u] = Nothing
                    /\ \A i \in DOMAIN asked'[u] :
                         \E order \in Placed : asked'[u][i] = AsTold(order)
                    /\ \A i \in DOMAIN sent'[u] : sent'[u][i].event_id \in 1..mint'
  BY DEF Applied
<1>2. u \in Tx
  BY CallersAssumption
<1>3. /\ serving[u] = Nothing
      /\ \A i \in DOMAIN asked[u] :
           \E order \in Placed : asked[u][i] = AsTold(order)
      /\ \A i \in DOMAIN sent[u] : sent[u][i].event_id \in 1..mint
  BY DEF ChainInv, Applied
<1>4. asked'[u] = asked[u]
  BY <1>1, <1>2 DEF Moved
<1>5. \A i \in DOMAIN sent'[u] : sent'[u][i].event_id \in 1..mint'
  <2>1. \A n \in 1..mint : n \in 1..mint'
    BY <1>1
  <2>2. CASE sent'[u] = sent[u] \/ sent'[u] = <<>>
    BY <1>3, <2>1, <2>2
  <2>3. CASE ~ (sent'[u] = sent[u] \/ sent'[u] = <<>>)
    <3>1. u = r
      BY <1>1, <1>2, <2>3, OtherHandlers
    <3> QED
      BY <1>1, <2>3, <3>1 DEF Sent, Handler
  <2> QED
    BY <2>2, <2>3
<1> QED
  BY <1>1, <1>3, <1>4, <1>5

\* At work, a handler keeps to its cause.
LEMMA WorkHandled ==
  ASSUME ChainInv, NEW r \in Tx, Work(r)
  PROVE  Handled'
<1>1. /\ Moved(r) /\ Sent(r) /\ asked'[r] = asked[r] /\ serving' = serving
      /\ at[r] # "absent" /\ outbox \subseteq outbox'
  BY WorkMoves, StepProvenance
<1> SUFFICES ASSUME NEW h \in Handler, at'[h] # "absent"
             PROVE  \E cause \in outbox' : WorksOn(h, cause)'
  BY DEF Handled
<1>2. CASE h # r
  <2>1. at[h] # "absent"
    BY <1>1, <1>2, OtherHandlers DEF Handler
  <2>2. PICK cause \in outbox : WorksOn(h, cause)
    BY <2>1 DEF ChainInv, Handled
  <2> QED
    BY <1>1, <1>2, <2>2, OtherHandlers DEF Handler
<1>3. CASE h = r
  <2>1. PICK cause \in outbox : WorksOn(r, cause)
    BY <1>1, <1>3 DEF ChainInv, Handled
  <2>2. /\ CallersInv
        /\ UNCHANGED vars \/ Step(r)
        /\ requests' = requests
    BY <1>1 DEF Moved, ChainInv
  <2>3. Cause(cause)'
    <3>1. mint \in Nat /\ mint' \in Nat /\ mint <= mint'
      BY <1>1 DEF Moved, ChainInv, CallersInv, IndInv, TypeOK
    <3> QED
      BY <1>1, <2>1, <3>1, CauseStays DEF WorksOn
  <2>4. /\ serving'[r] \in requests' /\ serving'[r].event_id = cause.event_id
        /\ asked'[r] = <<Traced(cause.event_id, cause.item)>>
    BY <1>1, <2>1, <2>2 DEF WorksOn
  <2>5. \A i \in DOMAIN sent'[r] : sent'[r][i].event_id = Derived[cause.event_id]
    BY <1>1, <1>3, <2>1 DEF Sent, WorksOn, Handler
  <2>6. \A i \in DOMAIN staged'[r] : cause.id < staged'[r][i].id
    <3>1. \A i \in DOMAIN staged'[r] :
            \/ i \in DOMAIN staged[r] /\ staged'[r][i] = staged[r][i]
            \/ staged'[r][i].id = serial + 1
      BY <2>2, RowEffect
    <3>2. cause.id <= serial /\ cause.id \in Nat /\ serial \in Nat
      BY <2>2 DEF CallersInv, IndInv, Distinct, TypeOK, Row
    <3>3. cause.id < serial + 1
      BY <3>2
    <3> QED
      BY <2>1, <3>1, <3>3 DEF WorksOn
  <2>7. /\ dup'[r] \subseteq {Derived[cause.event_id]}
        /\ dup'[r] # {} => sent'[r] = <<>>
    <3>1. Ids(sent[r]) \subseteq {Derived[cause.event_id]}
      BY <2>1 DEF Ids, WorksOn
    <3>2. CASE dup'[r] = dup[r]
      BY <2>1, <2>2, <3>2, FailedSends DEF WorksOn
    <3>3. CASE sent'[r] = <<>> /\ dup'[r] \subseteq dup[r] \cup Ids(sent[r])
      BY <2>1, <3>1, <3>3 DEF WorksOn
    <3> QED
      BY <2>2, <3>2, <3>3, DupEffect
  <2>8. WorksOn(r, cause)'
    BY <2>3, <2>4, <2>5, <2>6, <2>7 DEF WorksOn
  <2> QED
    BY <1>1, <1>3, <2>8
<1> QED
  BY <1>2, <1>3

\* A delivery that is done stays so, and its follow-up in the outbox.
LEMMA StepDone ==
  ASSUME ChainInv, outbox \subseteq outbox',
         \A id \in 1..MaxMint :
           delivery'[id] = "done" => delivery[id] = "done" \/ FollowUps(id) # {}
  PROVE  DoneIsFollowedUp'
<1>1. \A id : FollowUps(id) \subseteq FollowUps(id)'
  BY DEF FollowUps
<1>2. \A id \in 1..MaxMint : delivery'[id] = "done" => FollowUps(id) # {}
  BY DEF ChainInv, DoneIsFollowedUp
<1> QED
  BY <1>1, <1>2 DEF DoneIsFollowedUp

-----------------------------------------------------------------------------
(* The steps of the chain *)

\* What an entering caller leaves to be shown: that what it is to append is an
\* order, or the follow-up of its cause.
LEMMA PublishInv ==
  ASSUME ChainInv, NEW r \in Tx, Publish(r)
  PROVE  /\ Moved(r) /\ Applied' /\ Handled' /\ serving' = serving
<1>1. PICK events \in Seq(Item) :
        /\ Enter(r, events)
        /\ \A i \in DOMAIN events : \E order \in Placed : events[i] = AsTold(order)
  BY PublishTold
<1>2. /\ r \in Emitter /\ serving' = serving
      /\ UNCHANGED <<delivery, attempts, requests>>
  BY PublishTold DEF chainVars
<1>3. /\ Moved(r) /\ UNCHANGED vars /\ asked'[r] = events
  BY <1>1, <1>2, EnterMoves
<1>4. /\ sent' = sent /\ mint' = mint
  BY <1>3 DEF vars
<1>5. Applied'
  <2> SUFFICES ASSUME NEW u \in Emitter
               PROVE  \A i \in DOMAIN asked'[u] :
                        \E order \in Placed : asked'[u][i] = AsTold(order)
    BY <1>2, <1>4 DEF ChainInv, Applied
  <2>1. u \in Tx
    BY CallersAssumption
  <2>2. CASE u = r
    BY <1>1, <1>3, <2>2
  <2>3. CASE u # r
    <3>1. asked'[u] = asked[u]
      BY <1>3, <2>1, <2>3 DEF Moved
    <3> QED
      BY <3>1 DEF ChainInv, Applied
  <2> QED
    BY <2>2, <2>3
<1>6. Handled'
  <2> SUFFICES ASSUME NEW h \in Handler, at'[h] # "absent"
               PROVE  \E cause \in outbox' : WorksOn(h, cause)'
    BY DEF Handled
  <2>1. h \in Tx \ {r}
    BY <1>2 DEF Handler
  <2>2. PICK cause \in outbox : WorksOn(h, cause)
    BY <1>3, <2>1, OtherHandlers DEF ChainInv, Handled
  <2> QED
    BY <1>3, <2>1, <2>2, OtherHandlers, StepProvenance
<1> QED
  BY <1>2, <1>3, <1>5, <1>6

\* A request reaches a handler, which is then at work on its cause.
LEMMA ReceiveInv ==
  ASSUME ChainInv, NEW r \in Tx, Receive(r)
  PROVE  /\ Moved(r) /\ Applied' /\ Handled'
         /\ \E env \in requests : serving' = [serving EXCEPT ![r] = env]
<1>1. /\ r \in Handler /\ r \notin Emitter
      /\ UNCHANGED <<delivery, attempts, requests>>
      /\ serving \in [Tx -> requests \cup {Nothing}]
  BY ReceiveTold DEF Handler, ChainInv, ChainTypeOK
<1>2. PICK cause \in outbox : \E env \in requests :
        /\ Cause(cause) /\ env.event_id = cause.event_id
        /\ Traced(cause.event_id, cause.item) \in Item
        /\ Enter(r, <<Traced(cause.event_id, cause.item)>>)
        /\ serving' = [serving EXCEPT ![r] = env]
  BY ReceiveTold
<1>3. PICK env \in requests :
        /\ env.event_id = cause.event_id
        /\ serving' = [serving EXCEPT ![r] = env]
  BY <1>2
<1> DEFINE item == Traced(cause.event_id, cause.item)
<1>4. <<item>> \in Seq(Item)
  <2>1. item \in Item
    BY <1>2
  <2> HIDE DEF item
  <2> QED
    BY <2>1
<1>5. /\ Moved(r) /\ UNCHANGED vars /\ asked'[r] = <<item>>
      /\ sent[r] = <<>> /\ staged[r] = <<>> /\ dup[r] = {}
  <2>1. Enter(r, <<item>>)
    BY <1>2
  <2>2. \A u \in Tx \ {r} : serving'[u] = serving[u]
    BY <1>3
  <2> HIDE DEF item
  <2> QED
    BY <1>1, <1>4, <2>1, <2>2, EnterMoves
<1>6. /\ sent' = sent /\ staged' = staged /\ dup' = dup /\ mint' = mint
      /\ outbox' = outbox
  BY <1>5 DEF vars, table, caller
<1>7. Applied'
  <2> SUFFICES ASSUME NEW u \in Emitter
               PROVE  serving'[u] = serving[u] /\ asked'[u] = asked[u]
    BY <1>6 DEF ChainInv, Applied
  <2>1. u \in Tx \ {r}
    BY <1>1, CallersAssumption
  <2> QED
    BY <1>5, <2>1 DEF Moved
<1>8. WorksOn(r, cause)'
  <2>1. serving'[r] = env /\ requests' = requests
    BY <1>1, <1>3
  <2>2. Cause(cause)'
    BY <1>2, <1>6 DEF Cause
  <2>3. /\ DOMAIN sent'[r] = {} /\ DOMAIN staged'[r] = {} /\ dup'[r] = {}
    BY <1>5, <1>6
  <2> HIDE DEF item
  <2>4. asked'[r] = <<item>>
    BY <1>5
  <2> QED
    BY <1>3, <2>1, <2>2, <2>3, <2>4 DEF WorksOn, item
<1>9. Handled'
  <2> SUFFICES ASSUME NEW h \in Handler, at'[h] # "absent", h # r
               PROVE  \E c \in outbox' : WorksOn(h, c)'
    BY <1>6, <1>8 DEF Handled
  <2>1. h \in Tx \ {r}
    BY DEF Handler
  <2>2. PICK c \in outbox : WorksOn(h, c)
    BY <1>5, <2>1, OtherHandlers DEF ChainInv, Handled
  <2> QED
    BY <1>5, <1>6, <2>1, <2>2, OtherHandlers
<1> QED
  BY <1>3, <1>5, <1>7, <1>9

\* A handler that answers 2xx has its follow-up in the outbox: its own, or the
\* one whose id it was told is a duplicate.
LEMMA SucceededPublished ==
  ASSUME ChainInv, NEW h \in Handler, at[h] # "absent", Succeeded(h)
  PROVE  FollowUps(serving[h].event_id) # {}
<1>1. /\ CallersInv /\ IndInv /\ Committed /\ Linked /\ AsAsked /\ h \in Tx
      /\ TypeOK /\ mint \in Nat /\ mint <= MaxMint /\ MaxMint \in Nat
  BY ConstantsAssumption DEF ChainInv, CallersInv, IndInv, TypeOK, Handler
<1>2. PICK cause \in outbox : WorksOn(h, cause)
  BY DEF ChainInv, Handled
<1> DEFINE id == cause.event_id
<1>3. serving[h].event_id = id /\ id \in 1..MaxMint
  BY <1>1, <1>2 DEF WorksOn, Cause
<1>4. CASE at[h] = "ok"
  <2>1. phase[h] = "committed" /\ sent[h] # <<>>
    BY <1>1, <1>4 DEF Linked, AsAsked
  <2>2. asked[h] = <<Traced(id, cause.item)>>
    BY <1>2 DEF WorksOn
  <2>3. Len(asked[h]) = 1 /\ asked[h][1] = Traced(id, cause.item)
    BY <2>2
  <2>4. Len(sent[h]) = 1 /\ sent[h][1].item = asked[h][1]
    BY <1>1, <2>1, <2>3 DEF AsAsked
  <2>5. sent[h][1] \in Published
    <3>1. 1 \in DOMAIN sent[h]
      BY <1>1, <2>4, StagedDomains
    <3> QED
      BY <1>1, <2>1, <3>1 DEF Committed
  <2>6. PICK row \in outbox :
          sent[h][1] = [event_id |-> row.event_id, item |-> row.item]
    BY <2>5 DEF Published
  <2>7. row.item.causation_id = Some(id)
    <3>1. row.item = Traced(id, cause.item)
      BY <2>3, <2>4, <2>6
    <3> QED
      BY <3>1, TwoKinds
  <2> QED
    BY <1>3, <2>7 DEF FollowUps
<1>5. CASE dup[h] # {}
  <2>1. Derived[id] \in dup[h] /\ sent[h] = <<>>
    BY <1>2, <1>5 DEF WorksOn
  <2>2. Derived[id] \notin Ids(sent[h])
    BY <2>1 DEF Ids
  <2>3. PICK e \in Published : e.event_id = Derived[id]
    BY <1>1, <2>1, <2>2 DEF IndInv, DuplicateMeansPublished
  <2>4. PICK row \in outbox : row.event_id = Derived[id]
    BY <2>3 DEF Published
  <2>5. ~ Cause(row)
    <3>1. Derived[id] \in Key
      BY <1>3, ChainAssumption
    <3>2. \A n \in 1..mint : n \in Nat
      BY <1>1
    <3> QED
      BY <2>4, <3>1, <3>2, ConstantsAssumption DEF Cause
  <2>6. PICK c \in outbox : Follows(row, c)
    BY <2>5 DEF ChainInv, Provenance
  <2>7. c.event_id \in 1..MaxMint
    BY <1>1, <2>6 DEF Follows, Cause
  <2>8. c.event_id = id
    BY <1>3, <2>4, <2>6, <2>7, ChainAssumption DEF Follows
  <2>9. row.item.causation_id = Some(id)
    BY <2>6, <2>8, TwoKinds DEF Follows
  <2> QED
    BY <1>3, <2>9 DEF FollowUps
<1> QED
  BY <1>4, <1>5 DEF Succeeded

\* The dispatcher sends no request but those made of the row of an order: a
\* follow-up does not name the receiver that ships.
LEMMA DispatchPosted ==
  ASSUME ChainInv, NEW row \in outbox, Dispatch(row)
  PROVE  Posted' /\ Cause(row)
<1>1. /\ "ship" \in Range(row.item.callbacks)
      /\ requests' = requests \cup
           {Envelope(row.event_id, row.item, "ship", attempts[row.event_id] + 1)}
      /\ outbox' = outbox /\ mint' = mint
  BY DEF Dispatch, vars, table
<1>2. Cause(row)
  <2> SUFFICES ASSUME NEW cause \in outbox, Follows(row, cause) PROVE FALSE
    BY DEF ChainInv, Provenance
  <2>1. row.item.callbacks = <<"mail">>
    BY TwoKinds DEF Follows
  <2>2. \A i \in DOMAIN <<"mail">> : <<"mail">>[i] = "mail"
    OBVIOUS
  <2>3. Range(<<"mail">>) = {<<"mail">>[i] : i \in DOMAIN <<"mail">>}
    BY DEF Range
  <2> QED
    BY <1>1, <2>1, <2>2, <2>3
<1>3. attempts[row.event_id] + 1 \in Nat
  <2>1. row.event_id \in 1..MaxMint
    <3>1. mint \in Nat /\ mint <= MaxMint /\ MaxMint \in Nat
      BY ConstantsAssumption DEF ChainInv, ChainTypeOK, TypeOK
    <3> QED
      BY <1>2, <3>1 DEF Cause
  <2>2. MaxAttempts \in Nat /\ attempts \in [1..MaxMint -> 0..MaxAttempts]
    BY ChainAssumption DEF ChainInv, ChainTypeOK
  <2>3. attempts[row.event_id] \in 0..MaxAttempts
    BY <2>1, <2>2
  <2> QED
    BY <2>2, <2>3
<1>4. \A r : Cause(r) => Cause(r)'
  BY <1>1 DEF Cause
<1>5. \A env \in requests' : \E cause \in outbox' : \E n \in Nat :
        Cause(cause)' /\ env = Envelope(cause.event_id, cause.item, "ship", n)
  <2> TAKE env \in requests'
  <2>1. CASE env \in requests
    BY <1>1, <1>4, <2>1 DEF ChainInv, Posted
  <2>2. CASE env = Envelope(row.event_id, row.item, "ship",
                            attempts[row.event_id] + 1)
    BY <1>1, <1>2, <1>3, <1>4, <2>2
  <2> QED
    BY <1>1, <2>1, <2>2
<1> QED
  BY <1>2, <1>5 DEF Posted

\* What the dispatcher does, and the network, leaves the callers alone.
LEMMA QuietStep ==
  ASSUME ChainInv, UNCHANGED <<vars, callerVars, serving>>,
         requests \subseteq requests', Posted',
         delivery' \in [1..MaxMint -> {"pending", "awaiting", "done"}],
         attempts' \in [1..MaxMint -> 0..MaxAttempts],
         \A id \in 1..MaxMint :
           delivery'[id] = "done" => delivery[id] = "done" \/ FollowUps(id) # {}
  PROVE  ChainInv'
<1>1. UNCHANGED <<at, asked, sent, staged, dup, outbox, mint, serving>>
  BY DEF vars, callerVars, caller, table
<1>2. CallersInv'
  BY NextCallersInv DEF ChainInv
<1>3. /\ mint \in Nat /\ mint <= MaxMint /\ mint' = mint
      /\ serving \in [Tx -> requests \cup {Nothing}]
  BY <1>1 DEF ChainInv, ChainTypeOK, TypeOK
<1>4. \A env \in requests' : env.event_id \in 1..MaxMint
  <2> TAKE env \in requests'
  <2>1. PICK cause \in outbox' : \E n \in Nat :
          Cause(cause)' /\ env = Envelope(cause.event_id, cause.item, "ship", n)
    BY DEF Posted
  <2>2. cause.event_id \in 1..mint
    BY <1>3, <2>1 DEF Cause
  <2>3. env.event_id = cause.event_id
    BY <2>1 DEF Envelope
  <2> QED
    BY <1>3, <2>2, <2>3, ConstantsAssumption
<1>5. ChainTypeOK'
  <2>1. CallersTypeOK'
    BY <1>2 DEF CallersInv
  <2>2. serving' \in [Tx -> requests' \cup {Nothing}]
    BY <1>1, <1>3
  <2> QED
    BY <1>4, <2>1, <2>2 DEF ChainTypeOK, CallersTypeOK
<1>6. /\ \A row : Cause(row) => Cause(row)'
      /\ \A row, cause : Follows(row, cause) => Follows(row, cause)'
  BY <1>1, <1>3, CauseStays
<1>7. Provenance'
  BY <1>1, <1>6 DEF ChainInv, Provenance
<1>8. Applied'
  BY <1>1 DEF ChainInv, Applied
<1>9. Handled'
  <2>1. \A h, cause : WorksOn(h, cause) => WorksOn(h, cause)'
    BY <1>1, <1>6 DEF WorksOn
  <2> QED
    BY <1>1, <2>1 DEF ChainInv, Handled
<1>10. DoneIsFollowedUp'
  BY <1>1, StepDone
<1> QED
  BY <1>2, <1>3, <1>5, <1>7, <1>8, <1>9, <1>10 DEF ChainInv

\* What a caller does leaves the deliveries alone.
LEMMA CallerStep ==
  ASSUME ChainInv, CallersInv', NEW r \in Tx, Moved(r), Applied', Handled',
         \/ serving' = serving
         \/ \E env \in requests : serving' = [serving EXCEPT ![r] = env]
  PROVE  ChainInv'
<1>1. /\ mint' \in Nat /\ mint <= mint' /\ mint' <= MaxMint
      /\ UNCHANGED <<delivery, attempts, requests>>
  BY DEF Moved
<1>2. Provenance' /\ outbox \subseteq outbox'
  BY StepProvenance
<1>3. Posted'
  BY <1>1, <1>2, StepPosted
<1>4. ChainTypeOK'
  <2>1. CallersTypeOK'
    BY DEF CallersInv
  <2>2. serving' \in [Tx -> requests' \cup {Nothing}]
    BY <1>1 DEF ChainInv, ChainTypeOK
  <2> QED
    BY <1>1, <2>1, <2>2 DEF ChainInv, ChainTypeOK, CallersTypeOK
<1>5. DoneIsFollowedUp'
  BY <1>1, <1>2, StepDone
<1> QED
  BY <1>1, <1>2, <1>3, <1>4, <1>5 DEF ChainInv

-----------------------------------------------------------------------------
(* The invariant, and what follows from it *)

\* At the start nothing is published, posted or handled.
LEMMA InitChainInv == ChainInit => ChainInv
<1> SUFFICES ASSUME ChainInit PROVE ChainInv
  OBVIOUS
<1>1. CallersInv
  BY InitCallersInv DEF ChainInit
<1>2. /\ outbox = {} /\ requests = {} /\ mint = 0
      /\ \A r \in Tx : /\ at[r] = "absent" /\ asked[r] = <<>> /\ sent[r] = <<>>
                      /\ serving[r] = Nothing
  BY DEF ChainInit, CallersInit, Init
<1>3. MaxMint \in Nat /\ MaxAttempts \in Nat
  BY ConstantsAssumption, ChainAssumption
<1>4. ChainTypeOK
  BY <1>1, <1>3 DEF ChainInit, ChainTypeOK, CallersInv, CallersTypeOK
<1>5. Provenance /\ Posted /\ Handled
  BY <1>2 DEF Provenance, Posted, Handled, Handler
<1>6. Applied
  BY <1>2, CallersAssumption DEF Applied
<1>7. DoneIsFollowedUp
  <2>1. \A id \in 1..MaxMint : delivery[id] = "pending"
    BY DEF ChainInit
  <2> QED
    BY <2>1 DEF DoneIsFollowedUp
<1> QED
  BY <1>1, <1>2, <1>3, <1>4, <1>5, <1>6, <1>7 DEF ChainInv

\* Every step of the chain keeps the invariant.
LEMMA NextChainInv == ChainInv /\ [ChainNext]_allVars => ChainInv'
<1> SUFFICES ASSUME ChainInv, [ChainNext]_allVars PROVE ChainInv'
  OBVIOUS
<1>1. CallersInv'
  BY ChainCallers, NextCallersInv DEF ChainInv
<1>2. /\ delivery \in [1..MaxMint -> {"pending", "awaiting", "done"}]
      /\ attempts \in [1..MaxMint -> 0..MaxAttempts]
      /\ MaxAttempts \in Nat
  BY ChainAssumption DEF ChainInv, ChainTypeOK
<1>3. ASSUME requests' = requests, outbox' = outbox, mint' = mint
      PROVE  Posted'
  <2>1. mint \in Nat
    BY DEF ChainInv, CallersInv, IndInv, TypeOK
  <2> QED
    BY <1>3, <2>1, StepPosted
<1>4. CASE \E r \in Tx : Publish(r)
  BY <1>1, <1>4, PublishInv, CallerStep
<1>5. CASE \E r \in Tx : Receive(r)
  BY <1>1, <1>5, ReceiveInv, CallerStep
<1>6. CASE \E r \in Tx : Work(r)
  <2>1. PICK r \in Tx : Work(r)
    BY <1>6
  <2>2. Moved(r) /\ serving' = serving
    BY <2>1, WorkMoves
  <2> QED
    BY <1>1, <2>1, <2>2, WorkApplied, WorkHandled, CallerStep
<1>7. CASE \E r \in Tx : Respond(r)
  <2>1. PICK h \in Tx : Respond(h)
    BY <1>7
  <2> DEFINE id == serving[h].event_id
             new == IF Succeeded(h) THEN "done" ELSE "pending"
  <2>2. /\ at[h] # "absent" /\ serving[h] # Nothing
        /\ delivery' = [delivery EXCEPT ![id] = new]
        /\ UNCHANGED <<vars, callerVars, attempts, requests, serving>>
    BY <2>1 DEF Respond, Outcome
  <2>3. h \in Handler
    BY <2>1, <2>2 DEF Handler, ChainInv, Applied
  <2>4. Succeeded(h) => FollowUps(id) # {}
    BY <2>2, <2>3, SucceededPublished
  <2>5. Posted'
    BY <1>3, <2>2 DEF vars, table
  <2>6. delivery' \in [1..MaxMint -> {"pending", "awaiting", "done"}]
    BY <1>2, <2>2
  <2>7. \A n \in 1..MaxMint :
          delivery'[n] = "done" => delivery[n] = "done" \/ FollowUps(n) # {}
    <3> TAKE n \in 1..MaxMint
    <3> HAVE delivery'[n] = "done"
    <3>1. CASE n = id
      <4>1. new = "done"
        BY <1>2, <2>2, <3>1
      <4> QED
        BY <2>4, <3>1, <4>1
    <3>2. CASE n # id
      BY <1>2, <2>2, <3>2
    <3> QED
      BY <3>1, <3>2
  <2> QED
    BY <1>2, <2>2, <2>5, <2>6, <2>7, QuietStep
<1>8. CASE \E row \in outbox : Dispatch(row)
  <2>1. PICK row \in outbox : Dispatch(row)
    BY <1>8
  <2> DEFINE id == row.event_id
  <2>2. /\ delivery' = [delivery EXCEPT ![id] = "awaiting"]
        /\ attempts[id] < MaxAttempts
        /\ attempts' = [attempts EXCEPT ![id] = attempts[id] + 1]
        /\ requests \subseteq requests'
        /\ UNCHANGED <<vars, callerVars, serving>>
    BY <2>1 DEF Dispatch
  <2>3. Posted' /\ Cause(row)
    BY <2>1, DispatchPosted
  <2>4. id \in 1..MaxMint
    <3>1. mint \in Nat /\ mint <= MaxMint /\ MaxMint \in Nat
      BY ConstantsAssumption DEF ChainInv, ChainTypeOK, TypeOK
    <3> QED
      BY <2>3, <3>1 DEF Cause
  <2>5. delivery' \in [1..MaxMint -> {"pending", "awaiting", "done"}]
    BY <1>2, <2>2
  <2>6. attempts' \in [1..MaxMint -> 0..MaxAttempts]
    <3>1. attempts[id] \in 0..MaxAttempts
      BY <1>2, <2>4
    <3>2. attempts[id] + 1 \in 0..MaxAttempts
      BY <1>2, <2>2, <3>1
    <3> QED
      BY <1>2, <2>2, <3>2
  <2>7. \A n \in 1..MaxMint : delivery'[n] = "done" => delivery[n] = "done"
    BY <1>2, <2>2
  <2> QED
    BY <2>2, <2>3, <2>5, <2>6, <2>7, QuietStep
<1>9. CASE \E id \in 1..MaxMint : TimedOut(id)
  <2>1. PICK id \in 1..MaxMint : TimedOut(id)
    BY <1>9
  <2>2. /\ delivery' = [delivery EXCEPT ![id] = "pending"]
        /\ UNCHANGED <<vars, callerVars, attempts, requests, serving>>
    BY <2>1 DEF TimedOut
  <2>3. Posted'
    BY <1>3, <2>2 DEF vars, table
  <2>4. delivery' \in [1..MaxMint -> {"pending", "awaiting", "done"}]
    BY <1>2, <2>2
  <2>5. \A n \in 1..MaxMint : delivery'[n] = "done" => delivery[n] = "done"
    BY <1>2, <2>2
  <2> QED
    BY <1>2, <2>2, <2>3, <2>4, <2>5, QuietStep
<1>10. CASE UNCHANGED allVars
  <2>1. UNCHANGED <<vars, callerVars, delivery, attempts, requests, serving>>
    BY <1>10 DEF allVars, chainVars
  <2>2. Posted'
    BY <1>3, <2>1 DEF vars, table
  <2> QED
    BY <1>2, <2>1, <2>2, QuietStep
<1> QED
  BY <1>4, <1>5, <1>6, <1>7, <1>8, <1>9, <1>10 DEF ChainNext

\* ChainInv holds in every reachable state.
THEOREM ChainInvariance == ChainSpec => []ChainInv
BY InitChainInv, NextChainInv, PTL DEF ChainSpec

\* The chain is a way to call the publisher: what is proved of any callers, and
\* of any use of the publisher, holds of it.
THEOREM ChainCallsPublisher == ChainSpec => CallersSpec
<1>1. ChainInit => CallersInit
  BY DEF ChainInit
<1>2. ChainInv /\ [ChainNext]_allVars => [CallersNext]_<<vars, callerVars>>
  BY ChainCallers
<1> QED
  BY <1>1, <1>2, ChainInvariance, PTL DEF ChainSpec, CallersSpec

\* The types hold, those of the callers and the publisher included.
THEOREM ChainTypeCorrect == ChainSpec => []ChainTypeOK
<1>1. ChainInv => ChainTypeOK
  BY DEF ChainInv
<1> QED
  BY <1>1, ChainInvariance, PTL

\* The row of an order says what its publisher was told to say.
THEOREM RowsSayAsTold == ChainSpec => []RowSaysAsTold
<1>1. ChainInv => RowSaysAsTold
  <2> SUFFICES ASSUME ChainInv, NEW row \in outbox,
                      row.item.event.kind = "placed"
               PROVE  row.item = AsTold(row.item.event.order)
    BY DEF RowSaysAsTold
  <2>1. Cause(row)
    <3> SUFFICES ASSUME NEW cause \in outbox, Follows(row, cause) PROVE FALSE
      BY DEF ChainInv, Provenance
    <3> QED
      BY TwoKinds DEF Follows
  <2>2. PICK order \in Placed : row.item = AsTold(order)
    BY <2>1 DEF Cause
  <2>3. row.item.event.order = order
    BY <2>2, TwoKinds
  <2> QED
    BY <2>2, <2>3
<1> QED
  BY <1>1, ChainInvariance, PTL

\* From every follow-up the trace leads back to its cause.
THEOREM TraceLeads == ChainSpec => []TraceLeadsBack
<1>1. ChainInv => TraceLeadsBack
  <2> SUFFICES ASSUME ChainInv, NEW row \in outbox,
                      row.item.event.kind = "shipped"
               PROVE  \E cause \in outbox :
                        /\ cause.id < row.id
                        /\ cause.item.event.kind = "placed"
                        /\ row.item = Traced(cause.event_id, cause.item)
    BY DEF TraceLeadsBack
  <2>1. ~ Cause(row)
    BY TwoKinds DEF Cause
  <2>2. PICK cause \in outbox : Follows(row, cause)
    BY <2>1 DEF ChainInv, Provenance
  <2>3. cause.item.event.kind = "placed"
    BY <2>2, TwoKinds DEF Follows, Cause
  <2> QED
    BY <2>2, <2>3 DEF Follows
<1> QED
  BY <1>1, ChainInvariance, PTL

\* The event a follow-up says it is caused by is that of its cause, and so its
\* id is the derived one.
LEMMA FollowUpRow ==
  ASSUME ChainInv, NEW id, NEW row \in FollowUps(id)
  PROVE  /\ row \in outbox /\ row.event_id = Derived[id]
         /\ \E cause \in outbox : Follows(row, cause) /\ cause.event_id = id
<1>1. row \in outbox /\ row.item.causation_id = Some(id)
  BY DEF FollowUps
<1>2. ~ Cause(row)
  BY <1>1, TwoKinds DEF Cause
<1>3. PICK cause \in outbox : Follows(row, cause)
  BY <1>1, <1>2 DEF ChainInv, Provenance
<1>4. row.item.causation_id = Some(cause.event_id)
  BY <1>3, TwoKinds DEF Follows
<1>5. cause.event_id = id
  BY <1>1, <1>4, TwoKinds
<1> QED
  BY <1>1, <1>3, <1>5 DEF Follows

\* However often a request is repeated, and whoever handles it, its event has
\* one follow-up at most.
THEOREM OnlyOnce == ChainSpec => []FollowedUpOnce
<1>1. ChainInv => FollowedUpOnce
  <2> SUFFICES ASSUME ChainInv, NEW id \in 1..MaxMint,
                      NEW r \in FollowUps(id), NEW s \in FollowUps(id)
               PROVE  r = s
    BY DEF FollowedUpOnce
  <2>1. /\ r \in outbox /\ r.event_id = Derived[id]
        /\ s \in outbox /\ s.event_id = Derived[id]
    BY FollowUpRow
  <2> QED
    BY <2>1 DEF ChainInv, CallersInv, IndInv, Distinct, EventIdUnique
<1> QED
  BY <1>1, ChainInvariance, PTL

\* A delivery that is done has its follow-up in the outbox.
THEOREM DoneFollowedUp == ChainSpec => []DoneIsFollowedUp
<1>1. ChainInv => DoneIsFollowedUp
  BY DEF ChainInv
<1> QED
  BY <1>1, ChainInvariance, PTL

-----------------------------------------------------------------------------
(* The promise of the chain *)

Orders == {row.event_id : row \in Placements}
Counts == [id \in 1..MaxMint |-> Cardinality(FollowUps(id))]
Closed == {id \in 1..MaxMint : delivery[id] = "done"}

\* Of what there is at most one, there is none or one.
LEMMA NoneOrOne ==
  ASSUME NEW S, \A x, y \in S : x = y
  PROVE  Cardinality(S) = IF S = {} THEN 0 ELSE 1
<1>1. CASE S = {}
  BY <1>1, FS_EmptySet
<1>2. CASE S # {}
  <2>1. PICK x \in S : S = {x}
    BY <1>2
  <2> QED
    BY <1>2, <2>1, FS_Singleton
<1> QED
  BY <1>1, <1>2

\* The rows of orders are the causes, and the cause of a follow-up is one.
LEMMA OrderRows ==
  ASSUME ChainInv
  PROVE  /\ \A row \in Placements : Cause(row)
         /\ \A row : Cause(row) => row \in Placements
         /\ Orders \subseteq 1..mint
<1>1. ASSUME NEW row, Cause(row) PROVE row \in Placements
  BY <1>1, TwoKinds DEF Cause, Placements
<1>2. ASSUME NEW row \in Placements PROVE Cause(row)
  <2> SUFFICES ASSUME NEW cause \in outbox, Follows(row, cause) PROVE FALSE
    BY DEF ChainInv, Provenance, Placements
  <2> QED
    BY TwoKinds DEF Follows, Placements
<1>3. Orders \subseteq 1..mint
  BY <1>2 DEF Orders, Cause
<1> QED
  BY <1>1, <1>2, <1>3

\* The rows of a batch of orders: they become visible, and nothing else.
LEMMA EmitterPlaces ==
  ASSUME ChainInv, NEW r \in Emitter, Moved(r), Orders' \subseteq 1..MaxMint
  PROVE  Promise!Place
<1>1. r \in Tx
  BY CallersAssumption
<1>2. outbox \subseteq outbox' /\ \A row \in outbox' \ outbox : Cause(row)'
  BY <1>1, CommittedRow, StepProvenance
<1>3. Counts' = Counts
  <2>1. ASSUME NEW id \in 1..MaxMint PROVE FollowUps(id)' = FollowUps(id)
    <3>1. \A row \in outbox' \ outbox : row.item.causation_id = None
      BY <1>2, TwoKinds DEF Cause
    <3>2. \A row \in outbox' \ outbox : row.item.causation_id # Some(id)
      BY <3>1, TwoKinds
    <3> QED
      BY <1>2, <3>2 DEF FollowUps
  <2> QED
    BY <2>1 DEF Counts
<1>4. Orders \subseteq Orders'
  BY <1>2 DEF Orders, Placements
<1>5. Closed' = Closed
  BY DEF Moved, Closed
<1> QED
  BY <1>3, <1>4, <1>5 DEF Promise!Place, Orders, Counts, Closed

\* The row of a handler: one order is followed up, that was not before.
LEMMA HandlerFollowsUp ==
  ASSUME ChainInv, FollowedUpOnce, FollowedUpOnce',
         NEW r \in Tx \ Emitter, Moved(r), outbox' # outbox
  PROVE  \E id \in 1..MaxMint : Promise!FollowUp(id)
<1>1. PICK row : row \in outbox' /\ row \notin outbox
  BY StepProvenance
<1>2. PICK cause \in outbox : Follows(row, cause) /\ outbox' = outbox \cup {row}
  BY <1>1, CommittedRow
<1> DEFINE id == cause.event_id
<1>3. Cause(cause) /\ id \in 1..MaxMint /\ id \in Orders
  <2>1. mint \in Nat /\ mint <= MaxMint /\ MaxMint \in Nat
    BY ConstantsAssumption DEF ChainInv, ChainTypeOK, TypeOK
  <2>2. Cause(cause) /\ cause \in Placements
    BY <1>2, OrderRows DEF Follows
  <2> QED
    BY <2>1, <2>2 DEF Cause, Orders
<1>4. /\ row.item.event.kind = "shipped"
      /\ row.item.causation_id = Some(id)
  BY <1>2, TwoKinds DEF Follows
<1>5. Orders' = Orders
  BY <1>2, <1>4 DEF Orders, Placements
<1>6. Closed' = Closed
  BY DEF Moved, Closed
<1>7. ASSUME NEW n \in 1..MaxMint, n # id PROVE FollowUps(n)' = FollowUps(n)
  <2>1. row.item.causation_id # Some(n)
    BY <1>4, <1>7, TwoKinds
  <2> QED
    BY <1>2, <2>1 DEF FollowUps
<1>8. row \in FollowUps(id)' /\ FollowUps(id) \subseteq FollowUps(id)'
  BY <1>2, <1>4 DEF FollowUps
<1>9. FollowUps(id) = {}
  <2>1. \A x \in FollowUps(id) : x = row
    BY <1>3, <1>8 DEF FollowedUpOnce
  <2>2. row \notin FollowUps(id)
    BY <1>1 DEF FollowUps
  <2> QED
    BY <2>1, <2>2
<1>10. Cardinality(FollowUps(id)) = 0 /\ Cardinality(FollowUps(id)') = 1
  <2>1. FollowUps(id)' = {row}
    BY <1>3, <1>8 DEF FollowedUpOnce
  <2> QED
    BY <1>9, <2>1, FS_EmptySet, FS_Singleton
<1>11. Counts[id] = 0 /\ Counts' = [Counts EXCEPT ![id] = 1]
  <2>1. \A n \in 1..MaxMint :
          Counts'[n] = IF n = id THEN 1 ELSE Counts[n]
    BY <1>7, <1>10 DEF Counts
  <2>2. Counts[id] = 0
    BY <1>3, <1>10 DEF Counts
  <2> QED
    BY <2>1, <2>2 DEF Counts
<1>12. Promise!FollowUp(id)
  BY <1>3, <1>5, <1>6, <1>11 DEF Promise!FollowUp, Orders, Counts, Closed
<1> QED
  BY <1>3, <1>12

\* What the dispatcher does to the deliveries closes one order, or none.
LEMMA DeliveryCloses ==
  ASSUME ChainInv, FollowedUpOnce, UNCHANGED <<outbox, serving>>,
         NEW id \in 1..MaxMint, NEW new,
         delivery' = [delivery EXCEPT ![id] = new], delivery[id] # "done",
         new = "done" => FollowUps(id) # {}
  PROVE  Promise!Close(id) \/ UNCHANGED Promise!vars
<1>1. Orders' = Orders /\ Counts' = Counts
  <2>1. \A n : FollowUps(n)' = FollowUps(n)
    BY DEF FollowUps
  <2> QED
    BY <2>1 DEF Orders, Placements, Counts
<1>2. delivery \in [1..MaxMint -> {"pending", "awaiting", "done"}]
  BY DEF ChainInv, ChainTypeOK
<1>3. CASE new = "done"
  <2>1. Closed' = Closed \cup {id}
    BY <1>2, <1>3 DEF Closed
  <2>2. Counts[id] = 1
    BY <1>3, NoneOrOne DEF FollowedUpOnce, Counts
  <2> QED
    BY <1>1, <2>1, <2>2 DEF Promise!Close, Orders, Counts, Closed
<1>4. CASE new # "done"
  <2>1. Closed' = Closed
    BY <1>2, <1>4 DEF Closed
  <2> QED
    BY <1>1, <2>1 DEF Promise!vars, Orders, Counts, Closed
<1> QED
  BY <1>3, <1>4

\* Each step of a caller places orders, follows one up, or does neither.
LEMMA CallerPromise ==
  ASSUME ChainInv, ChainInv', FollowedUpOnce, FollowedUpOnce',
         NEW r \in Tx, Moved(r)
  PROVE  Promise!Next \/ UNCHANGED Promise!vars
<1>1. CASE outbox' = outbox
  <2>1. Orders' = Orders /\ Counts' = Counts
    <3>1. \A n : FollowUps(n)' = FollowUps(n)
      BY <1>1 DEF FollowUps
    <3> QED
      BY <1>1, <3>1 DEF Orders, Placements, Counts
  <2>2. Closed' = Closed
    BY DEF Moved, Closed
  <2> QED
    BY <2>1, <2>2 DEF Promise!vars, Orders, Counts, Closed
<1>2. CASE outbox' # outbox /\ r \notin Emitter
  BY <1>2, HandlerFollowsUp DEF Promise!Next
<1>3. CASE r \in Emitter
  <2>1. Orders' \subseteq 1..MaxMint
    <3>1. \A row \in Placements' : Cause(row)'
      <4>1. \A row \in Placements' : ~ \E c \in outbox' : Follows(row, c)'
        BY TwoKinds DEF Follows, Placements
      <4> QED
        BY <4>1 DEF ChainInv, Provenance, Placements
    <3>2. mint' \in Nat /\ mint' <= MaxMint /\ MaxMint \in Nat
      BY ConstantsAssumption DEF Moved
    <3>3. \A row \in Placements' : row.event_id \in 1..MaxMint
      BY <3>1, <3>2 DEF Cause
    <3> QED
      BY <3>3 DEF Orders
  <2> QED
    BY <1>3, <2>1, EmitterPlaces DEF Promise!Next
<1> QED
  BY <1>1, <1>2, <1>3

\* Every behaviour of the chain is one of Fulfilment: orders are placed, each
\* is followed up once, and closed after that, for good.
THEOREM ChainFulfils == ChainSpec => ImplementsFulfilment
<1>1. ChainInit => Promise!Init
  <2> SUFFICES ASSUME ChainInit PROVE Promise!Init
    OBVIOUS
  <2>1. outbox = {} /\ \A id \in 1..MaxMint : delivery[id] = "pending"
    BY DEF ChainInit, CallersInit, Init
  <2>2. Orders = {} /\ Closed = {}
    BY <2>1 DEF Orders, Placements, Closed
  <2>3. \A id : FollowUps(id) = {}
    BY <2>1 DEF FollowUps
  <2>4. Counts = [id \in 1..MaxMint |-> 0]
    BY <2>3, FS_EmptySet DEF Counts
  <2> QED
    BY <2>2, <2>4 DEF Promise!Init, Orders, Counts, Closed
<1>2. /\ ChainInv /\ ChainInv' /\ FollowedUpOnce /\ FollowedUpOnce'
      /\ [ChainNext]_allVars
      => [Promise!Next]_(Promise!vars)
  <2> SUFFICES ASSUME ChainInv, ChainInv', FollowedUpOnce, FollowedUpOnce',
                      [ChainNext]_allVars
               PROVE  Promise!Next \/ UNCHANGED Promise!vars
    OBVIOUS
  <2>1. CASE \E r \in Tx : Publish(r) \/ Receive(r) \/ Work(r)
    <3>1. PICK r \in Tx : Moved(r)
      BY <2>1, PublishInv, ReceiveInv, WorkMoves
    <3> QED
      BY <3>1, CallerPromise
  <2>2. CASE \E r \in Tx : Respond(r)
    <3>1. PICK h \in Tx : Respond(h)
      BY <2>2
    <3> DEFINE id == serving[h].event_id
               new == IF Succeeded(h) THEN "done" ELSE "pending"
    <3>2. /\ at[h] # "absent" /\ serving[h] # Nothing
          /\ delivery[id] = "awaiting"
          /\ delivery' = [delivery EXCEPT ![id] = new]
          /\ UNCHANGED <<vars, serving>>
      BY <3>1 DEF Respond, Outcome
    <3>3. h \in Handler
      BY <3>1, <3>2 DEF Handler, ChainInv, Applied
    <3>4. new = "done" => FollowUps(id) # {}
      BY <3>2, <3>3, SucceededPublished
    <3>5. id \in 1..MaxMint
      BY <3>2 DEF ChainInv, ChainTypeOK
    <3>6. outbox' = outbox
      BY <3>2 DEF vars, table
    <3> HIDE DEF new, id
    <3> QED
      BY <3>2, <3>4, <3>5, <3>6, DeliveryCloses DEF Promise!Next
  <2>3. CASE \E row \in outbox : Dispatch(row)
    <3>1. PICK row \in outbox : Dispatch(row)
      BY <2>3
    <3>2. /\ delivery[row.event_id] = "pending"
          /\ delivery' = [delivery EXCEPT ![row.event_id] = "awaiting"]
          /\ outbox' = outbox /\ serving' = serving
      BY <3>1 DEF Dispatch, vars, table
    <3>3. row.event_id \in 1..MaxMint
      <4>1. mint \in Nat /\ mint <= MaxMint /\ MaxMint \in Nat
        BY ConstantsAssumption DEF ChainInv, ChainTypeOK, TypeOK
      <4>2. Cause(row)
        BY <3>1, DispatchPosted
      <4> QED
        BY <4>1, <4>2 DEF Cause
    <3> QED
      BY <3>2, <3>3, DeliveryCloses DEF Promise!Next
  <2>4. CASE \E id \in 1..MaxMint : TimedOut(id)
    <3>1. PICK id \in 1..MaxMint : TimedOut(id)
      BY <2>4
    <3>2. /\ delivery[id] = "awaiting"
          /\ delivery' = [delivery EXCEPT ![id] = "pending"]
          /\ outbox' = outbox /\ serving' = serving
      BY <3>1 DEF TimedOut, vars, table
    <3> QED
      BY <3>2, DeliveryCloses DEF Promise!Next
  <2>5. CASE UNCHANGED allVars
    <3>1. outbox' = outbox /\ delivery' = delivery
      BY <2>5 DEF allVars, chainVars, vars, table
    <3>2. \A n : FollowUps(n)' = FollowUps(n)
      BY <3>1 DEF FollowUps
    <3>3. Orders' = Orders /\ Counts' = Counts /\ Closed' = Closed
      BY <3>1, <3>2 DEF Orders, Placements, Counts, Closed
    <3> QED
      BY <3>3 DEF Promise!vars, Orders, Counts, Closed
  <2> QED
    BY <2>1, <2>2, <2>3, <2>4, <2>5 DEF ChainNext
<1> QED
  BY <1>1, <1>2, ChainInvariance, OnlyOnce, PTL
     DEF ChainSpec, Promise!Spec, ImplementsFulfilment

=============================================================================
