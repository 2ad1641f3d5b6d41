---------------------------- MODULE EventContext ----------------------------
(***************************************************************************)
(* What accompanies an event: the EventContext its publisher builds, the   *)
(* columns of the row it becomes, by insert or by insert_batch, and the    *)
(* WebhookEnvelope in which a receiver finds it.                           *)
(*                                                                         *)
(* An Option is a sequence of at most one element.  The kind, aggregate    *)
(* and payload of an event are its one field "event"; the metadata are a   *)
(* set of entries, the callbacks a sequence of names.                      *)
(***************************************************************************)
EXTENDS Naturals, Sequences

None    == <<>>
Some(v) == <<v>>

\* EventContext::default()
default ==
  [actor_id |-> None, correlation_id |-> None, causation_id |-> None,
   metadata |-> {}, callbacks |-> <<>>]

\* The builder's methods.
for_actor(ctx, id)        == [ctx EXCEPT !.actor_id = Some(id)]
with_correlation(ctx, id) == [ctx EXCEPT !.correlation_id = Some(id)]
with_causation(ctx, id)   == [ctx EXCEPT !.causation_id = Some(id)]

with_metadata(ctx, entries) == [ctx EXCEPT !.metadata = entries]

\* Mutant: callbacks are added to those that are there.
with_callbacks_Appends(ctx, names) == [ctx EXCEPT !.callbacks = @ \o names]

with_callbacks(ctx, names) == [ctx EXCEPT !.callbacks = names]

\* The columns that an event and its context fill, beside event_id.
Column == {"event", "metadata", "callbacks",
           "actor_id", "correlation_id", "causation_id"}

\* Mutant: two arguments of the statement are swapped.
Columns_Swapped(event, ctx) ==
  [event          |-> event,
   metadata       |-> ctx.metadata,
   callbacks      |-> ctx.callbacks,
   actor_id       |-> ctx.actor_id,
   correlation_id |-> ctx.causation_id,
   causation_id   |-> ctx.correlation_id]

\* The arguments of the single-row INSERT.
Columns(event, ctx) ==
  [event          |-> event,
   metadata       |-> ctx.metadata,
   callbacks      |-> ctx.callbacks,
   actor_id       |-> ctx.actor_id,
   correlation_id |-> ctx.correlation_id,
   causation_id   |-> ctx.causation_id]

\* Mutant: only the actors that are set are pushed.
Vectors_Filtered(batch) ==
  LET vector(c) == [i \in DOMAIN batch |->
                      IF c = "event" THEN batch[i].event ELSE batch[i].ctx[c]]
  IN  [c \in Column |->
        IF c = "actor_id"
        THEN SelectSeq(vector(c), LAMBDA actor : actor # None)
        ELSE vector(c)]

\* insert_batch fills one vector per column, one push per event.
Vectors(batch) ==
  [c \in Column |-> [i \in DOMAIN batch |->
     IF c = "event" THEN batch[i].event ELSE batch[i].ctx[c]]]

\* UNNEST sets the vectors side by side and pads short ones with NULL.
Unnest(vectors) ==
  [i \in DOMAIN vectors["event"] |-> [c \in Column |->
     IF i \in DOMAIN vectors[c] THEN vectors[c][i] ELSE None]]

\* The body posted to a target of a row.
Envelope(event_id, columns, name, attempt) ==
  [event_id |-> event_id, callback_name |-> name, attempt |-> attempt,
   event |-> columns.event, metadata |-> columns.metadata,
   actor_id |-> columns.actor_id, correlation_id |-> columns.correlation_id,
   causation_id |-> columns.causation_id]

=============================================================================
