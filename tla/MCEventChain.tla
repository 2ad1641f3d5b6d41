---------------------------- MODULE MCEventChain ----------------------------
(* A small instance of EventChain for TLC. *)
EXTENDS EventChain, TLC

CONSTANTS p1, h1, h2, h3, k1, k2, o1, o2, alice, cart

\* The first order is Alice's, of her cart, and is shipped; the second is nobody's.
AboutOrders ==
  (o1 :> [actor_id |-> Some(alice), correlation_id |-> Some(cart),
          metadata |-> {"gift"}, callbacks |-> <<"mail", "ship">>]) @@
  (o2 :> [actor_id |-> None, correlation_id |-> None,
          metadata |-> {}, callbacks |-> <<"mail">>])

DerivedIds == <<k1, k2>>

CauseIds == {None, Some(1), Some(2)}

Rows ==
  [event          : [kind : {"placed", "shipped"}, order : {o1, o2}],
   metadata       : {{}, {"gift"}},
   callbacks      : {<<>>, <<"mail">>, <<"mail", "ship">>},
   actor_id       : {None, Some(alice)},
   correlation_id : CauseIds \cup {Some(cart)},
   causation_id   : CauseIds]

Silent == {row \in Rows : row.callbacks = <<>>}

\* Handlers are interchangeable.
Symmetry == Permutations({h1, h2, h3})

=============================================================================
