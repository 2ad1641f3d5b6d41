------------------------- MODULE MCDeriveDomainEvent -------------------------
\* Items that differ from a right one in one place or several: all lists of at
\* most three metas on a right struct body, all lists of at most two fields
\* under right metas, and a few of both kinds of fault together.
EXTENDS DeriveDomainEvent

\* The sequences over S of at most n elements.
Lists(S, n) == UNION {[1..k -> S] : k \in 0..n}

Literals == {"user", "order"}

M(key, value) == [key |-> key, value |-> value]
T(name, gen)  == [ident |-> name, generic |-> gen]

Right     == <<M("kind", "user"), M("aggregate", "order")>>
AnyMetas  == {M("kind", "user"), M("kind", "order"), M("kind", ""), M("kind", "none"),
              M("aggregate", "order"), M("aggregate", "number"),
              M("aggregate_id", "none"), M("unknown", "none")}
FewMetas  == {Right, <<Right[1]>>, <<Right[2], Right[2], Right[1]>>}

Bare      == M("aggregate_id", "none")
Types     == {<<T("Uuid", FALSE)>>, <<T("uuid", FALSE), T("Uuid", FALSE)>>,
              <<T("String", FALSE), T("Uuid", FALSE)>>, <<T("Uuid", TRUE)>>}
AnyAttrs  == Lists(Lists({Bare, M("unknown", "none")}, 2), 2)
               \cup {<<<<M("aggregate_id", "user")>>>>}
RightBody == <<[attrs |-> <<>>, type |-> <<T("String", FALSE)>>],
               [attrs |-> <<<<Bare>>>>, type |-> <<T("Uuid", FALSE)>>]>>

OneField  == [attrs : AnyAttrs, type : Types]
FewFields == [attrs : AnyAttrs, type : {<<T("Uuid", FALSE)>>}]
Bodies    == Lists(FewFields, 2) \cup Lists(OneField, 1)

MCItems ==
  [shape : {"enum", "union", "tuple", "named"}, metas : Lists(AnyMetas, 3),
   fields : {RightBody}]
  \cup [shape : {"named"}, metas : {Right}, fields : Bodies]
  \cup [shape : {"named"}, metas : FewMetas, fields : Lists(OneField, 1)]

=============================================================================
