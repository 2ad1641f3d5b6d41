-------------------------- MODULE DeriveDomainEvent --------------------------
(***************************************************************************)
(* #[derive(DomainEvent)]: the macro reads the attributes of a struct and  *)
(* of its fields, one after the other, and ends with the three values of   *)
(* the implementation it writes, or with the first error it meets.         *)
(*                                                                         *)
(* Each step of the machine is one round of a loop of the macro, or one of *)
(* the checks between the loops.  An item is what syn has parsed; its      *)
(* attributes other than #[event(...)] are skipped and do not appear, and  *)
(* those of the struct itself are taken as one list of metas, since the    *)
(* bounds between them change nothing.                                     *)
(***************************************************************************)
EXTENDS Naturals, Sequences, FiniteSets

CONSTANTS
  Literal,   \* the non-empty string literals
  Items      \* the items the macro is applied to

\* What may stand for the value of a meta, beside a literal: nothing, a
\* literal that is no string, the empty string.
NonLiteral == {"none", "number", ""}

\* A meta inside #[event(...)].
Meta == [key   : {"kind", "aggregate", "aggregate_id", "unknown"},
         value : Literal \cup NonLiteral]

\* The type of a field: the segments of its path (empty: not a plain path).
Segment == [ident : {"Uuid", "uuid", "String"}, generic : BOOLEAN]

Field == [attrs : Seq(Seq(Meta)), type : Seq(Segment)]

Item == [shape : {"enum", "union", "tuple", "named"},
         metas : Seq(Meta), fields : Seq(Field)]

ASSUME DeriveAssumption ==
  /\ Literal \cap NonLiteral = {}
  /\ Items \subseteq Item

VARIABLES
  item,             \* the item the macro is expanding
  pc,               \* the loop or check it is at
  kind, aggregate,  \* the values found, "none" before
  i,                \* the meta of the struct the first loop is at
  f, a, m,          \* the field, its attribute and its meta, for the second
  is_aggregate_id,  \* the attribute marks the field
  field_marked,     \* an earlier attribute of the field did
  found,            \* the fields that are marked
  result            \* the error, or the values of the implementation

structVars == <<kind, aggregate, i>>
fieldVars  == <<f, a, m, is_aggregate_id, field_marked, found>>
vars       == <<item, pc, structVars, fieldVars, result>>

Return(value) ==
  /\ pc' = "done"
  /\ result' = value
  /\ UNCHANGED <<item, structVars, fieldVars>>

Error(name) == [error |-> name]

\* The implementation of DomainEvent that is written.
Ok(k, g, n) == [error |-> "none", kind |-> k, aggregate |-> g, field |-> n]

-----------------------------------------------------------------------------
(* expand_domain_event *)

Shape ==
  /\ pc = "shape"
  /\ IF item.shape \in {"enum", "union"}
     THEN Return(Error("not a struct"))
     ELSE pc' = "struct" /\ UNCHANGED <<item, structVars, fieldVars, result>>

\* Mutant: a repeated key overwrites the value found before.
ValueError_Overwrites(value, before) ==
  IF value = "none" THEN "value expected"
  ELSE IF value = "number" THEN "not a string"
  ELSE IF value = "" THEN "empty"
  ELSE "none"

\* Mutant: an empty literal is taken.
ValueError_AllowsEmpty(value, before) ==
  IF value = "none" THEN "value expected"
  ELSE IF value = "number" THEN "not a string"
  ELSE IF before # "none" THEN "key repeated"
  ELSE "none"

\* The error of the value of kind or aggregate, given the value found before.
ValueError(value, before) ==
  IF value = "none" THEN "value expected"
  ELSE IF value = "number" THEN "not a string"
  ELSE IF before # "none" THEN "key repeated"
  ELSE IF value = "" THEN "empty"
  ELSE "none"

\* The error of a meta of the struct.
StructError(x) ==
  CASE x.key = "kind"         -> ValueError(x.value, kind)
    [] x.key = "aggregate"    -> ValueError(x.value, aggregate)
    [] x.key = "aggregate_id" -> "field attribute on struct"
    [] x.key = "unknown"      -> "unknown key"

\* A round of the loop over the metas of the struct.
StructMeta ==
  /\ pc = "struct"
  /\ i <= Len(item.metas)
  /\ LET x == item.metas[i]
     IN  \/ StructError(x) # "none" /\ Return(Error(StructError(x)))
         \/ /\ StructError(x) = "none"
            /\ kind' = IF x.key = "kind" THEN x.value ELSE kind
            /\ aggregate' = IF x.key = "aggregate" THEN x.value ELSE aggregate
            /\ i' = i + 1
            /\ UNCHANGED <<item, pc, fieldVars, result>>

\* What must have been found, and the fields that may follow.
Required ==
  /\ pc = "struct"
  /\ i > Len(item.metas)
  /\ IF kind = "none" THEN Return(Error("kind missing"))
     ELSE IF aggregate = "none" THEN Return(Error("aggregate missing"))
     ELSE IF item.shape = "tuple" THEN Return(Error("fields not named"))
     ELSE pc' = "fields" /\ UNCHANGED <<item, structVars, fieldVars, result>>

-----------------------------------------------------------------------------
(* find_aggregate_id_field *)

Attrs   == item.fields[f].attrs
InField == pc = "fields" /\ f <= Len(item.fields)
InAttr  == InField /\ a <= Len(Attrs)

\* The error of a meta of a field: the key takes no value.
FieldError(x) ==
  IF x.key # "aggregate_id" THEN "unknown key on field"
  ELSE IF is_aggregate_id THEN "repeated in attribute"
  ELSE IF x.value # "none" THEN "comma expected"
  ELSE "none"

\* A round of the loop over the metas of an attribute.
FieldMeta ==
  /\ InAttr
  /\ m <= Len(Attrs[a])
  /\ LET x == Attrs[a][m]
     IN  \/ FieldError(x) # "none" /\ Return(Error(FieldError(x)))
         \/ /\ FieldError(x) = "none"
            /\ is_aggregate_id' = TRUE
            /\ m' = m + 1
            /\ UNCHANGED <<item, pc, structVars, f, a, field_marked, found,
                           result>>

\* An attribute has been read: the field is marked, unless it was before.
AttrDone ==
  /\ InAttr
  /\ m > Len(Attrs[a])
  /\ \/ is_aggregate_id /\ field_marked /\ Return(Error("repeated on field"))
     \/ /\ ~ (is_aggregate_id /\ field_marked)
        /\ found' = IF is_aggregate_id THEN Append(found, f) ELSE found
        /\ field_marked' = (field_marked \/ is_aggregate_id)
        /\ is_aggregate_id' = FALSE
        /\ a' = a + 1
        /\ m' = 1
        /\ UNCHANGED <<item, pc, structVars, f, result>>

\* Mutant: field_marked is declared outside the loop over the fields.
FieldDone_Keeps ==
  /\ InField
  /\ a > Len(Attrs)
  /\ f' = f + 1
  /\ a' = 1
  /\ UNCHANGED <<item, pc, structVars, m, is_aggregate_id, field_marked, found,
                 result>>

\* A field has been read.
FieldDone ==
  /\ InField
  /\ a > Len(Attrs)
  /\ f' = f + 1
  /\ a' = 1
  /\ field_marked' = FALSE
  /\ UNCHANGED <<item, pc, structVars, m, is_aggregate_id, found, result>>

\* The type is Uuid or uuid::Uuid, without generic arguments.
is_uuid_type(type) ==
  LET plain(name) == [ident |-> name, generic |-> FALSE]
  IN  type \in {<<plain("Uuid")>>, <<plain("uuid"), plain("Uuid")>>}

\* All fields have been read: exactly one must be marked, and be a Uuid.
Count ==
  /\ pc = "fields"
  /\ f > Len(item.fields)
  /\ IF found = <<>> THEN Return(Error("no field marked"))
     ELSE IF Len(found) > 1 THEN Return(Error("several fields marked"))
     ELSE IF ~ is_uuid_type(item.fields[found[1]].type)
          THEN Return(Error("not a Uuid"))
     ELSE Return(Ok(kind, aggregate, found[1]))

-----------------------------------------------------------------------------
Init ==
  /\ item \in Items
  /\ pc = "shape"
  /\ kind = "none" /\ aggregate = "none"
  /\ i = 1 /\ f = 1 /\ a = 1 /\ m = 1
  /\ is_aggregate_id = FALSE /\ field_marked = FALSE
  /\ found = <<>>
  /\ result = Error("unknown yet")

\* The macro has returned.
Done == pc = "done" /\ UNCHANGED vars

Expand == \/ Shape \/ StructMeta \/ Required
          \/ FieldMeta \/ AttrDone \/ FieldDone \/ Count

Next == Expand \/ Done

Spec == Init /\ [][Next]_vars

-----------------------------------------------------------------------------
(* Properties *)

TypeOK ==
  /\ item \in Items
  /\ pc \in {"shape", "struct", "fields", "done"}
  /\ kind \in Literal \cup {"none"} /\ aggregate \in Literal \cup {"none"}
  /\ i \in 1..Len(item.metas) + 1
  /\ f \in 1..Len(item.fields) + 1
  /\ a \in Nat /\ m \in Nat
  /\ is_aggregate_id \in BOOLEAN /\ field_marked \in BOOLEAN
  /\ found \in Seq(DOMAIN item.fields)

\* What is asked of the struct: a non-empty string for each of the two keys,
\* once, and nothing else.
StructRight ==
  /\ \A j \in DOMAIN item.metas : /\ item.metas[j].key \in {"kind", "aggregate"}
                                  /\ item.metas[j].value \in Literal
  /\ \A key \in {"kind", "aggregate"} :
       Cardinality({j \in DOMAIN item.metas : item.metas[j].key = key}) = 1

\* The marks on fields: field, attribute and meta.
Marks ==
  UNION {UNION {{<<n, b, j>> : j \in DOMAIN item.fields[n].attrs[b]} :
                  b \in DOMAIN item.fields[n].attrs} :
           n \in DOMAIN item.fields}

Mark(p) == item.fields[p[1]].attrs[p[2]][p[3]]

\* Every mark is a bare aggregate_id, and no field has two.
FieldsRight ==
  /\ \A p \in Marks : Mark(p) = [key |-> "aggregate_id", value |-> "none"]
  /\ \A p, q \in Marks : p[1] = q[1] => p = q

\* The field that is marked, alone, and a Uuid.
Chosen(n) ==
  /\ {p[1] : p \in Marks} = {n}
  /\ is_uuid_type(item.fields[n].type)

\* The macro accepts what it documents and nothing else, in whatever order and
\* number of attributes it is written, and the implementation has the values
\* of the literals and of the field that were given.
AcceptsExactly ==
  pc = "done" =>
    /\ (result.error = "none") <=>
         /\ item.shape = "named" /\ StructRight /\ FieldsRight
         /\ \E n \in DOMAIN item.fields : Chosen(n)
    /\ result.error = "none" =>
         /\ Chosen(result.field)
         /\ \A j \in DOMAIN item.metas :
              item.metas[j].value = IF item.metas[j].key = "kind" THEN result.kind
                                    ELSE result.aggregate

\* The error is about what is really wrong.  A complaint about the fields as a
\* whole is made only when each attribute, of the struct and of every field,
\* is right by itself; it is "several" only if two fields are marked.
ErrorIsTrue ==
  pc = "done" =>
    /\ result.error \in {"no field marked", "several fields marked", "not a Uuid"}
         => StructRight /\ FieldsRight
    /\ result.error \in {"kind missing", "aggregate missing"} => ~ StructRight
    /\ result.error = "several fields marked"
         <=> /\ item.shape = "named" /\ StructRight /\ FieldsRight
             /\ \E p, q \in Marks : p[1] # q[1]
    /\ result.error \in {"repeated on field", "repeated in attribute"}
         => \E p, q \in Marks : p # q /\ p[1] = q[1]

=============================================================================
