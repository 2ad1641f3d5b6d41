----------------------- MODULE DeriveDomainEventProofs -----------------------
(***************************************************************************)
(* Theorems about DeriveDomainEvent: what the macro accepts, and what it   *)
(* says of what it rejects, for items with any number of attributes,       *)
(* metas and fields.                                                       *)
(***************************************************************************)
EXTENDS DeriveDomainEvent, FiniteSetTheorems, TLAPS

Bare == [key |-> "aggregate_id", value |-> "none"]

\* The attributes of a field.
AttrsOf(n) == item.fields[n].attrs

-----------------------------------------------------------------------------
(* Items *)

\* What an item is made of.
LEMMA ItemParts ==
  ASSUME item \in Items
  PROVE  /\ item.shape \in {"enum", "union", "tuple", "named"}
         /\ item.metas \in Seq(Meta)
         /\ item.fields \in Seq(Field)
         /\ DOMAIN item.metas = 1..Len(item.metas) /\ Len(item.metas) \in Nat
         /\ DOMAIN item.fields = 1..Len(item.fields) /\ Len(item.fields) \in Nat
         /\ \A j \in DOMAIN item.metas : item.metas[j] \in Meta
         /\ \A n \in DOMAIN item.fields :
              /\ AttrsOf(n) \in Seq(Seq(Meta))
              /\ DOMAIN AttrsOf(n) = 1..Len(AttrsOf(n)) /\ Len(AttrsOf(n)) \in Nat
              /\ \A b \in DOMAIN AttrsOf(n) :
                   /\ AttrsOf(n)[b] \in Seq(Meta)
                   /\ DOMAIN AttrsOf(n)[b] = 1..Len(AttrsOf(n)[b])
                   /\ Len(AttrsOf(n)[b]) \in Nat
<1>1. item \in Item
  BY DeriveAssumption
<1>2. /\ item.shape \in {"enum", "union", "tuple", "named"}
      /\ item.metas \in Seq(Meta)
      /\ item.fields \in Seq(Field)
  BY <1>1 DEF Item
<1>3. ASSUME NEW n \in DOMAIN item.fields
      PROVE  /\ AttrsOf(n) \in Seq(Seq(Meta))
             /\ DOMAIN AttrsOf(n) = 1..Len(AttrsOf(n)) /\ Len(AttrsOf(n)) \in Nat
             /\ \A b \in DOMAIN AttrsOf(n) :
                  /\ AttrsOf(n)[b] \in Seq(Meta)
                  /\ DOMAIN AttrsOf(n)[b] = 1..Len(AttrsOf(n)[b])
                  /\ Len(AttrsOf(n)[b]) \in Nat
  <2>1. item.fields[n] \in Field
    BY <1>2
  <2>2. AttrsOf(n) \in Seq(Seq(Meta))
    BY <2>1 DEF Field, AttrsOf
  <2> HIDE DEF AttrsOf
  <2>3. \A b \in DOMAIN AttrsOf(n) : AttrsOf(n)[b] \in Seq(Meta)
    BY <2>2
  <2> QED
    BY <2>2, <2>3
<1> QED
  BY <1>2, <1>3

\* StructRight, without counting: no key occurs twice.
LEMMA StructRightIs ==
  ASSUME item \in Items
  PROVE  StructRight <=>
           /\ \A j \in DOMAIN item.metas :
                /\ item.metas[j].key \in {"kind", "aggregate"}
                /\ item.metas[j].value \in Literal
           /\ \A key \in {"kind", "aggregate"} :
                \E j \in DOMAIN item.metas : item.metas[j].key = key
           /\ \A j, k \in DOMAIN item.metas :
                item.metas[j].key = item.metas[k].key => j = k
<1> DEFINE At(key) == {j \in DOMAIN item.metas : item.metas[j].key = key}
<1>1. \A key : IsFiniteSet(At(key))
  <2>1. IsFiniteSet(DOMAIN item.metas)
    <3>1. DOMAIN item.metas = 1..Len(item.metas) /\ Len(item.metas) \in Int
      BY ItemParts
    <3>2. \A n \in Int : IsFiniteSet(1..n)
      <4> TAKE n \in Int
      <4>1. 1 \in Int
        OBVIOUS
      <4> HIDE DEF At
      <4> QED
        BY <4>1, FS_Interval
    <3> QED
      BY <3>1, <3>2
  <2> QED
    BY <2>1, FS_Subset
<1>2. \A key : Cardinality(At(key)) = 1 <=> \E j : At(key) = {j}
  BY <1>1, FS_Singleton
<1>3. \A key : (\E j : At(key) = {j}) <=>
          /\ \E j \in DOMAIN item.metas : item.metas[j].key = key
          /\ \A j, k \in DOMAIN item.metas :
               item.metas[j].key = key /\ item.metas[k].key = key => j = k
  <2> TAKE key
  <2>1. ASSUME NEW j, At(key) = {j}
        PROVE  /\ j \in DOMAIN item.metas /\ item.metas[j].key = key
               /\ \A k \in DOMAIN item.metas : item.metas[k].key = key => k = j
    BY <2>1
  <2>2. ASSUME NEW j \in DOMAIN item.metas, item.metas[j].key = key,
               \A k \in DOMAIN item.metas : item.metas[k].key = key => k = j
        PROVE  At(key) = {j}
    BY <2>2
  <2> QED
    BY <2>1, <2>2
<1>4. StructRight <=>
        /\ \A j \in DOMAIN item.metas :
             /\ item.metas[j].key \in {"kind", "aggregate"}
             /\ item.metas[j].value \in Literal
        /\ \A key \in {"kind", "aggregate"} : \E j : At(key) = {j}
  BY <1>2 DEF StructRight
<1> HIDE DEF At
<1> QED
  BY <1>3, <1>4

\* The marks are the metas of the fields' attributes.
LEMMA MarksAre ==
  /\ \A n \in DOMAIN item.fields : \A b \in DOMAIN AttrsOf(n) :
       \A j \in DOMAIN AttrsOf(n)[b] :
         <<n, b, j>> \in Marks /\ Mark(<<n, b, j>>) = AttrsOf(n)[b][j]
  /\ \A p \in Marks :
       /\ p[1] \in DOMAIN item.fields
       /\ p[2] \in DOMAIN AttrsOf(p[1])
       /\ p[3] \in DOMAIN AttrsOf(p[1])[p[2]]
       /\ p = <<p[1], p[2], p[3]>>
       /\ Mark(p) = AttrsOf(p[1])[p[2]][p[3]]
BY DEF Marks, Mark, AttrsOf

\* An attribute of a field says nothing, or aggregate_id.
AttrRight(metas) == \A j \in DOMAIN metas : j = 1 /\ metas[j] = Bare

\* The first attributes of a field are right, and one of them marks it at most.
FieldRight(n, upto) ==
  /\ \A b \in 1..upto : AttrRight(AttrsOf(n)[b])
  /\ \A b, c \in 1..upto :
       AttrsOf(n)[b] # <<>> /\ AttrsOf(n)[c] # <<>> => b = c

\* One of the first attributes of a field marks it.
Marked(n, upto) == \E b \in 1..upto : AttrsOf(n)[b] # <<>>

\* FieldsRight, field by field and attribute by attribute.
LEMMA FieldsRightIs ==
  ASSUME item \in Items
  PROVE  /\ FieldsRight <=>
              \A n \in DOMAIN item.fields : FieldRight(n, Len(AttrsOf(n)))
         /\ \A n : (\E p \in Marks : p[1] = n) <=>
              n \in DOMAIN item.fields /\ Marked(n, Len(AttrsOf(n)))
<1>1. \A n \in DOMAIN item.fields : \A b \in 1..Len(AttrsOf(n)) :
        /\ b \in DOMAIN AttrsOf(n)
        /\ DOMAIN AttrsOf(n)[b] = 1..Len(AttrsOf(n)[b])
        /\ AttrsOf(n)[b] # <<>> => 1 \in DOMAIN AttrsOf(n)[b]
        /\ AttrsOf(n)[b] = <<>> => DOMAIN AttrsOf(n)[b] = {}
  <2> TAKE n \in DOMAIN item.fields
  <2> TAKE b \in 1..Len(AttrsOf(n))
  <2>1. /\ AttrsOf(n)[b] \in Seq(Meta) /\ b \in DOMAIN AttrsOf(n)
        /\ DOMAIN AttrsOf(n)[b] = 1..Len(AttrsOf(n)[b])
    BY ItemParts
  <2> QED
    BY <2>1
<1>2. \A n \in DOMAIN item.fields : DOMAIN AttrsOf(n) = 1..Len(AttrsOf(n))
  BY ItemParts
<1> HIDE DEF AttrsOf
<1>3. ASSUME FieldsRight, NEW n \in DOMAIN item.fields
      PROVE  FieldRight(n, Len(AttrsOf(n)))
  <2>1. ASSUME NEW b \in 1..Len(AttrsOf(n)), NEW j \in DOMAIN AttrsOf(n)[b]
        PROVE  j = 1 /\ AttrsOf(n)[b][j] = Bare
    <3>1. <<n, b, j>> \in Marks /\ Mark(<<n, b, j>>) = AttrsOf(n)[b][j]
      BY <1>1, MarksAre
    <3>2. AttrsOf(n)[b] # <<>>
      BY <1>1
    <3>3. <<n, b, 1>> \in Marks
      BY <1>1, <3>2, MarksAre
    <3>4. <<n, b, j>> = <<n, b, 1>>
      BY <1>3, <3>1, <3>3 DEF FieldsRight
    <3> QED
      BY <1>3, <3>1, <3>4 DEF FieldsRight, Bare
  <2>2. ASSUME NEW b \in 1..Len(AttrsOf(n)), NEW c \in 1..Len(AttrsOf(n)),
               AttrsOf(n)[b] # <<>>, AttrsOf(n)[c] # <<>>
        PROVE  b = c
    <3>1. <<n, b, 1>> \in Marks /\ <<n, c, 1>> \in Marks
      BY <1>1, <2>2, MarksAre
    <3>2. <<n, b, 1>> = <<n, c, 1>>
      BY <1>3, <3>1 DEF FieldsRight
    <3> QED
      BY <3>2
  <2> QED
    BY <2>1, <2>2 DEF FieldRight, AttrRight
<1>4. ASSUME \A n \in DOMAIN item.fields : FieldRight(n, Len(AttrsOf(n)))
      PROVE  FieldsRight
  <2>1. \A p \in Marks :
          /\ p[1] \in DOMAIN item.fields
          /\ p[2] \in 1..Len(AttrsOf(p[1]))
          /\ p[3] = 1 /\ Mark(p) = Bare
          /\ p = <<p[1], p[2], p[3]>>
          /\ AttrsOf(p[1])[p[2]] # <<>>
    <3> TAKE p \in Marks
    <3>1. /\ p[1] \in DOMAIN item.fields
          /\ p[2] \in 1..Len(AttrsOf(p[1]))
          /\ p[3] \in DOMAIN AttrsOf(p[1])[p[2]]
          /\ p = <<p[1], p[2], p[3]>>
          /\ Mark(p) = AttrsOf(p[1])[p[2]][p[3]]
      BY <1>2, MarksAre
    <3>2. AttrRight(AttrsOf(p[1])[p[2]])
      BY <1>4, <3>1 DEF FieldRight
    <3>3. AttrsOf(p[1])[p[2]] # <<>>
      BY <1>1, <3>1
    <3> QED
      BY <3>1, <3>2, <3>3 DEF AttrRight
  <2>2. ASSUME NEW p \in Marks, NEW q \in Marks, p[1] = q[1]
        PROVE  p = q
    <3>1. p[2] = q[2]
      BY <1>4, <2>1, <2>2 DEF FieldRight
    <3> QED
      BY <2>1, <2>2, <3>1
  <2> QED
    BY <2>1, <2>2 DEF FieldsRight, Bare
<1>5. ASSUME NEW n, NEW p \in Marks, p[1] = n
      PROVE  n \in DOMAIN item.fields /\ Marked(n, Len(AttrsOf(n)))
  BY <1>1, <1>2, <1>5, MarksAre DEF Marked
<1>6. ASSUME NEW n \in DOMAIN item.fields, Marked(n, Len(AttrsOf(n)))
      PROVE  \E p \in Marks : p[1] = n
  <2>1. PICK b \in 1..Len(AttrsOf(n)) : AttrsOf(n)[b] # <<>>
    BY <1>6 DEF Marked
  <2>2. <<n, b, 1>> \in Marks
    BY <1>1, <2>1, MarksAre
  <2> QED
    BY <2>2
<1> QED
  BY <1>3, <1>4, <1>5, <1>6

-----------------------------------------------------------------------------
(* The inductive invariant *)

\* The metas before i are right, and gave kind and aggregate their values.
StructSeen ==
  /\ \A j \in 1..i - 1 :
       /\ item.metas[j].key \in {"kind", "aggregate"}
       /\ item.metas[j].value \in Literal
       /\ item.metas[j].value =
            IF item.metas[j].key = "kind" THEN kind ELSE aggregate
  /\ \A j, k \in 1..i - 1 : item.metas[j].key = item.metas[k].key => j = k
  /\ kind # "none" => \E j \in 1..i - 1 : item.metas[j].key = "kind"
  /\ aggregate # "none" => \E j \in 1..i - 1 : item.metas[j].key = "aggregate"

\* The struct was right when the loop over the fields began.
StructDone ==
  /\ item.shape = "named"
  /\ i = Len(item.metas) + 1
  /\ kind # "none" /\ aggregate # "none"

\* The fields before f are right.
FieldsBefore == \A n \in 1..f - 1 : FieldRight(n, Len(AttrsOf(n)))

\* The attributes of field f before attribute a are right, and so is what was
\* read of that one; the two flags say which of them mark the field.
FieldNow ==
  /\ f <= Len(item.fields) =>
       /\ a \in 1..Len(AttrsOf(f)) + 1
       /\ FieldRight(f, a - 1)
       /\ field_marked <=> Marked(f, a - 1)
       /\ m \in 1..2
       /\ is_aggregate_id <=> m = 2
       /\ m = 2 => /\ a <= Len(AttrsOf(f))
                   /\ Len(AttrsOf(f)[a]) >= 1
                   /\ AttrsOf(f)[a][1] = Bare
  /\ f > Len(item.fields) =>
       a = 1 /\ m = 1 /\ ~ is_aggregate_id /\ ~ field_marked

\* found has the fields marked so far, each of them once.
FoundAre ==
  /\ \A n \in 1..f - 1 :
       (\E k \in DOMAIN found : found[k] = n) <=> Marked(n, Len(AttrsOf(n)))
  /\ \A k \in DOMAIN found : found[k] < f \/ (found[k] = f /\ field_marked)
  /\ field_marked => \E k \in DOMAIN found : found[k] = f
  /\ \A j, k \in DOMAIN found : found[j] = found[k] => j = k

FieldsSeen == FieldsBefore /\ FieldNow /\ FoundAre

IndInv ==
  /\ TypeOK
  /\ pc # "done" => StructSeen
  /\ pc \in {"shape", "struct"} =>
       /\ f = 1 /\ a = 1 /\ m = 1 /\ found = <<>>
       /\ ~ is_aggregate_id /\ ~ field_marked
  /\ pc = "struct" => item.shape \notin {"enum", "union"}
  /\ pc = "fields" => StructDone /\ FieldsSeen
  /\ AcceptsExactly
  /\ ErrorIsTrue

\* A struct all of whose metas have been seen is right.
LEMMA SeenIsRight ==
  ASSUME TypeOK, StructSeen, StructDone
  PROVE  StructRight
<1>1. DOMAIN item.metas = 1..i - 1
  BY ItemParts DEF TypeOK, StructDone
<1> QED
  BY <1>1, StructRightIs DEF TypeOK, StructSeen, StructDone

\* The item is what it was.
LEMMA SameItem ==
  ASSUME item' = item
  PROVE  /\ StructRight' = StructRight /\ FieldsRight' = FieldsRight
         /\ Marks' = Marks
         /\ \A n : Chosen(n)' = Chosen(n)
<1>1. StructRight' = StructRight
  BY DEF StructRight
<1>2. Marks' = Marks
  BY DEF Marks
<1>3. FieldsRight' = FieldsRight
  BY <1>2 DEF FieldsRight, Mark
<1>4. \A n : Chosen(n)' = Chosen(n)
  BY <1>2 DEF Chosen, is_uuid_type
<1> QED
  BY <1>1, <1>2, <1>3, <1>4

\* The properties do not speak of a macro that has not returned.
LEMMA NotDone ==
  ASSUME pc' # "done"
  PROVE  AcceptsExactly' /\ ErrorIsTrue'
BY DEF AcceptsExactly, ErrorIsTrue

\* The errors that are made before the fields are read, or about one of them.
Early == {"not a struct", "value expected", "not a string", "key repeated",
          "empty", "field attribute on struct", "unknown key",
          "fields not named", "unknown key on field", "comma expected"}

\* What the macro returns, it returns for the item it was given.
LEMMA ReturnSame ==
  ASSUME TypeOK, NEW value, Return(value)
  PROVE  TypeOK' /\ pc' = "done" /\ result' = value /\ item' = item
BY DEF Return, structVars, fieldVars, TypeOK

\* So it does an error, of the name it is given.
LEMMA ReturnError ==
  ASSUME TypeOK, NEW name, Return(Error(name))
  PROVE  TypeOK' /\ pc' = "done" /\ item' = item /\ result'.error = name
<1>1. TypeOK' /\ pc' = "done" /\ item' = item /\ result' = Error(name)
  BY ReturnSame
<1> QED
  BY <1>1 DEF Error

\* An early error is true of an item that is wrong in one of the three ways.
LEMMA ReturnEarly ==
  ASSUME TypeOK, NEW name \in Early, Return(Error(name)),
         \/ item.shape # "named"
         \/ ~ StructRight
         \/ ~ FieldsRight
  PROVE  IndInv'
<1>1. /\ TypeOK' /\ pc' = "done" /\ item' = item
      /\ result'.error = name
  BY ReturnError
<1>2. /\ name # "none" /\ name # "several fields marked"
      /\ name \notin {"no field marked", "several fields marked", "not a Uuid"}
      /\ name \notin {"kind missing", "aggregate missing"}
      /\ name \notin {"repeated on field", "repeated in attribute"}
  BY DEF Early
<1>3. AcceptsExactly'
  BY <1>1, <1>2, SameItem DEF AcceptsExactly
<1>4. ErrorIsTrue'
  BY <1>1, <1>2, SameItem DEF ErrorIsTrue
<1> QED
  BY <1>1, <1>3, <1>4 DEF IndInv

\* So is the lack of a key.
LEMMA ReturnMissing ==
  ASSUME TypeOK, NEW name \in {"kind missing", "aggregate missing"},
         Return(Error(name)), ~ StructRight
  PROVE  IndInv'
<1>1. /\ TypeOK' /\ pc' = "done" /\ item' = item
      /\ result'.error = name
  BY ReturnError
<1>2. AcceptsExactly'
  BY <1>1, SameItem DEF AcceptsExactly
<1>3. ErrorIsTrue'
  BY <1>1, SameItem DEF ErrorIsTrue
<1> QED
  BY <1>1, <1>2, <1>3 DEF IndInv

\* And the complaint that a field is marked again.
LEMMA ReturnRepeated ==
  ASSUME TypeOK, NEW name \in {"repeated on field", "repeated in attribute"},
         Return(Error(name)),
         NEW p \in Marks, NEW q \in Marks, p # q, p[1] = q[1]
  PROVE  IndInv'
<1>1. /\ TypeOK' /\ pc' = "done" /\ item' = item
      /\ result'.error = name
  BY ReturnError
<1>2. ~ FieldsRight
  BY DEF FieldsRight
<1>3. AcceptsExactly'
  BY <1>1, <1>2, SameItem DEF AcceptsExactly
<1>4. ErrorIsTrue'
  BY <1>1, <1>2, SameItem DEF ErrorIsTrue
<1> QED
  BY <1>1, <1>3, <1>4 DEF IndInv

-----------------------------------------------------------------------------
(* The loop over the metas of the struct *)

\* A meta in which the loop finds an error makes the struct wrong.
LEMMA StructErrorWrong ==
  ASSUME TypeOK, StructSeen, i <= Len(item.metas),
         StructError(item.metas[i]) # "none"
  PROVE  /\ StructError(item.metas[i]) \in Early
         /\ ~ StructRight
<1> DEFINE x == item.metas[i]
<1>1. /\ i \in DOMAIN item.metas /\ i \in Nat
      /\ DOMAIN item.metas = 1..Len(item.metas) /\ Len(item.metas) \in Nat
  BY ItemParts DEF TypeOK
<1>2. x.key \in {"kind", "aggregate", "aggregate_id", "unknown"}
  <2>1. x \in Meta
    BY <1>1, ItemParts DEF TypeOK
  <2> QED
    BY <2>1 DEF Meta
<1> SUFFICES ASSUME StructRight
             PROVE  FALSE
  BY <1>2 DEF StructError, ValueError, Early
<1>3. x.key \in {"kind", "aggregate"} /\ x.value \in Literal
  BY <1>1 DEF StructRight
<1>4. \A j \in DOMAIN item.metas : item.metas[j].key = x.key => j = i
  BY <1>1, StructRightIs DEF TypeOK
<1>5. x.value \notin {"none", "number", ""}
  BY <1>3, DeriveAssumption DEF NonLiteral
<1>6. CASE x.key = "kind"
  <2>1. kind = "none"
    BY <1>1, <1>4, <1>6 DEF StructSeen
  <2> QED
    BY <1>5, <1>6, <2>1 DEF StructError, ValueError
<1>7. CASE x.key = "aggregate"
  <2>1. aggregate = "none"
    BY <1>1, <1>4, <1>7 DEF StructSeen
  <2> QED
    BY <1>5, <1>7, <2>1 DEF StructError, ValueError
<1> QED
  BY <1>3, <1>6, <1>7

\* A meta without an error gives its key the value.
LEMMA StructMetaSeen ==
  ASSUME IndInv, StructMeta, StructError(item.metas[i]) = "none"
  PROVE  IndInv'
<1> DEFINE x == item.metas[i]
<1>1. /\ TypeOK /\ StructSeen /\ pc = "struct"
      /\ i \in DOMAIN item.metas /\ i \in Nat
      /\ DOMAIN item.metas = 1..Len(item.metas) /\ Len(item.metas) \in Nat
  BY ItemParts DEF IndInv, TypeOK, StructMeta
<1>2. /\ kind' = (IF x.key = "kind" THEN x.value ELSE kind)
      /\ aggregate' = (IF x.key = "aggregate" THEN x.value ELSE aggregate)
      /\ i' = i + 1
      /\ UNCHANGED <<item, pc, fieldVars, result>>
  BY DEF StructMeta
<1>3. /\ x.key \in {"kind", "aggregate"}
      /\ x.value \in Literal /\ x.value # "none"
      /\ x.key = "kind" => kind = "none"
      /\ x.key = "aggregate" => aggregate = "none"
  <2>1. /\ x.key \in {"kind", "aggregate", "aggregate_id", "unknown"}
        /\ x.value \in Literal \cup NonLiteral
    <3>1. x \in Meta
      BY <1>1, ItemParts DEF TypeOK
    <3> QED
      BY <3>1 DEF Meta
  <2>2. CASE x.key = "kind"
    <3>1. ValueError(x.value, kind) = "none"
      BY <2>2 DEF StructError
    <3> QED
      BY <2>1, <2>2, <3>1 DEF ValueError, NonLiteral
  <2>3. CASE x.key = "aggregate"
    <3>1. ValueError(x.value, aggregate) = "none"
      BY <2>3 DEF StructError
    <3> QED
      BY <2>1, <2>3, <3>1 DEF ValueError, NonLiteral
  <2>4. CASE x.key \in {"aggregate_id", "unknown"}
    BY <2>4 DEF StructError
  <2> QED
    BY <2>1, <2>2, <2>3, <2>4
<1>4. TypeOK'
  <2>1. i' \in 1..Len(item.metas) + 1
    BY <1>1, <1>2
  <2>2. kind' \in Literal \cup {"none"} /\ aggregate' \in Literal \cup {"none"}
    BY <1>1, <1>2, <1>3 DEF TypeOK
  <2> QED
    BY <1>1, <1>2, <2>1, <2>2 DEF TypeOK, fieldVars
<1>5. StructSeen'
  <2>1. \A j \in 1..i' - 1 : j \in 1..i - 1 \/ j = i
    BY <1>1, <1>2
  <2>2. i \in 1..i' - 1 /\ \A j \in 1..i - 1 : j \in 1..i' - 1
    BY <1>1, <1>2
  <2>3. \A j \in 1..i - 1 : item.metas[j].key # x.key
    <3> TAKE j \in 1..i - 1
    <3>1. /\ item.metas[j].value # "none"
          /\ item.metas[j].value =
               IF item.metas[j].key = "kind" THEN kind ELSE aggregate
      BY <1>1, DeriveAssumption DEF StructSeen, NonLiteral
    <3> QED
      BY <1>3, <3>1
  <2>4. \A j \in 1..i' - 1 :
          /\ item.metas[j].key \in {"kind", "aggregate"}
          /\ item.metas[j].value \in Literal
          /\ item.metas[j].value =
               IF item.metas[j].key = "kind" THEN kind' ELSE aggregate'
    BY <1>1, <1>2, <1>3, <2>1, <2>3 DEF StructSeen
  <2>5. \A j, k \in 1..i' - 1 :
          item.metas[j].key = item.metas[k].key => j = k
    BY <1>1, <2>1, <2>3 DEF StructSeen
  <2>6. /\ kind' # "none" => \E j \in 1..i' - 1 : item.metas[j].key = "kind"
        /\ aggregate' # "none" =>
             \E j \in 1..i' - 1 : item.metas[j].key = "aggregate"
    BY <1>1, <1>2, <2>2 DEF StructSeen
  <2> QED
    BY <1>2, <2>4, <2>5, <2>6 DEF StructSeen
<1>6. AcceptsExactly' /\ ErrorIsTrue'
  BY <1>1, <1>2, NotDone
<1> QED
  BY <1>1, <1>2, <1>4, <1>5, <1>6 DEF IndInv, fieldVars

\* The checks after the loop: both keys were given, and the fields have names.
LEMMA RequiredStep ==
  ASSUME IndInv, Required
  PROVE  IndInv'
<1>1. /\ TypeOK /\ StructSeen /\ pc = "struct"
      /\ item.shape \in {"enum", "union", "tuple", "named"}
      /\ item.shape \notin {"enum", "union"}
      /\ i \in 1..Len(item.metas) + 1 /\ i > Len(item.metas)
      /\ DOMAIN item.metas = 1..Len(item.metas) /\ Len(item.metas) \in Nat
  BY ItemParts DEF IndInv, TypeOK, Required
<1>2. i = Len(item.metas) + 1
  BY <1>1
<1>3. DOMAIN item.metas = 1..i - 1
  BY <1>1, <1>2
<1>4. CASE kind = "none"
  <2>1. \A j \in DOMAIN item.metas : item.metas[j].key # "kind"
    BY <1>3, <1>1, <1>4, DeriveAssumption DEF StructSeen, NonLiteral
  <2>2. ~ StructRight
    BY <1>1, <2>1, StructRightIs DEF TypeOK
  <2> QED
    BY <1>1, <1>4, <2>2, ReturnMissing DEF Required
<1>5. CASE kind # "none" /\ aggregate = "none"
  <2>1. \A j \in DOMAIN item.metas : item.metas[j].key # "aggregate"
    BY <1>3, <1>1, <1>5, DeriveAssumption DEF StructSeen, NonLiteral
  <2>2. ~ StructRight
    BY <1>1, <2>1, StructRightIs DEF TypeOK
  <2> QED
    BY <1>1, <1>5, <2>2, ReturnMissing DEF Required
<1>6. CASE kind # "none" /\ aggregate # "none" /\ item.shape = "tuple"
  <2>1. Return(Error("fields not named")) /\ "fields not named" \in Early
    BY <1>6 DEF Required, Early
  <2> QED
    BY <1>1, <1>6, <2>1, ReturnEarly
<1>7. CASE kind # "none" /\ aggregate # "none" /\ item.shape # "tuple"
  <2>1. /\ pc' = "fields"
        /\ UNCHANGED <<item, structVars, fieldVars, result>>
        /\ item.shape = "named"
    BY <1>1, <1>7 DEF Required
  <2>2. /\ f = 1 /\ a = 1 /\ m = 1 /\ found = <<>>
        /\ ~ is_aggregate_id /\ ~ field_marked
    BY <1>1 DEF IndInv
  <2>3. UNCHANGED <<kind, aggregate, i, f, a, m, is_aggregate_id, field_marked,
                    found>>
    BY <2>1 DEF structVars, fieldVars
  <2>4. TypeOK'
    BY <1>1, <2>1, <2>3 DEF TypeOK
  <2>5. StructSeen' /\ StructDone'
    BY <1>1, <1>2, <1>7, <2>1, <2>3 DEF StructSeen, StructDone
  <2>6. FieldsSeen
    <3>1. f <= Len(item.fields) => Len(AttrsOf(1)) \in Nat
      BY <1>1, <2>2, ItemParts DEF TypeOK
    <3>2. /\ 1..f - 1 = {} /\ 1..a - 1 = {} /\ DOMAIN found = {}
          /\ f <= Len(item.fields) => a \in 1..Len(AttrsOf(f)) + 1
      BY <2>2, <3>1
    <3>3. FieldRight(f, a - 1) /\ ~ Marked(f, a - 1)
      BY <3>2 DEF FieldRight, Marked
    <3>4. m \in 1..2
      BY <2>2
    <3> QED
      BY <2>2, <3>2, <3>3, <3>4 DEF FieldsSeen, FieldsBefore, FieldNow, FoundAre
  <2>7. FieldsSeen'
    <3>1. FieldsBefore'
      BY <2>1, <2>3, <2>6 DEF FieldsSeen, FieldsBefore, FieldRight, AttrRight, AttrsOf
    <3>2. FieldNow'
      BY <2>1, <2>3, <2>6
         DEF FieldsSeen, FieldNow, FieldRight, AttrRight, Marked, AttrsOf
    <3>3. FoundAre'
      BY <2>1, <2>3, <2>6 DEF FieldsSeen, FoundAre, Marked, AttrsOf
    <3> QED
      BY <3>1, <3>2, <3>3 DEF FieldsSeen
  <2>8. AcceptsExactly' /\ ErrorIsTrue'
    BY <2>1, NotDone
  <2> QED
    BY <2>1, <2>4, <2>5, <2>7, <2>8 DEF IndInv
<1> QED
  BY <1>4, <1>5, <1>6, <1>7

\* No round of the loop disturbs what is known of the fields.
LEMMA StructMetaStep ==
  ASSUME IndInv, StructMeta
  PROVE  IndInv'
<1>1. TypeOK /\ StructSeen /\ i <= Len(item.metas)
  BY DEF IndInv, StructMeta
<1>2. CASE StructError(item.metas[i]) # "none"
  <2>1. Return(Error(StructError(item.metas[i])))
    BY <1>2 DEF StructMeta
  <2>2. StructError(item.metas[i]) \in Early /\ ~ StructRight
    BY <1>1, <1>2, StructErrorWrong
  <2> HIDE DEF StructError
  <2> QED
    BY <1>1, <2>1, <2>2, ReturnEarly
<1> QED
  BY <1>2, StructMetaSeen

\* The first check: the item is a struct.
LEMMA ShapeStep ==
  ASSUME IndInv, Shape
  PROVE  IndInv'
<1>1. TypeOK /\ pc = "shape"
  BY DEF IndInv, Shape
<1>2. CASE item.shape \in {"enum", "union"}
  <2>1. Return(Error("not a struct")) /\ "not a struct" \in Early
    BY <1>2 DEF Shape, Early
  <2> QED
    BY <1>1, <1>2, <2>1, ReturnEarly
<1>3. CASE item.shape \notin {"enum", "union"}
  <2>1. /\ pc' = "struct"
        /\ UNCHANGED <<item, structVars, fieldVars, result>>
    BY <1>3 DEF Shape
  <2>2. UNCHANGED <<kind, aggregate, i, f, a, m, is_aggregate_id, field_marked,
                    found>>
    BY <2>1 DEF structVars, fieldVars
  <2>3. TypeOK'
    BY <1>1, <2>1, <2>2 DEF TypeOK
  <2>4. StructSeen'
    BY <1>1, <2>1, <2>2 DEF IndInv, StructSeen
  <2>5. AcceptsExactly' /\ ErrorIsTrue'
    BY <2>1, NotDone
  <2> QED
    BY <1>1, <1>3, <2>1, <2>2, <2>3, <2>4, <2>5 DEF IndInv
<1> QED
  BY <1>2, <1>3

-----------------------------------------------------------------------------
(* The loop over the fields *)

\* The field and the attribute the loop is at.
LEMMA AtAttr ==
  ASSUME TypeOK, FieldsSeen, InAttr
  PROVE  /\ f \in DOMAIN item.fields /\ f \in Nat
         /\ Attrs = AttrsOf(f)
         /\ a \in DOMAIN AttrsOf(f) /\ a \in 1..Len(AttrsOf(f)) /\ a \in Nat
         /\ DOMAIN AttrsOf(f) = 1..Len(AttrsOf(f)) /\ Len(AttrsOf(f)) \in Nat
         /\ AttrsOf(f)[a] \in Seq(Meta)
         /\ DOMAIN AttrsOf(f)[a] = 1..Len(AttrsOf(f)[a])
         /\ Len(AttrsOf(f)[a]) \in Nat
<1>1. Attrs = AttrsOf(f) /\ f <= Len(item.fields) /\ a <= Len(AttrsOf(f))
  BY DEF Attrs, AttrsOf, InAttr, InField
<1>2. f \in DOMAIN item.fields /\ f \in Nat
  BY <1>1, ItemParts DEF TypeOK
<1>3. /\ DOMAIN AttrsOf(f) = 1..Len(AttrsOf(f)) /\ Len(AttrsOf(f)) \in Nat
      /\ \A b \in DOMAIN AttrsOf(f) :
           /\ AttrsOf(f)[b] \in Seq(Meta)
           /\ DOMAIN AttrsOf(f)[b] = 1..Len(AttrsOf(f)[b])
           /\ Len(AttrsOf(f)[b]) \in Nat
  BY <1>2, ItemParts DEF TypeOK
<1>4. a \in 1..Len(AttrsOf(f)) + 1
  BY <1>1 DEF FieldsSeen, FieldNow
<1>5. a \in 1..Len(AttrsOf(f)) /\ a \in Nat
  BY <1>1, <1>3, <1>4
<1> QED
  BY <1>1, <1>2, <1>3, <1>5

\* A wrong attribute makes the fields wrong.
LEMMA AttrWrong ==
  ASSUME item \in Items, NEW n \in DOMAIN item.fields,
         NEW b \in DOMAIN AttrsOf(n), ~ AttrRight(AttrsOf(n)[b])
  PROVE  ~ FieldsRight
<1>1. b \in 1..Len(AttrsOf(n))
  BY ItemParts
<1> QED
  BY <1>1, FieldsRightIs DEF FieldRight

\* A round of the loop over the metas of an attribute.
LEMMA FieldMetaStep ==
  ASSUME IndInv, FieldMeta
  PROVE  IndInv'
<1> DEFINE x == AttrsOf(f)[a][m]
<1>1. /\ TypeOK /\ pc = "fields" /\ StructSeen /\ StructDone /\ FieldsSeen
      /\ InAttr /\ m <= Len(Attrs[a])
  BY DEF IndInv, FieldMeta, InAttr, InField
<1>2. /\ f \in DOMAIN item.fields /\ f \in Nat
      /\ Attrs = AttrsOf(f)
      /\ a \in DOMAIN AttrsOf(f) /\ a \in 1..Len(AttrsOf(f)) /\ a \in Nat
      /\ AttrsOf(f)[a] \in Seq(Meta)
      /\ DOMAIN AttrsOf(f)[a] = 1..Len(AttrsOf(f)[a])
      /\ Len(AttrsOf(f)[a]) \in Nat
  BY <1>1, AtAttr
<1>3. f <= Len(item.fields)
  BY <1>1 DEF InAttr, InField
<1>4. /\ m \in 1..2 /\ (is_aggregate_id <=> m = 2)
      /\ m \in DOMAIN AttrsOf(f)[a]
  BY <1>1, <1>2, <1>3 DEF FieldsSeen, FieldNow
<1>5. x \in Meta
  BY <1>2, <1>4
<1>6. /\ FieldError(x) # "none" => Return(Error(FieldError(x)))
      /\ FieldError(x) = "none" =>
           /\ is_aggregate_id' = TRUE
           /\ m' = m + 1
           /\ UNCHANGED <<item, pc, structVars, f, a, field_marked, found, result>>
  BY <1>2 DEF FieldMeta
<1>7. CASE FieldError(x) \in {"unknown key on field", "comma expected"}
  <2>1. x # Bare
    BY <1>7 DEF FieldError, Bare
  <2>2. ~ AttrRight(AttrsOf(f)[a])
    BY <1>4, <2>1 DEF AttrRight
  <2>3. ~ FieldsRight
    BY <1>1, <1>2, <2>2, AttrWrong DEF TypeOK
  <2>4. FieldError(x) \in Early /\ FieldError(x) # "none"
    BY <1>7 DEF Early
  <2> HIDE DEF x
  <2>5. Return(Error(FieldError(x)))
    BY <1>6, <2>4
  <2> QED
    BY <1>1, <2>3, <2>4, <2>5, ReturnEarly
<1>8. CASE FieldError(x) = "repeated in attribute"
  <2>1. m = 2
    BY <1>4, <1>8 DEF FieldError
  <2>2. 1 \in DOMAIN AttrsOf(f)[a] /\ 2 \in DOMAIN AttrsOf(f)[a]
    BY <1>2, <1>4, <2>1
  <2>3. <<f, a, 1>> \in Marks /\ <<f, a, 2>> \in Marks
    BY <1>2, <2>2, MarksAre
  <2>4. <<f, a, 1>> # <<f, a, 2>> /\ <<f, a, 1>>[1] = <<f, a, 2>>[1]
    OBVIOUS
  <2>5. Return(Error("repeated in attribute"))
    BY <1>6, <1>8
  <2> QED
    BY <1>1, <2>3, <2>4, <2>5, ReturnRepeated
<1>9. CASE FieldError(x) = "none"
  <2>1. x = Bare /\ ~ is_aggregate_id
    <3>1. x.key = "aggregate_id" /\ x.value = "none" /\ ~ is_aggregate_id
      BY <1>9 DEF FieldError
    <3> HIDE DEF x
    <3> QED
      BY <1>5, <3>1 DEF Meta, Bare
  <2>2. m = 1 /\ m' = 2 /\ AttrsOf(f)[a][1] = Bare
    BY <1>4, <1>6, <1>9, <2>1
  <2>3. /\ is_aggregate_id' = TRUE
        /\ UNCHANGED <<item, pc, kind, aggregate, i, f, a, field_marked, found,
                       result>>
    BY <1>6, <1>9 DEF structVars
  <2>4. TypeOK'
    BY <1>1, <2>2, <2>3 DEF TypeOK
  <2>5. StructSeen' /\ StructDone'
    BY <1>1, <2>3 DEF StructSeen, StructDone
  <2>6. Len(AttrsOf(f)[a]) >= 1 /\ a <= Len(AttrsOf(f))
    BY <1>2, <1>4, <2>2
  <2>7. FieldsSeen'
    <3>1. FieldsBefore'
      BY <1>1, <2>3 DEF FieldsSeen, FieldsBefore, FieldRight, AttrRight, AttrsOf
    <3>2. FieldNow'
      <4>1. /\ a \in 1..Len(AttrsOf(f)) + 1
            /\ FieldRight(f, a - 1)
            /\ field_marked <=> Marked(f, a - 1)
        BY <1>1, <1>3 DEF FieldsSeen, FieldNow
      <4>2. /\ a' \in 1..Len(AttrsOf(f)') + 1
            /\ FieldRight(f, a - 1)'
            /\ field_marked' <=> Marked(f, a - 1)'
        BY <2>3, <4>1 DEF FieldRight, AttrRight, Marked, AttrsOf
      <4>3. AttrsOf(f)' = AttrsOf(f)
        BY <2>3 DEF AttrsOf
      <4> HIDE DEF AttrsOf
      <4>4. m' \in 1..2 /\ (is_aggregate_id' <=> m' = 2)
        BY <2>2, <2>3
      <4>5. /\ a' <= Len(AttrsOf(f)')
            /\ Len(AttrsOf(f)'[a']) >= 1
            /\ AttrsOf(f)'[a'][1] = Bare
        BY <2>2, <2>3, <2>6, <4>3
      <4>6. f' <= Len(item'.fields) /\ ~ f' > Len(item'.fields)
        BY <1>2, <1>3, <2>3, ItemParts DEF TypeOK
      <4> QED
        BY <4>2, <4>4, <4>5, <4>6 DEF FieldNow
    <3>3. FoundAre'
      BY <1>1, <2>3 DEF FieldsSeen, FoundAre, Marked, AttrsOf
    <3> QED
      BY <3>1, <3>2, <3>3 DEF FieldsSeen
  <2>8. AcceptsExactly' /\ ErrorIsTrue'
    BY <1>1, <2>3, NotDone
  <2> QED
    BY <1>1, <2>3, <2>4, <2>5, <2>7, <2>8 DEF IndInv
<1> QED
  BY <1>7, <1>8, <1>9 DEF FieldError

\* An attribute has been read: all of it is right, and it is empty unless it
\* marks the field.
LEMMA AttrRead ==
  ASSUME TypeOK, FieldsSeen, AttrDone
  PROVE  /\ AttrRight(AttrsOf(f)[a])
         /\ is_aggregate_id <=> AttrsOf(f)[a] # <<>>
<1>1. InAttr /\ m > Len(Attrs[a]) /\ f <= Len(item.fields)
  BY DEF AttrDone, InAttr, InField
<1>2. /\ Attrs = AttrsOf(f)
      /\ AttrsOf(f)[a] \in Seq(Meta)
      /\ DOMAIN AttrsOf(f)[a] = 1..Len(AttrsOf(f)[a])
      /\ Len(AttrsOf(f)[a]) \in Nat
  BY <1>1, AtAttr
<1>3. /\ m \in 1..2 /\ (is_aggregate_id <=> m = 2)
      /\ m = 2 => Len(AttrsOf(f)[a]) >= 1 /\ AttrsOf(f)[a][1] = Bare
  BY <1>1 DEF FieldsSeen, FieldNow
<1> HIDE DEF AttrsOf
<1>4. CASE m = 1
  <2>1. Len(AttrsOf(f)[a]) = 0
    BY <1>1, <1>2, <1>4
  <2>2. AttrsOf(f)[a] = <<>>
    BY <1>2, <2>1
  <2>3. AttrRight(AttrsOf(f)[a])
    BY <1>2, <2>1 DEF AttrRight
  <2> QED
    BY <1>3, <1>4, <2>2, <2>3
<1>5. CASE m = 2
  <2>1. Len(AttrsOf(f)[a]) = 1
    <3>1. Len(AttrsOf(f)[a]) >= 1
      BY <1>3, <1>5
    <3>2. 2 > Len(AttrsOf(f)[a])
      BY <1>1, <1>2, <1>5
    <3>3. Len(AttrsOf(f)[a]) \in Nat
      BY <1>2
    <3>4. \A n \in Nat : n >= 1 /\ 2 > n => n = 1
      OBVIOUS
    <3> QED
      BY <3>1, <3>2, <3>3, <3>4
  <2>2. AttrsOf(f)[a] # <<>>
    <3>1. Len(<<>>) = 0
      OBVIOUS
    <3> QED
      BY <2>1, <3>1
  <2>3. AttrRight(AttrsOf(f)[a])
    BY <1>2, <1>3, <1>5, <2>1 DEF AttrRight
  <2> QED
    BY <1>3, <1>5, <2>2, <2>3
<1> QED
  BY <1>3, <1>4, <1>5

\* The end of an attribute: the field is marked, unless it was before.
LEMMA AttrDoneStep ==
  ASSUME IndInv, AttrDone
  PROVE  IndInv'
<1>1. /\ TypeOK /\ pc = "fields" /\ StructSeen /\ StructDone /\ FieldsSeen
      /\ InAttr /\ f <= Len(item.fields)
  BY DEF IndInv, AttrDone, InAttr, InField
<1>2. /\ f \in DOMAIN item.fields /\ f \in Nat
      /\ a \in DOMAIN AttrsOf(f) /\ a \in 1..Len(AttrsOf(f)) /\ a \in Nat
      /\ DOMAIN AttrsOf(f) = 1..Len(AttrsOf(f)) /\ Len(AttrsOf(f)) \in Nat
  BY <1>1, AtAttr
<1>3. /\ AttrRight(AttrsOf(f)[a])
      /\ is_aggregate_id <=> AttrsOf(f)[a] # <<>>
  BY <1>1, AttrRead
<1>4. /\ FieldRight(f, a - 1)
      /\ field_marked <=> Marked(f, a - 1)
  BY <1>1 DEF FieldsSeen, FieldNow
<1>5. \A b \in 1..a : b \in 1..a - 1 \/ b = a
  BY <1>2
<1>6. a \in 1..a /\ a \notin 1..a - 1 /\ \A b \in 1..a - 1 : b \in 1..a
  BY <1>2
<1>7. CASE is_aggregate_id /\ field_marked
  <2>1. PICK b \in 1..a - 1 : AttrsOf(f)[b] # <<>>
    BY <1>4, <1>7 DEF Marked
  <2>2. b \in DOMAIN AttrsOf(f)
    BY <1>2, <2>1
  <2>3. 1 \in DOMAIN AttrsOf(f)[a] /\ 1 \in DOMAIN AttrsOf(f)[b]
    <3>1. \A c \in DOMAIN AttrsOf(f) : AttrsOf(f)[c] \in Seq(Meta)
      BY <1>1, <1>2, ItemParts DEF TypeOK
    <3> HIDE DEF AttrsOf
    <3> QED
      BY <1>2, <1>3, <1>7, <2>1, <2>2, <3>1
  <2>4. <<f, a, 1>> \in Marks /\ <<f, b, 1>> \in Marks
    BY <1>2, <2>2, <2>3, MarksAre
  <2>5. <<f, a, 1>> # <<f, b, 1>> /\ <<f, a, 1>>[1] = <<f, b, 1>>[1]
    BY <1>6
  <2>6. Return(Error("repeated on field"))
    BY <1>7 DEF AttrDone
  <2> QED
    BY <1>1, <2>4, <2>5, <2>6, ReturnRepeated
<1>8. CASE ~ (is_aggregate_id /\ field_marked)
  <2>1. /\ found' = (IF is_aggregate_id THEN Append(found, f) ELSE found)
        /\ field_marked' = (field_marked \/ is_aggregate_id)
        /\ is_aggregate_id' = FALSE
        /\ a' = a + 1
        /\ m' = 1
        /\ UNCHANGED <<item, pc, kind, aggregate, i, f, result>>
    BY <1>8 DEF AttrDone, structVars
  <2>2. FieldRight(f, a)
    <3>1. \A b \in 1..a - 1 : is_aggregate_id => AttrsOf(f)[b] = <<>>
      BY <1>4, <1>8 DEF Marked
    <3> HIDE DEF AttrsOf
    <3> QED
      BY <1>3, <1>4, <1>5, <3>1 DEF FieldRight
  <2>3. Marked(f, a) <=> Marked(f, a - 1) \/ is_aggregate_id
    BY <1>3, <1>5, <1>6 DEF Marked
  <2>4. /\ found \in Seq(DOMAIN item.fields)
        /\ DOMAIN found = 1..Len(found) /\ Len(found) \in Nat
    BY <1>1 DEF TypeOK
  <2>5. TypeOK'
    <3>1. found' \in Seq(DOMAIN item.fields)
      <4>1. Append(found, f) \in Seq(DOMAIN item.fields)
        BY <1>2, <2>4
      <4>2. found' = Append(found, f) \/ found' = found
        BY <2>1
      <4> QED
        BY <2>4, <4>1, <4>2
    <3>2. /\ a' \in Nat /\ m' \in Nat
          /\ is_aggregate_id' \in BOOLEAN
      <4>1. a' \in Nat
        BY <1>2, <2>1
      <4>2. m' \in Nat
        BY <2>1
      <4>3. is_aggregate_id' \in BOOLEAN
        BY <2>1
      <4> QED
        BY <4>1, <4>2, <4>3
    <3>3. field_marked' \in BOOLEAN
      BY <2>1
    <3> QED
      BY <1>1, <2>1, <3>1, <3>2, <3>3 DEF TypeOK
  <2>6. StructSeen' /\ StructDone'
    BY <1>1, <2>1 DEF StructSeen, StructDone
  <2>7. FieldsSeen'
    <3>1. FieldsBefore'
      BY <1>1, <2>1 DEF FieldsSeen, FieldsBefore, FieldRight, AttrRight, AttrsOf
    <3>2. FieldNow'
      <4>1. a' - 1 = a /\ f' = f
        BY <1>2, <2>1
      <4>2. AttrsOf(f)' = AttrsOf(f)
        BY <2>1 DEF AttrsOf
      <4>3. FieldRight(f, a - 1)'
        BY <2>1, <2>2, <4>1 DEF FieldRight, AttrRight, AttrsOf
      <4>4. Marked(f, a - 1)' <=> Marked(f, a)
        BY <2>1, <4>1 DEF Marked, AttrsOf
      <4>5. field_marked' <=> Marked(f, a - 1)'
        BY <1>4, <2>1, <2>3, <4>4
      <4> HIDE DEF AttrsOf
      <4>6. a' \in 1..Len(AttrsOf(f)') + 1
        BY <1>2, <2>1, <4>2
      <4>7. m' \in 1..2 /\ m' # 2 /\ ~ is_aggregate_id'
        BY <2>1
      <4>8. f' <= Len(item'.fields) /\ ~ f' > Len(item'.fields)
        BY <1>1, <1>2, <2>1, ItemParts DEF TypeOK
      <4> QED
        BY <4>3, <4>5, <4>6, <4>7, <4>8 DEF FieldNow
    <3>3. FoundAre'
      <4>1. FoundAre
        BY <1>1 DEF FieldsSeen
      <4>2. CASE ~ is_aggregate_id
        <5>1. found' = found /\ (field_marked' <=> field_marked)
          BY <2>1, <4>2
        <5> QED
          BY <2>1, <4>1, <5>1 DEF FoundAre, Marked, AttrsOf
      <4>3. CASE is_aggregate_id
        <5>1. found' = Append(found, f) /\ ~ field_marked /\ field_marked'
          BY <1>8, <2>1, <4>3
        <5>2. /\ DOMAIN found' = 1..Len(found) + 1
              /\ \A k \in DOMAIN found : k \in DOMAIN found' /\ found'[k] = found[k]
              /\ Len(found) + 1 \in DOMAIN found' /\ found'[Len(found) + 1] = f
          BY <1>2, <2>4, <5>1
        <5>3. \A k \in DOMAIN found' : k \in DOMAIN found \/ k = Len(found) + 1
          BY <2>4, <5>2
        <5>4. \A k \in DOMAIN found : found[k] < f /\ found[k] # f
          <6>1. \A k \in DOMAIN found : found[k] < f
            BY <4>1, <5>1 DEF FoundAre
          <6> QED
            BY <1>2, <6>1
        <5>5. \A n \in 1..f - 1 :
                (\E k \in DOMAIN found' : found'[k] = n) <=>
                (\E k \in DOMAIN found : found[k] = n)
          <6>1. f \notin 1..f - 1
            BY <1>2
          <6> QED
            BY <5>2, <5>3, <6>1
        <5>6. \A n \in 1..f - 1 :
                (\E k \in DOMAIN found' : found'[k] = n)
                  <=> Marked(n, Len(AttrsOf(n)))
          BY <4>1, <5>5 DEF FoundAre
        <5>7. \A k \in DOMAIN found' : found'[k] < f \/ found'[k] = f
          BY <5>2, <5>3, <5>4
        <5>8. \A j, k \in DOMAIN found' : found'[j] = found'[k] => j = k
          <6>1. \A j, k \in DOMAIN found : found[j] = found[k] => j = k
            BY <4>1 DEF FoundAre
          <6> QED
            BY <5>2, <5>3, <5>4, <6>1
        <5>9. \A n : Marked(n, Len(AttrsOf(n)))' <=> Marked(n, Len(AttrsOf(n)))
          BY <2>1 DEF Marked, AttrsOf
        <5>10. \E k \in DOMAIN found' : found'[k] = f
          BY <5>2
        <5> QED
          BY <2>1, <5>1, <5>6, <5>7, <5>8, <5>9, <5>10 DEF FoundAre
      <4> QED
        BY <4>2, <4>3
    <3> QED
      BY <3>1, <3>2, <3>3 DEF FieldsSeen
  <2>8. AcceptsExactly' /\ ErrorIsTrue'
    BY <1>1, <2>1, NotDone
  <2> QED
    BY <1>1, <2>1, <2>5, <2>6, <2>7, <2>8 DEF IndInv
<1> QED
  BY <1>7, <1>8

\* The end of a field: nothing of it is left for the next one.
LEMMA FieldDoneStep ==
  ASSUME IndInv, FieldDone
  PROVE  IndInv'
<1>1. /\ TypeOK /\ pc = "fields" /\ StructSeen /\ StructDone /\ FieldsSeen
      /\ f <= Len(item.fields) /\ a > Len(AttrsOf(f))
  BY DEF IndInv, FieldDone, InField, Attrs, AttrsOf
<1>2. /\ f \in DOMAIN item.fields /\ f \in Nat
      /\ Len(item.fields) \in Nat
      /\ DOMAIN item.fields = 1..Len(item.fields)
  BY <1>1, ItemParts DEF TypeOK
<1>3. Len(AttrsOf(f)) \in Nat
  BY <1>1, <1>2, ItemParts DEF TypeOK
<1>4. /\ a \in 1..Len(AttrsOf(f)) + 1
      /\ FieldRight(f, a - 1)
      /\ field_marked <=> Marked(f, a - 1)
      /\ m \in 1..2 /\ (is_aggregate_id <=> m = 2)
      /\ m = 2 => a <= Len(AttrsOf(f))
  BY <1>1 DEF FieldsSeen, FieldNow
<1> HIDE DEF AttrsOf
<1>5. a - 1 = Len(AttrsOf(f)) /\ m = 1 /\ ~ is_aggregate_id
  BY <1>1, <1>3, <1>4
<1>6. /\ FieldRight(f, Len(AttrsOf(f)))
      /\ field_marked <=> Marked(f, Len(AttrsOf(f)))
  BY <1>4, <1>5
<1>7. /\ f' = f + 1 /\ a' = 1 /\ field_marked' = FALSE
      /\ UNCHANGED <<item, pc, kind, aggregate, i, m, is_aggregate_id, found,
                     result>>
  BY DEF FieldDone, structVars
<1>8. \A n \in 1..f' - 1 : n \in 1..f - 1 \/ n = f
  BY <1>2, <1>7
<1>9. TypeOK'
  <2>1. f' \in 1..Len(item.fields) + 1
    BY <1>2, <1>7
  <2>2. a' \in Nat
    BY <1>7
  <2>3. field_marked' \in BOOLEAN
    BY <1>7
  <2> QED
    BY <1>1, <1>7, <2>1, <2>2, <2>3 DEF TypeOK
<1>10. StructSeen' /\ StructDone'
  BY <1>1, <1>7 DEF StructSeen, StructDone
<1>11. \A n, upto : /\ FieldRight(n, upto)' <=> FieldRight(n, upto)
                    /\ Marked(n, upto)' <=> Marked(n, upto)
                    /\ AttrsOf(n)' = AttrsOf(n)
  BY <1>7 DEF FieldRight, AttrRight, Marked, AttrsOf
<1>12. FieldsSeen'
  <2>1. FieldsBefore'
    <3>1. \A n \in 1..f' - 1 : FieldRight(n, Len(AttrsOf(n)))
      BY <1>1, <1>6, <1>8 DEF FieldsSeen, FieldsBefore
    <3>2. \A n \in 1..f' - 1 : FieldRight(n, Len(AttrsOf(n)))'
      <4> TAKE n \in 1..f' - 1
      <4>1. FieldRight(n, Len(AttrsOf(n)))
        BY <3>1
      <4> QED
        BY <1>7, <4>1 DEF FieldRight, AttrRight, AttrsOf
    <3> QED
      BY <3>2 DEF FieldsBefore
  <2>2. FieldNow'
    <3>1. \A n \in DOMAIN item.fields : Len(AttrsOf(n)) \in Nat
      BY <1>1, ItemParts DEF TypeOK
    <3>2. f' <= Len(item.fields) => f' \in DOMAIN item.fields
      BY <1>2, <1>7
    <3>3. f' <= Len(item.fields) => 1 \in 1..Len(AttrsOf(f')) + 1
      BY <3>1, <3>2
    <3>4. 1..a' - 1 = {}
      BY <1>7
    <3>5. FieldRight(f, a - 1)' /\ ~ Marked(f, a - 1)'
      BY <3>4 DEF FieldRight, Marked
    <3>6. f' <= Len(item'.fields) => a' \in 1..Len(AttrsOf(f)') + 1
      BY <1>7, <3>3 DEF AttrsOf
    <3>7. /\ m' \in 1..2 /\ m' = 1 /\ m' # 2 /\ a' = 1
          /\ ~ is_aggregate_id' /\ ~ field_marked'
      BY <1>5, <1>7
    <3> QED
      BY <3>5, <3>6, <3>7 DEF FieldNow
  <2>3. FoundAre'
    <3>1. FoundAre
      BY <1>1 DEF FieldsSeen
    <3>2. (\E k \in DOMAIN found : found[k] = f) <=> field_marked
      BY <1>2, <3>1 DEF FoundAre
    <3>3. \A n \in 1..f' - 1 :
            (\E k \in DOMAIN found : found[k] = n) <=> Marked(n, Len(AttrsOf(n)))
      BY <1>6, <1>8, <3>1, <3>2 DEF FoundAre
    <3>4. \A k \in DOMAIN found : found[k] < f'
      <4>1. \A k \in DOMAIN found : found[k] \in Nat
        BY <1>1, <1>2 DEF TypeOK
      <4>2. \A k \in DOMAIN found : found[k] < f \/ found[k] = f
        BY <3>1 DEF FoundAre
      <4> QED
        BY <1>2, <1>7, <4>1, <4>2
    <3>5. \A n \in 1..f' - 1 :
            (\E k \in DOMAIN found : found[k] = n)
              <=> Marked(n, Len(AttrsOf(n)))'
      BY <1>7, <3>3 DEF Marked, AttrsOf
    <3> QED
      BY <1>7, <3>1, <3>4, <3>5 DEF FoundAre
  <2> QED
    BY <2>1, <2>2, <2>3 DEF FieldsSeen
<1>13. AcceptsExactly' /\ ErrorIsTrue'
  BY <1>1, <1>7, NotDone
<1> QED
  BY <1>1, <1>7, <1>9, <1>10, <1>12, <1>13 DEF IndInv

\* When all fields have been read, each is right, and found has the marked ones.
LEMMA AllFieldsRead ==
  ASSUME IndInv, Count
  PROVE  /\ item.shape = "named" /\ StructRight /\ FieldsRight
         /\ \A n : n \in {p[1] : p \in Marks} <=>
                  \E k \in DOMAIN found : found[k] = n
         /\ \A j, k \in DOMAIN found : found[j] = found[k] => j = k
         /\ found \in Seq(DOMAIN item.fields)
<1>1. /\ TypeOK /\ StructSeen /\ StructDone /\ FieldsSeen
      /\ f > Len(item.fields)
  BY DEF IndInv, Count
<1>2. 1..f - 1 = DOMAIN item.fields
  <2>1. /\ f \in 1..Len(item.fields) + 1 /\ Len(item.fields) \in Nat
        /\ DOMAIN item.fields = 1..Len(item.fields)
    BY <1>1, ItemParts DEF TypeOK
  <2>2. f = Len(item.fields) + 1
    BY <1>1, <2>1
  <2> QED
    BY <2>1, <2>2
<1>3. StructRight /\ item.shape = "named"
  BY <1>1, SeenIsRight DEF StructDone
<1>4. FieldsRight
  BY <1>1, <1>2, FieldsRightIs DEF TypeOK, FieldsSeen, FieldsBefore
<1>5. \A n : (\E p \in Marks : p[1] = n) <=>
            n \in DOMAIN item.fields /\ Marked(n, Len(AttrsOf(n)))
  BY <1>1, FieldsRightIs DEF TypeOK
<1>6. /\ found \in Seq(DOMAIN item.fields)
      /\ \A k \in DOMAIN found : found[k] \in DOMAIN item.fields
  BY <1>1 DEF TypeOK
<1>7. \A n \in DOMAIN item.fields :
        (\E k \in DOMAIN found : found[k] = n) <=> Marked(n, Len(AttrsOf(n)))
  BY <1>1, <1>2 DEF FieldsSeen, FoundAre
<1>8. \A j, k \in DOMAIN found : found[j] = found[k] => j = k
  BY <1>1 DEF FieldsSeen, FoundAre
<1>9. \A n : (\E p \in Marks : p[1] = n) <=> \E k \in DOMAIN found : found[k] = n
  BY <1>5, <1>6, <1>7
<1> QED
  BY <1>3, <1>4, <1>6, <1>8, <1>9

\* The check after the loop: exactly one field is marked, and it is a Uuid.
LEMMA CountStep ==
  ASSUME IndInv, Count
  PROVE  IndInv'
<1>1. TypeOK /\ StructSeen /\ StructDone
  BY DEF IndInv, Count
<1>2. item.shape = "named" /\ StructRight /\ FieldsRight
  BY AllFieldsRead
<1>3. /\ \A n : n \in {p[1] : p \in Marks} <=>
                \E k \in DOMAIN found : found[k] = n
      /\ \A j, k \in DOMAIN found : found[j] = found[k] => j = k
      /\ DOMAIN found = 1..Len(found) /\ Len(found) \in Nat
  BY AllFieldsRead
<1>4. ASSUME NEW name \in {"no field marked", "not a Uuid"}, Return(Error(name)),
             ~ \E n \in DOMAIN item.fields : Chosen(n),
             ~ \E p, q \in Marks : p[1] # q[1]
      PROVE  IndInv'
  <2>1. /\ TypeOK' /\ pc' = "done" /\ item' = item
        /\ result'.error = name
    BY <1>1, <1>4, ReturnError
  <2>2. AcceptsExactly'
    BY <1>4, <2>1, SameItem DEF AcceptsExactly
  <2>3. ErrorIsTrue'
    BY <1>2, <1>4, <2>1, SameItem DEF ErrorIsTrue
  <2> QED
    BY <2>1, <2>2, <2>3 DEF IndInv
<1>5. CASE found = <<>>
  <2>1. DOMAIN found = {}
    BY <1>5
  <2>2. Marks = {}
    BY <1>3, <2>1
  <2>3. ~ \E n \in DOMAIN item.fields : Chosen(n)
    BY <2>2 DEF Chosen
  <2>4. Return(Error("no field marked"))
    BY <1>5 DEF Count
  <2> QED
    BY <1>4, <2>2, <2>3, <2>4
<1>6. CASE found # <<>> /\ Len(found) > 1
  <2>1. 1 \in DOMAIN found /\ 2 \in DOMAIN found
    BY <1>3, <1>6
  <2>2. found[1] # found[2]
    BY <1>3, <2>1
  <2>3. /\ found[1] \in {p[1] : p \in Marks}
        /\ found[2] \in {p[1] : p \in Marks}
    BY <1>3, <2>1
  <2>4. \E p, q \in Marks : p[1] # q[1]
    BY <2>2, <2>3
  <2>5. ~ \E n \in DOMAIN item.fields : Chosen(n)
    BY <2>2, <2>3 DEF Chosen
  <2>6. Return(Error("several fields marked"))
    BY <1>6 DEF Count
  <2>7. /\ TypeOK' /\ pc' = "done" /\ item' = item
        /\ result'.error = "several fields marked"
    BY <1>1, <2>6, ReturnError
  <2>8. AcceptsExactly'
    BY <2>5, <2>7, SameItem DEF AcceptsExactly
  <2>9. ErrorIsTrue'
    BY <1>2, <2>4, <2>7, SameItem DEF ErrorIsTrue
  <2> QED
    BY <2>7, <2>8, <2>9 DEF IndInv
<1>7. ASSUME found # <<>>, ~ Len(found) > 1
      PROVE  /\ {p[1] : p \in Marks} = {found[1]}
             /\ found[1] \in DOMAIN item.fields
             /\ ~ \E p, q \in Marks : p[1] # q[1]
  <2>1. /\ Len(found) = 1
        /\ found \in Seq(DOMAIN item.fields)
    BY <1>3, <1>7, AllFieldsRead
  <2>2. DOMAIN found = {1}
    BY <1>3, <2>1
  <2>3. {p[1] : p \in Marks} = {found[1]}
    BY <1>3, <2>2
  <2>4. found[1] \in DOMAIN item.fields
    BY <2>1, <2>2
  <2>5. \A p \in Marks : p[1] = found[1]
    BY <2>3
  <2> QED
    BY <2>3, <2>4, <2>5
<1>8. CASE /\ found # <<>> /\ ~ Len(found) > 1
           /\ ~ is_uuid_type(item.fields[found[1]].type)
  <2>1. ~ \E n \in DOMAIN item.fields : Chosen(n)
    BY <1>7, <1>8 DEF Chosen
  <2>2. Return(Error("not a Uuid"))
    BY <1>8 DEF Count
  <2> QED
    BY <1>4, <1>7, <1>8, <2>1, <2>2
<1>9. CASE /\ found # <<>> /\ ~ Len(found) > 1
           /\ is_uuid_type(item.fields[found[1]].type)
  <2>1. Return(Ok(kind, aggregate, found[1]))
    BY <1>9 DEF Count
  <2>2. /\ TypeOK' /\ pc' = "done" /\ item' = item
        /\ result' = Ok(kind, aggregate, found[1])
    BY <1>1, <2>1, ReturnSame
  <2>3. /\ result'.error = "none" /\ result'.field = found[1]
        /\ result'.kind = kind /\ result'.aggregate = aggregate
    BY <2>2 DEF Ok
  <2>4. found[1] \in DOMAIN item.fields /\ Chosen(found[1])
    BY <1>7, <1>9 DEF Chosen
  <2>5. \A j \in DOMAIN item.metas :
          item.metas[j].value = IF item.metas[j].key = "kind" THEN kind
                                ELSE aggregate
    <3>1. DOMAIN item.metas = 1..i - 1
      BY <1>1, ItemParts DEF TypeOK, StructDone
    <3> QED
      BY <1>1, <3>1 DEF StructSeen
  <2>6. AcceptsExactly'
    <3>1. Chosen(result.field)'
      BY <2>2, <2>3, <2>4 DEF Chosen, Marks, is_uuid_type
    <3>2. (StructRight /\ FieldsRight)'
      BY <1>2, <2>2, SameItem
    <3>3. \E n \in DOMAIN item'.fields : Chosen(n)'
      BY <2>2, <2>4, SameItem
    <3> QED
      BY <1>2, <2>2, <2>3, <2>5, <3>1, <3>2, <3>3 DEF AcceptsExactly
  <2>7. ErrorIsTrue'
    <3>1. ~ \E p, q \in Marks' : p[1] # q[1]
      BY <1>7, <1>9, <2>2, SameItem
    <3> QED
      BY <2>3, <3>1 DEF ErrorIsTrue
  <2> QED
    BY <2>2, <2>6, <2>7 DEF IndInv
<1> QED
  BY <1>5, <1>6, <1>8, <1>9

-----------------------------------------------------------------------------
(* The theorems *)

\* The macro begins with nothing seen.
LEMMA InitIndInv == Init => IndInv
<1> SUFFICES ASSUME Init
             PROVE  IndInv
  OBVIOUS
<1>1. /\ Len(item.metas) \in Nat /\ Len(item.fields) \in Nat
  BY ItemParts DEF Init
<1>2. TypeOK
  <2>1. 1 \in 1..Len(item.metas) + 1 /\ 1 \in 1..Len(item.fields) + 1
    BY <1>1
  <2>2. <<>> \in Seq(DOMAIN item.fields)
    OBVIOUS
  <2>3. f = 1 /\ i = 1 /\ a \in Nat /\ m \in Nat /\ found = <<>>
    BY DEF Init
  <2>4. is_aggregate_id \in BOOLEAN /\ field_marked \in BOOLEAN
    BY DEF Init
  <2> QED
    BY <2>1, <2>2, <2>3, <2>4 DEF Init, TypeOK
<1>3. StructSeen
  <2>1. 1..i - 1 = {}
    <3>1. i = 1
      BY DEF Init
    <3> QED
      BY <3>1
  <2> QED
    BY <2>1 DEF Init, StructSeen
<1> QED
  BY <1>2, <1>3 DEF Init, IndInv, AcceptsExactly, ErrorIsTrue

\* A macro that has returned changes nothing.
LEMMA StutterStep ==
  ASSUME IndInv, UNCHANGED vars
  PROVE  IndInv'
<1>1. UNCHANGED <<item, pc, kind, aggregate, i, f, a, m, is_aggregate_id,
                  field_marked, found, result>>
  BY DEF vars, structVars, fieldVars
<1>2. TypeOK'
  BY <1>1 DEF IndInv, TypeOK
<1>3. StructSeen' <=> StructSeen
  BY <1>1 DEF StructSeen
<1>4. StructDone' <=> StructDone
  BY <1>1 DEF StructDone
<1>5. FieldsSeen' <=> FieldsSeen
  <2>1. FieldsBefore' <=> FieldsBefore
    BY <1>1 DEF FieldsBefore, FieldRight, AttrRight, AttrsOf
  <2>2. FieldNow' <=> FieldNow
    BY <1>1 DEF FieldNow, FieldRight, AttrRight, Marked, AttrsOf
  <2>3. FoundAre' <=> FoundAre
    BY <1>1 DEF FoundAre, Marked, AttrsOf
  <2> QED
    BY <2>1, <2>2, <2>3 DEF FieldsSeen
<1>6. AcceptsExactly' <=> AcceptsExactly
  BY <1>1 DEF AcceptsExactly, StructRight, FieldsRight, Marks, Mark, Chosen,
              is_uuid_type
<1>7. ErrorIsTrue' <=> ErrorIsTrue
  BY <1>1 DEF ErrorIsTrue, StructRight, FieldsRight, Marks, Mark
<1> QED
  BY <1>1, <1>2, <1>3, <1>4, <1>5, <1>6, <1>7 DEF IndInv

\* Every step of the macro keeps the invariant.
LEMMA NextIndInv == IndInv /\ [Next]_vars => IndInv'
<1> SUFFICES ASSUME IndInv, [Next]_vars
             PROVE  IndInv'
  OBVIOUS
<1>1. CASE Shape
  BY <1>1, ShapeStep
<1>2. CASE StructMeta
  BY <1>2, StructMetaStep
<1>3. CASE Required
  BY <1>3, RequiredStep
<1>4. CASE FieldMeta
  BY <1>4, FieldMetaStep
<1>5. CASE AttrDone
  BY <1>5, AttrDoneStep
<1>6. CASE FieldDone
  BY <1>6, FieldDoneStep
<1>7. CASE Count
  BY <1>7, CountStep
<1>8. CASE UNCHANGED vars
  BY <1>8, StutterStep
<1> QED
  BY <1>1, <1>2, <1>3, <1>4, <1>5, <1>6, <1>7, <1>8 DEF Next, Expand, Done

\* What the loops have seen is right, at every step of an expansion.
THEOREM Invariance == Spec => []IndInv
<1>1. Init => IndInv
  BY InitIndInv
<1>2. IndInv /\ [Next]_vars => IndInv'
  BY NextIndInv
<1> QED
  BY <1>1, <1>2, PTL DEF Spec

\* The macro's variables have their types.
THEOREM TypeCorrect == Spec => []TypeOK
<1>1. IndInv => TypeOK
  BY DEF IndInv
<1> QED
  BY <1>1, Invariance, PTL

\* The macro accepts what it documents and nothing else, and writes the values
\* it was given, whatever the number and the order of metas, attributes and
\* fields.
THEOREM AcceptsTheDocumented == Spec => []AcceptsExactly
<1>1. IndInv => AcceptsExactly
  BY DEF IndInv
<1> QED
  BY <1>1, Invariance, PTL

\* The error it reports is about what is wrong with the item.
THEOREM TrueErrors == Spec => []ErrorIsTrue
<1>1. IndInv => ErrorIsTrue
  BY DEF IndInv
<1> QED
  BY <1>1, Invariance, PTL

=============================================================================
