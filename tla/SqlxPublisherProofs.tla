------------------------- MODULE SqlxPublisherProofs -------------------------
(***************************************************************************)
(* Theorems about SqlxPublisher, for any set of transactions, keys and     *)
(* items and any bounds.                                                   *)
(***************************************************************************)
EXTENDS SqlxPublisher, SequenceTheorems, FiniteSetTheorems, TLAPS

-----------------------------------------------------------------------------
(* The inductive invariant *)

\* How far the statements of a transaction have got, in each of its phases.
Progress ==
  \A t \in Tx :
    /\ settled[t] <= Len(sent[t])
    /\ acked[t] \subseteq 1..settled[t]
    /\ Running(t) => Len(staged[t]) \in settled[t]..Len(sent[t])
    /\ ~ Running(t) => settled[t] = Len(sent[t])
    /\ phase[t] = "open" => Len(staged[t]) = Len(sent[t])
    /\ phase[t] \notin {"open", "executing", "detached"} => staged[t] = <<>>
    /\ phase[t] = "new" => sent[t] = <<>>

\* The rows of a transaction are its events, one by one.
Aligned ==
  \A t \in Tx : \A i \in DOMAIN staged[t] :
    /\ staged[t][i].event_id = sent[t][i].event_id
    /\ staged[t][i].item = sent[t][i].item

\* No two rows, committed or not, share an id or an event_id; rows of one
\* transaction have increasing ids, none beyond the sequence.
Distinct ==
  /\ EventIdUnique
  /\ \A r \in outbox : r.id <= serial
  /\ \A t \in Tx : \A i \in DOMAIN staged[t] : staged[t][i].id <= serial
  /\ \A t \in Tx : \A i \in DOMAIN staged[t] : \A r \in outbox :
       staged[t][i].id # r.id /\ staged[t][i].event_id # r.event_id
  /\ \A t, u \in Tx : \A i \in DOMAIN staged[t], j \in DOMAIN staged[u] :
       \/ staged[t][i].id = staged[u][j].id
       \/ staged[t][i].event_id = staged[u][j].event_id
       => t = u /\ i = j
  /\ \A t \in Tx : \A i, j \in DOMAIN staged[t] :
       i < j => staged[t][i].id < staged[t][j].id

\* The committed rows are the events of the committed transactions.
Committed ==
  /\ \A r \in outbox : \E t \in Tx :
       /\ phase[t] = "committed"
       /\ [event_id |-> r.event_id, item |-> r.item] \in Range(sent[t])
  /\ \A t \in Tx : phase[t] = "committed" =>
       \A i \in DOMAIN sent[t] : sent[t][i] \in Published

\* The ids of a statement of several rows, all minted for it, are distinct.
DistinctArguments ==
  \A t \in Tx : Running(t) =>
    \A i, j \in settled[t] + 1 .. Len(sent[t]) :
      sent[t][i].event_id = sent[t][j].event_id => i = j

\* What the caller knows of the calls it awaited.
Informed ==
  \A t \in Tx :
    /\ ~ dropped[t] => acked[t] = 1..settled[t]
    /\ phase[t] = "detached" => dropped[t]
    /\ faulted[t] => phase[t] \in {"failed", "aborted"}
    /\ phase[t] = "failed" => faulted[t] \/ dropped[t]
    /\ told_ok[t] => \/ phase[t] = "committed"
                     \/ phase[t] = "aborted" /\ (faulted[t] \/ dropped[t])
    /\ dup[t] # {} => phase[t] \in {"failed", "aborted"}

IndInv ==
  /\ TypeOK
  /\ Progress
  /\ Aligned
  /\ Distinct
  /\ Committed
  /\ DistinctArguments
  /\ Informed
  /\ DuplicateMeansPublished
  /\ RowsInCallOrder
  /\ InvalidNeverSent

-----------------------------------------------------------------------------
(* Sequences *)

\* The first n elements of a sequence, which is what a transaction keeps of
\* sent when a statement fails or never ran.
LEMMA Truncation ==
  ASSUME NEW S, NEW s \in Seq(S), NEW n \in Nat, n <= Len(s)
  PROVE  /\ SubSeq(s, 1, n) \in Seq(S)
         /\ Len(SubSeq(s, 1, n)) = n
         /\ \A i \in 1..n : SubSeq(s, 1, n)[i] = s[i]
<1>1. \A i \in 1..n : s[i] \in S
  BY ElementOfSeq
<1> QED
  BY <1>1, SubSeqProperties

\* Where the elements of two sequences are in their concatenation.
LEMMA Concatenation ==
  ASSUME NEW S, NEW s \in Seq(S), NEW t \in Seq(S)
  PROVE  /\ s \o t \in Seq(S)
         /\ Len(s \o t) = Len(s) + Len(t)
         /\ \A i \in 1..Len(s) : (s \o t)[i] = s[i]
         /\ \A i \in Len(s) + 1 .. Len(s) + Len(t) :
              (s \o t)[i] = t[i - Len(s)]
<1>1. \A i \in 1..Len(s) : (s \o t)[i] = s[i]
  OBVIOUS
<1>2. \A i \in Len(s) + 1 .. Len(s) + Len(t) : (s \o t)[i] = t[i - Len(s)]
  OBVIOUS
<1> QED
  BY <1>1, <1>2

\* The columns of a statement zip to one event per item.
LEMMA ZipProperties ==
  ASSUME NEW items \in Seq(Item), NEW ids \in [1..Len(items) -> EventId]
  PROVE  /\ Zip(ids, items) \in Seq(Event)
         /\ Len(Zip(ids, items)) = Len(items)
         /\ \A i \in 1..Len(items) :
              Zip(ids, items)[i] = [event_id |-> ids[i], item |-> items[i]]
<1>1. Len(items) \in Nat
  OBVIOUS
<1>2. \A i \in 1..Len(items) :
        [event_id |-> ids[i], item |-> items[i]] \in Event
  BY DEF Event
<1>3. Zip(ids, items) \in [1..Len(items) -> Event]
  BY <1>2 DEF Zip
<1>4. Zip(ids, items) \in Seq(Event)
  BY <1>1, <1>3, SeqDef
<1>5. Len(Zip(ids, items)) = Len(items)
  BY <1>1, <1>3, <1>4
<1> QED
  BY <1>4, <1>5 DEF Zip

\* What a statement that goes to the server adds to sent.
LEMMA ExecuteSends ==
  ASSUME TypeOK, NEW t \in Tx, NEW items \in Seq(Item),
         NEW ids \in [1..Len(items) -> EventId], Execute(t, ids, items)
  PROVE  /\ sent' \in [Tx -> Seq(Event)]
         /\ \A u \in Tx \ {t} : sent'[u] = sent[u]
         /\ Len(sent'[t]) = Len(sent[t]) + Len(items)
         /\ \A i \in 1..Len(sent[t]) : sent'[t][i] = sent[t][i]
         /\ \A i \in Len(sent[t]) + 1 .. Len(sent[t]) + Len(items) :
              sent'[t][i] = [event_id |-> ids[i - Len(sent[t])],
                             item |-> items[i - Len(sent[t])]]
<1> DEFINE zip == Zip(ids, items)
           new == sent[t] \o zip
<1>1. /\ sent \in [Tx -> Seq(Event)]
      /\ sent[t] \in Seq(Event)
  BY DEF TypeOK
<1>2. /\ zip \in Seq(Event)
      /\ Len(zip) = Len(items)
      /\ \A i \in 1..Len(items) :
           zip[i] = [event_id |-> ids[i], item |-> items[i]]
  BY ZipProperties
<1> HIDE DEF zip
<1>3. /\ new \in Seq(Event)
      /\ Len(new) = Len(sent[t]) + Len(items)
      /\ \A i \in 1..Len(sent[t]) : new[i] = sent[t][i]
      /\ \A i \in Len(sent[t]) + 1 .. Len(sent[t]) + Len(items) :
           new[i] = zip[i - Len(sent[t])]
  <2>1. sent[t] \in Seq(Event) /\ zip \in Seq(Event)
    BY <1>1, <1>2
  <2>2. Len(zip) = Len(items)
    BY <1>2
  <2>3. new \in Seq(Event) /\ Len(new) = Len(sent[t]) + Len(items)
    <3>1. new \in Seq(Event)
      BY <2>1
    <3>2. Len(sent[t] \o zip) = Len(sent[t]) + Len(zip)
      BY <2>1
    <3> QED
      BY <2>2, <3>1, <3>2
  <2>4. \A i \in 1..Len(sent[t]) : new[i] = sent[t][i]
    BY <2>1
  <2>5. \A i \in Len(sent[t]) + 1 .. Len(sent[t]) + Len(items) :
          new[i] = zip[i - Len(sent[t])]
    BY <2>1, <2>2
  <2> QED
    BY <2>3, <2>4, <2>5
<1>4. sent' = [sent EXCEPT ![t] = new]
  BY DEF Execute, zip
<1>5. sent'[t] = new
  BY <1>1, <1>4
<1>6. /\ sent' \in [Tx -> Seq(Event)]
      /\ \A u \in Tx \ {t} : sent'[u] = sent[u]
  BY <1>1, <1>3, <1>4
<1>7. Len(sent[t]) \in Nat /\ Len(items) \in Nat
  BY <1>1
<1> HIDE DEF new
<1>8. \A i \in Len(sent[t]) + 1 .. Len(sent[t]) + Len(items) :
        new[i] = [event_id |-> ids[i - Len(sent[t])],
                  item |-> items[i - Len(sent[t])]]
  <2> TAKE i \in Len(sent[t]) + 1 .. Len(sent[t]) + Len(items)
  <2>1. i - Len(sent[t]) \in 1..Len(items)
    BY <1>7
  <2>2. new[i] = zip[i - Len(sent[t])]
    BY <1>3, <1>7
  <2> QED
    BY <1>2, <2>1, <2>2
<1> QED
  BY <1>3, <1>5, <1>6, <1>8

-----------------------------------------------------------------------------
(* The calls *)

\* A statement of distinct ids goes to the server.
Sends(t) ==
  \E items \in Seq(Item) : \E ids \in [1..Len(items) -> EventId] :
    /\ Execute(t, ids, items)
    /\ \A i, j \in 1..Len(items) : ids[i] = ids[j] => i = j
    /\ mint' \in Nat

\* A call either changes nothing, or is refused by a server whose transaction
\* has failed, or sends a statement.
LEMMA CallCases ==
  ASSUME TypeOK, NEW t \in Tx, Call(t)
  PROVE  \/ UNCHANGED vars
         \/ \E items \in Seq(Item) : RefuseFailed(t, items)
         \/ Sends(t)
<1>1. mint \in Nat
  BY DEF TypeOK
<1>2. ASSUME NEW items \in Seq(Item), InsertMinted(t, items)
      PROVE  UNCHANGED vars \/ RefuseFailed(t, items) \/ Sends(t)
  <2>1. CASE Refuse(t, items)
    BY <2>1 DEF Refuse
  <2>2. CASE RefuseFailed(t, items)
    BY <2>2
  <2>3. CASE /\ Execute(t, [i \in 1..Len(items) |-> mint + i], items)
             /\ mint' = mint + Len(items)
    <3> DEFINE ids == [i \in 1..Len(items) |-> mint + i]
    <3>1. ids \in [1..Len(items) -> EventId]
      BY <1>1 DEF EventId
    <3>2. \A i, j \in 1..Len(items) : ids[i] = ids[j] => i = j
      BY <1>1
    <3>3. mint' \in Nat
      BY <1>1, <2>3
    <3> QED
      BY <2>3, <3>1, <3>2, <3>3 DEF Sends
  <2> QED
    BY <1>2, <2>1, <2>2, <2>3 DEF InsertMinted
<1>3. CASE AppendOne(t)
  <2>1. PICK item \in Item : InsertMinted(t, <<item>>)
    BY <1>3 DEF AppendOne
  <2>2. <<item>> \in Seq(Item)
    OBVIOUS
  <2> QED
    BY <1>2, <2>1, <2>2
<1>4. CASE AppendWithId(t)
  <2>1. PICK key \in Key, item \in Item : Insert(t, <<key>>, <<item>>)
    BY <1>4 DEF AppendWithId
  <2>2. <<item>> \in Seq(Item) /\ Len(<<item>>) = 1
    OBVIOUS
  <2>3. <<key>> \in [1..Len(<<item>>) -> EventId]
    BY <2>2 DEF EventId
  <2>4. CASE Refuse(t, <<item>>)
    BY <2>4 DEF Refuse
  <2>5. CASE RefuseFailed(t, <<item>>)
    BY <2>2, <2>5
  <2>6. CASE Execute(t, <<key>>, <<item>>) /\ UNCHANGED mint
    <3>1. \A i, j \in 1..Len(<<item>>) : <<key>>[i] = <<key>>[j] => i = j
      BY <2>2
    <3> QED
      BY <1>1, <2>2, <2>3, <2>6, <3>1 DEF Sends
  <2> QED
    BY <2>1, <2>4, <2>5, <2>6 DEF Insert
<1>5. CASE AppendBatch(t)
  <2>1. PICK n \in 1..MaxBatch : \E items \in [1..n -> Item] :
               InsertMinted(t, items)
    BY <1>5 DEF AppendBatch
  <2>2. PICK items \in [1..n -> Item] : InsertMinted(t, items)
    BY <2>1
  <2>3. n \in Nat
    BY <2>1, ConstantsAssumption
  <2>4. items \in Seq(Item)
    BY <2>3, SeqDef
  <2> QED
    BY <1>2, <2>2, <2>4
<1> QED
  BY <1>3, <1>4, <1>5 DEF Call

-----------------------------------------------------------------------------
(* The steps, grouped by what they do *)

\* The statement of t fails; it is told DuplicateEventId only for an id taken.
Fails(t) ==
  /\ InFlight(t)
  /\ UNCHANGED serial
  /\ \E code \in {"22P05", "23505", "40P01"} :
       /\ Fail(t, code)
       /\ code = "23505" => Taken(t)

\* The transaction ends without its rows.
Aborts(t) ==
  /\ Idle(t)
  /\ UNCHANGED outbox
  /\ \E answer \in BOOLEAN :
       /\ End(t, "aborted", answer)
       /\ answer => phase[t] = "failed"

\* A step of the server for a statement: a row, the completion, or a failure.
LEMMA StatementCases ==
  ASSUME NEW t \in Tx, Statement(t)
  PROVE  InsertRow(t) \/ Complete(t) \/ Fails(t)
<1>1. CASE BadParameter(t)
  BY <1>1 DEF BadParameter, Fails
<1>2. CASE UniqueViolation(t)
  BY <1>2 DEF UniqueViolation, Fails
<1>3. CASE DeadlockAbort(t)
  <2>1. PICK S \in SUBSET Tx : t \in S /\ Deadlocked(S)
    BY <1>3 DEF DeadlockAbort
  <2>2. Holders(t) # {}
    BY <2>1 DEF Deadlocked
  <2>3. InFlight(t)
    BY <2>2 DEF Holders
  <2> QED
    BY <1>3, <2>3 DEF DeadlockAbort, Fails
<1> QED
  BY <1>1, <1>2, <1>3 DEF Statement

\* A step of a transaction, by what it does rather than by who takes it: the
\* three append methods are one of refusing, failing at once and sending.
LEMMA StepCases ==
  ASSUME TypeOK, NEW t \in Tx, Step(t)
  PROVE  \/ UNCHANGED vars
         \/ Begin(t)
         \/ \E items \in Seq(Item) : RefuseFailed(t, items)
         \/ Sends(t)
         \/ InsertRow(t)
         \/ Complete(t)
         \/ Fails(t)
         \/ DropFuture(t)
         \/ CommitApplied(t)
         \/ Aborts(t)
         \/ ConnectionLost(t)
<1>1. CASE Call(t)
  BY <1>1, CallCases
<1>2. CASE Statement(t)
  BY <1>2, StatementCases
<1>3. CASE CommitFailed(t)
  BY <1>3 DEF CommitFailed, Aborts, Idle
<1>4. CASE Rollback(t)
  BY <1>4 DEF Rollback, Aborts
<1> QED
  BY <1>1, <1>2, <1>3, <1>4 DEF Step, Finish, Commit

-----------------------------------------------------------------------------
(* Types, and how far each transaction has got *)

\* A transaction with an event to insert: its position and the event.
LEMMA CurrentEvent ==
  ASSUME TypeOK, NEW t \in Tx, InFlight(t)
  PROVE  /\ Len(staged[t]) + 1 \in 1..Len(sent[t])
         /\ Current(t) \in Event
         /\ Current(t).event_id \in EventId
         /\ Current(t).item \in Item
<1>1. sent[t] \in Seq(Event) /\ staged[t] \in Seq(Row)
  BY DEF TypeOK
<1>2. Len(staged[t]) + 1 \in 1..Len(sent[t])
  BY <1>1 DEF InFlight
<1>3. Current(t) \in Event
  BY <1>1, <1>2 DEF Current
<1> QED
  BY <1>2, <1>3 DEF Event

\* What InsertRow adds to the rows of the transaction.
LEMMA InsertRowStages ==
  ASSUME TypeOK, NEW t \in Tx, InsertRow(t)
  PROVE  /\ staged' \in [Tx -> Seq(Row)]
         /\ \A u \in Tx \ {t} : staged'[u] = staged[u]
         /\ Len(staged'[t]) = Len(staged[t]) + 1
         /\ \A i \in 1..Len(staged[t]) : staged'[t][i] = staged[t][i]
         /\ staged'[t][Len(staged[t]) + 1] =
              [id |-> serial + 1, event_id |-> Current(t).event_id,
               item |-> Current(t).item]
         /\ serial' = serial + 1 /\ serial' \in Nat
<1> DEFINE row == [id |-> serial + 1, event_id |-> Current(t).event_id,
                   item |-> Current(t).item]
<1>1. row \in Row
  <2>1. InFlight(t)
    BY DEF InsertRow
  <2>2. Current(t).event_id \in EventId /\ Current(t).item \in Item
    BY <2>1, CurrentEvent
  <2>3. serial + 1 \in Nat
    BY DEF TypeOK
  <2> QED
    BY <2>2, <2>3 DEF Row
<1>2. staged[t] \in Seq(Row)
  BY DEF TypeOK
<1>3. staged' = [staged EXCEPT ![t] = Append(staged[t], row)]
  BY DEF InsertRow
<1> HIDE DEF row
<1>4. /\ Append(staged[t], row) \in Seq(Row)
      /\ Len(Append(staged[t], row)) = Len(staged[t]) + 1
      /\ \A i \in 1..Len(staged[t]) :
           Append(staged[t], row)[i] = staged[t][i]
      /\ Append(staged[t], row)[Len(staged[t]) + 1] = row
  BY <1>1, <1>2
<1>5. staged'[t] = Append(staged[t], row)
  BY <1>3 DEF TypeOK
<1>6. /\ staged' \in [Tx -> Seq(Row)]
      /\ \A u \in Tx \ {t} : staged'[u] = staged[u]
  BY <1>3, <1>4 DEF TypeOK
<1> QED
  BY <1>4, <1>5, <1>6 DEF InsertRow, TypeOK, row

\* What a transaction keeps of sent when its statement is undone.
LEMMA SentSettled ==
  ASSUME TypeOK, Progress, NEW t \in Tx,
         sent' = [sent EXCEPT ![t] = SubSeq(sent[t], 1, settled[t])]
  PROVE  /\ sent' \in [Tx -> Seq(Event)]
         /\ \A u \in Tx \ {t} : sent'[u] = sent[u]
         /\ Len(sent'[t]) = settled[t]
         /\ \A i \in 1..settled[t] : sent'[t][i] = sent[t][i]
<1>1. /\ sent[t] \in Seq(Event)
      /\ settled[t] \in Nat
      /\ settled[t] <= Len(sent[t])
  BY DEF TypeOK, Progress
<1>2. /\ SubSeq(sent[t], 1, settled[t]) \in Seq(Event)
      /\ Len(SubSeq(sent[t], 1, settled[t])) = settled[t]
      /\ \A i \in 1..settled[t] : SubSeq(sent[t], 1, settled[t])[i] = sent[t][i]
  BY <1>1, Truncation
<1>3. sent'[t] = SubSeq(sent[t], 1, settled[t])
  BY DEF TypeOK
<1> QED
  BY <1>2, <1>3 DEF TypeOK

\* Every transaction starts with nothing sent and nothing staged.
LEMMA InitTypeProgress ==
  Init => TypeOK /\ Progress
<1> SUFFICES ASSUME Init PROVE TypeOK /\ Progress
  OBVIOUS
<1>1. TypeOK
  BY DEF Init, TypeOK, Phase
<1>2. Progress
  BY DEF Init, Progress, Running
<1> QED
  BY <1>1, <1>2

\* Every step keeps the types and the bookkeeping of statements: what is
\* settled, what is staged and what is sent, in that order.
LEMMA StepTypeProgress ==
  ASSUME TypeOK, Progress, NEW t \in Tx, Step(t)
  PROVE  TypeOK' /\ Progress'
<1> USE DEF Phase
<1>1. CASE UNCHANGED vars
  BY <1>1 DEF vars, caller, table, TypeOK, Progress, Running
<1>2. CASE Begin(t)
  BY <1>2 DEF Begin, caller, table, TypeOK, Progress, Running
<1>3. ASSUME NEW items \in Seq(Item), RefuseFailed(t, items)
      PROVE  TypeOK' /\ Progress'
  BY <1>3 DEF RefuseFailed, table, TypeOK, Progress, Running
<1>4. ASSUME NEW items \in Seq(Item), NEW ids \in [1..Len(items) -> EventId],
             Execute(t, ids, items), mint' \in Nat
      PROVE  TypeOK' /\ Progress'
  <2>1. /\ sent' \in [Tx -> Seq(Event)]
        /\ \A u \in Tx \ {t} : sent'[u] = sent[u]
        /\ Len(sent'[t]) = Len(sent[t]) + Len(items)
    BY <1>4, ExecuteSends
  <2>2. /\ phase[t] = "open"
        /\ phase' = [phase EXCEPT ![t] = "executing"]
        /\ UNCHANGED <<settled, acked, faulted, dup, dropped, told_ok, staged,
                       outbox, serial>>
    BY <1>4 DEF Execute, caller, table
  <2>3. TypeOK'
    BY <1>4, <2>1, <2>2 DEF TypeOK
  <2>4. Len(items) \in Nat /\ Len(sent[t]) \in Nat
    BY DEF TypeOK
  <2>5. Progress'
    BY <2>1, <2>2, <2>4 DEF Progress, Running, TypeOK
  <2> QED
    BY <2>3, <2>5
<1>5. CASE InsertRow(t)
  <2>1. /\ staged' \in [Tx -> Seq(Row)]
        /\ \A u \in Tx \ {t} : staged'[u] = staged[u]
        /\ Len(staged'[t]) = Len(staged[t]) + 1
        /\ serial' \in Nat
    BY <1>5, InsertRowStages
  <2>2. /\ UNCHANGED <<phase, sent, settled, acked, faulted, dup, dropped,
                       told_ok, outbox, mint>>
        /\ Running(t)
        /\ Len(staged[t]) < Len(sent[t])
    BY <1>5 DEF InsertRow, caller, InFlight
  <2>3. TypeOK'
    BY <2>1, <2>2 DEF TypeOK
  <2>4. /\ Len(staged[t]) \in settled[t]..Len(sent[t])
        /\ Len(sent[t]) \in Nat
        /\ settled[t] \in Nat
    BY <2>2 DEF TypeOK, Progress
  <2>5. /\ Len(staged'[t]) \in settled'[t]..Len(sent'[t])
        /\ Running(t)'
        /\ phase'[t] \in {"executing", "detached"}
    BY <2>1, <2>2, <2>4 DEF Running
  <2>6. Progress'
    BY <2>1, <2>2, <2>5 DEF Progress, Running
  <2> QED
    BY <2>3, <2>6
<1>6. CASE Complete(t)
  <2>1. Len(sent[t]) \in Nat /\ settled[t] \in Nat /\ acked[t] \subseteq Nat
    BY DEF TypeOK
  <2>2. /\ phase' = [phase EXCEPT ![t] = "open"]
        /\ settled' = [settled EXCEPT ![t] = Len(sent[t])]
        /\ Running(t)
        /\ Len(staged[t]) = Len(sent[t])
        /\ UNCHANGED <<sent, faulted, dup, dropped, told_ok, staged, outbox,
                       serial, mint>>
    BY <1>6 DEF Complete, table
  <2>3. /\ acked'[t] \subseteq 1..Len(sent[t])
        /\ \A u \in Tx \ {t} : acked'[u] = acked[u]
        /\ acked' \in [Tx -> SUBSET Nat]
    BY <1>6, <2>1 DEF Complete, Progress, TypeOK
  <2>4. TypeOK'
    BY <2>1, <2>2, <2>3 DEF TypeOK
  <2>5. Progress'
    BY <2>1, <2>2, <2>3 DEF Progress, Running, TypeOK
  <2> QED
    BY <2>4, <2>5
<1>7. CASE Fails(t)
  <2>1. PICK code : Fail(t, code)
    BY <1>7 DEF Fails
  <2>2. /\ phase' = [phase EXCEPT ![t] = "failed"]
        /\ staged' = [staged EXCEPT ![t] = <<>>]
        /\ sent' = [sent EXCEPT ![t] = SubSeq(sent[t], 1, settled[t])]
        /\ UNCHANGED <<settled, acked, dropped, told_ok, outbox, serial, mint>>
    BY <1>7, <2>1 DEF Fails, Fail
  <2>3. /\ sent' \in [Tx -> Seq(Event)]
        /\ \A u \in Tx \ {t} : sent'[u] = sent[u]
        /\ Len(sent'[t]) = settled[t]
    BY <2>2, SentSettled
  <2>4. Current(t).event_id \in EventId
    BY <1>7, CurrentEvent DEF Fails
  <2>5. faulted' \in [Tx -> BOOLEAN] /\ dup' \in [Tx -> SUBSET EventId]
    <3>1. \/ faulted' = [faulted EXCEPT ![t] = TRUE]
          \/ faulted' = faulted
      BY <2>1 DEF Fail
    <3>2. \/ dup' = [dup EXCEPT ![t] = dup[t] \cup {Current(t).event_id}]
          \/ dup' = dup
      BY <2>1 DEF Fail
    <3>3. faulted \in [Tx -> BOOLEAN] /\ dup \in [Tx -> SUBSET EventId]
      BY DEF TypeOK
    <3>4. faulted' \in [Tx -> BOOLEAN]
      BY <3>1, <3>3
    <3>5. dup' \in [Tx -> SUBSET EventId]
      BY <2>4, <3>2, <3>3
    <3> QED
      BY <3>4, <3>5
  <2>6. TypeOK'
    BY <2>2, <2>3, <2>5 DEF TypeOK
  <2>7. Progress'
    BY <2>2, <2>3 DEF Progress, Running, TypeOK
  <2> QED
    BY <2>6, <2>7
<1>8. CASE DropFuture(t)
  <2>1. /\ phase[t] = "executing"
        /\ dropped' = [dropped EXCEPT ![t] = TRUE]
        /\ UNCHANGED <<settled, acked, faulted, dup, told_ok, staged, outbox,
                       serial, mint>>
    BY <1>8 DEF DropFuture, table
  <2>2. CASE phase' = [phase EXCEPT ![t] = "detached"] /\ UNCHANGED sent
    BY <2>1, <2>2 DEF TypeOK, Progress, Running
  <2>3. CASE /\ Len(staged[t]) = settled[t]
             /\ phase' = [phase EXCEPT ![t] = "open"]
             /\ sent' = [sent EXCEPT ![t] = SubSeq(sent[t], 1, settled[t])]
    <3>1. /\ sent' \in [Tx -> Seq(Event)]
          /\ \A u \in Tx \ {t} : sent'[u] = sent[u]
          /\ Len(sent'[t]) = settled[t]
      BY <2>3, SentSettled
    <3> QED
      BY <2>1, <2>3, <3>1 DEF TypeOK, Progress, Running
  <2> QED
    BY <1>8, <2>2, <2>3 DEF DropFuture
<1>9. CASE CommitApplied(t)
  <2>1. PICK answered \in BOOLEAN : End(t, "committed", answered)
    BY <1>9 DEF CommitApplied
  <2>2. outbox' \subseteq Row
    <3>1. staged[t] \in Seq(Row)
      BY DEF TypeOK
    <3>2. Range(staged[t]) \subseteq Row
      BY <3>1 DEF Range
    <3> QED
      BY <1>9, <3>2 DEF CommitApplied, TypeOK
  <2> QED
    BY <1>9, <2>1, <2>2 DEF CommitApplied, End, TypeOK, Progress, Running
<1>10. CASE Aborts(t)
  BY <1>10 DEF Aborts, Idle, End, TypeOK, Progress, Running
<1>11. CASE ConnectionLost(t)
  <2>1. /\ phase' = [phase EXCEPT ![t] = "aborted"]
        /\ staged' = [staged EXCEPT ![t] = <<>>]
        /\ sent' = [sent EXCEPT ![t] = SubSeq(sent[t], 1, settled[t])]
        /\ faulted' \in [Tx -> BOOLEAN]
        /\ UNCHANGED <<settled, acked, dup, dropped, told_ok, outbox, serial,
                       mint>>
    BY <1>11 DEF ConnectionLost, TypeOK
  <2>2. /\ sent' \in [Tx -> Seq(Event)]
        /\ \A u \in Tx \ {t} : sent'[u] = sent[u]
        /\ Len(sent'[t]) = settled[t]
    BY <2>1, SentSettled
  <2>3. TypeOK'
    BY <2>1, <2>2 DEF TypeOK
  <2>4. Progress'
    BY <2>1, <2>2 DEF Progress, Running, TypeOK
  <2> QED
    BY <2>3, <2>4
<1> QED
  BY <1>1, <1>2, <1>3, <1>4, <1>5, <1>6, <1>7, <1>8, <1>9, <1>10, <1>11,
     StepCases DEF Sends

\* Every variable has its type in every reachable state.  The bounds on the
\* progress of a transaction are needed with it: what is kept of sent when a
\* statement fails is a sequence only because settled does not exceed its length.
THEOREM TypeCorrect == Spec => []TypeOK
<1>1. TypeOK /\ Progress /\ UNCHANGED vars => TypeOK' /\ Progress'
  BY DEF vars, caller, table, TypeOK, Progress, Running
<1>2. TypeOK /\ Progress /\ [Next]_vars => TypeOK' /\ Progress'
  BY <1>1, StepTypeProgress DEF Next, Rest
<1> QED
  BY <1>2, InitTypeProgress, PTL DEF Spec

-----------------------------------------------------------------------------
(* What a step of one transaction does to the rows *)

\* A transaction that has ended takes no further step.
LEMMA EndedStays ==
  ASSUME TypeOK, NEW t \in Tx, Step(t), phase[t] \in {"committed", "aborted"}
  PROVE  UNCHANGED vars
<1>1. ~ Begin(t) /\ ~ InsertRow(t) /\ ~ Complete(t) /\ ~ DropFuture(t)
        /\ ~ CommitApplied(t) /\ ~ Aborts(t) /\ ~ ConnectionLost(t)
  BY DEF Begin, InsertRow, InFlight, Complete, Running, DropFuture,
         CommitApplied, Aborts, Idle, ConnectionLost
<1>2. ~ Fails(t)
  BY DEF Fails, InFlight, Running
<1>3. ~ Sends(t)
  BY DEF Sends, Execute
<1>4. ~ \E items \in Seq(Item) : RefuseFailed(t, items)
  BY DEF RefuseFailed
<1> QED
  BY <1>1, <1>2, <1>3, <1>4, StepCases

\* The rows of t are dropped, or kept with the events they stand for.
Drops(t) == staged'[t] = <<>> /\ phase'[t] # "committed"
Keeps(t) ==
  /\ staged'[t] = staged[t]
  /\ \A i \in 1..Len(staged[t]) : sent'[t][i] = sent[t][i]
  /\ phase'[t] = "committed" => UNCHANGED vars

\* What any step may do to the rows: it touches one transaction, and within it
\* adds a row, publishes, discards, or leaves the staged rows alone.
LEMMA StepEffect ==
  ASSUME TypeOK, Progress, NEW t \in Tx, Step(t)
  PROVE  /\ \A u \in Tx \ {t} : /\ staged'[u] = staged[u]
                                /\ sent'[u] = sent[u]
                                /\ phase'[u] = phase[u]
                                /\ settled'[u] = settled[u]
         /\ \/ InsertRow(t)
            \/ CommitApplied(t)
            \/ UNCHANGED <<outbox, serial>> /\ (Drops(t) \/ Keeps(t))
<1> DEFINE Others == \A u \in Tx \ {t} : /\ staged'[u] = staged[u]
                                         /\ sent'[u] = sent[u]
                                         /\ phase'[u] = phase[u]
                                         /\ settled'[u] = settled[u]
           Goal == /\ Others
                   /\ \/ InsertRow(t)
                      \/ CommitApplied(t)
                      \/ UNCHANGED <<outbox, serial>> /\ (Drops(t) \/ Keeps(t))
<1>1. CASE UNCHANGED vars
  BY <1>1 DEF vars, table, Keeps
<1>2. CASE Begin(t)
  BY <1>2 DEF Begin, table, Keeps, TypeOK
<1>3. ASSUME NEW items \in Seq(Item), RefuseFailed(t, items)
      PROVE  Goal
  BY <1>3 DEF RefuseFailed, table, Keeps
<1>4. ASSUME NEW items \in Seq(Item), NEW ids \in [1..Len(items) -> EventId],
             Execute(t, ids, items)
      PROVE  Goal
  <2>1. /\ \A u \in Tx \ {t} : sent'[u] = sent[u]
        /\ \A i \in 1..Len(sent[t]) : sent'[t][i] = sent[t][i]
    BY <1>4, ExecuteSends
  <2>2. /\ phase' = [phase EXCEPT ![t] = "executing"]
        /\ UNCHANGED <<settled, staged, outbox, serial>>
        /\ Len(staged[t]) = Len(sent[t])
    BY <1>4 DEF Execute, table, Progress
  <2>3. phase'[t] = "executing" /\ \A u \in Tx \ {t} : phase'[u] = phase[u]
    BY <2>2 DEF TypeOK
  <2> QED
    BY <2>1, <2>2, <2>3 DEF Keeps
<1>5. CASE InsertRow(t)
  <2>1. \A u \in Tx \ {t} : staged'[u] = staged[u]
    BY <1>5, InsertRowStages
  <2> QED
    BY <1>5, <2>1 DEF InsertRow
<1>6. CASE Complete(t)
  BY <1>6 DEF Complete, table, Keeps, TypeOK
<1>7. CASE Fails(t)
  <2>1. PICK code : Fail(t, code)
    BY <1>7 DEF Fails
  <2> QED
    BY <1>7, <2>1 DEF Fails, Fail, Drops, TypeOK
<1>8. CASE DropFuture(t)
  <2>1. UNCHANGED <<settled, staged, outbox, serial>>
    BY <1>8 DEF DropFuture, table
  <2>2. CASE phase' = [phase EXCEPT ![t] = "detached"] /\ UNCHANGED sent
    BY <2>1, <2>2 DEF Keeps, TypeOK
  <2>3. CASE /\ Len(staged[t]) = settled[t]
             /\ phase' = [phase EXCEPT ![t] = "open"]
             /\ sent' = [sent EXCEPT ![t] = SubSeq(sent[t], 1, settled[t])]
    <3>1. /\ \A u \in Tx \ {t} : sent'[u] = sent[u]
          /\ \A i \in 1..settled[t] : sent'[t][i] = sent[t][i]
      BY <2>3, SentSettled
    <3> QED
      BY <2>1, <2>3, <3>1 DEF Keeps, TypeOK
  <2> QED
    BY <1>8, <2>2, <2>3 DEF DropFuture
<1>9. CASE CommitApplied(t)
  BY <1>9 DEF CommitApplied, End, TypeOK
<1>10. CASE Aborts(t)
  BY <1>10 DEF Aborts, End, Drops, TypeOK
<1>11. CASE ConnectionLost(t)
  BY <1>11 DEF ConnectionLost, Drops, TypeOK
<1> QED
  BY <1>1, <1>2, <1>3, <1>4, <1>5, <1>6, <1>7, <1>8, <1>9, <1>10, <1>11,
     StepCases DEF Sends

-----------------------------------------------------------------------------
(* Rows: what they say and that none is there twice *)

\* The sequences of a transaction, as functions.
LEMMA StagedDomains ==
  ASSUME TypeOK, NEW u \in Tx
  PROVE  /\ DOMAIN staged[u] = 1..Len(staged[u])
         /\ Len(staged[u]) \in Nat
         /\ DOMAIN sent[u] = 1..Len(sent[u])
         /\ Len(sent[u]) \in Nat
         /\ \A i \in 1..Len(staged[u]) : staged[u][i] \in Row
         /\ \A i \in 1..Len(sent[u]) : sent[u][i] \in Event
<1>1. staged[u] \in Seq(Row) /\ sent[u] \in Seq(Event)
  BY DEF TypeOK
<1> QED
  BY <1>1

\* No step shifts the columns of a statement against one another.
LEMMA StepAligned ==
  ASSUME TypeOK, Progress, Aligned, NEW t \in Tx, Step(t)
  PROVE  Aligned'
<1> SUFFICES ASSUME NEW u \in Tx, NEW i \in DOMAIN staged'[u]
             PROVE  /\ staged'[u][i].event_id = sent'[u][i].event_id
                    /\ staged'[u][i].item = sent'[u][i].item
  BY DEF Aligned
<1>1. CASE u # t
  BY <1>1, StepEffect DEF Aligned
<1>2. CASE u = t /\ InsertRow(t)
  <2>1. /\ Len(staged'[t]) = Len(staged[t]) + 1
        /\ \A j \in 1..Len(staged[t]) : staged'[t][j] = staged[t][j]
        /\ staged'[t][Len(staged[t]) + 1] =
             [id |-> serial + 1, event_id |-> Current(t).event_id,
              item |-> Current(t).item]
        /\ staged' \in [Tx -> Seq(Row)]
    BY <1>2, InsertRowStages
  <2>2. sent' = sent
    BY <1>2 DEF InsertRow
  <2>3. DOMAIN staged'[t] = 1 .. Len(staged[t]) + 1
    <3>1. staged'[t] \in Seq(Row)
      BY <2>1
    <3> QED
      BY <2>1, <3>1
  <2>4. CASE i = Len(staged[t]) + 1
    BY <1>2, <2>1, <2>2, <2>4 DEF Current
  <2>5. CASE i \in 1..Len(staged[t])
    BY <1>2, <2>1, <2>2, <2>5, StagedDomains DEF Aligned
  <2> QED
    BY <1>2, <2>3, <2>4, <2>5, StagedDomains
<1>3. CASE u = t /\ CommitApplied(t)
  <2>1. staged'[t] = <<>>
    BY <1>3 DEF CommitApplied, End, TypeOK
  <2> QED
    BY <1>3, <2>1
<1>4. CASE u = t /\ Drops(t)
  BY <1>4 DEF Drops
<1>5. CASE u = t /\ Keeps(t)
  BY <1>5, StagedDomains DEF Keeps, Aligned
<1> QED
  BY <1>1, <1>2, <1>3, <1>4, <1>5, StepEffect

\* No step lets an event_id, or an id of the sequence, into two rows.
LEMMA StepDistinct ==
  ASSUME TypeOK, Progress, Distinct, NEW t \in Tx, Step(t)
  PROVE  Distinct'
<1>1. CASE InsertRow(t)
  <2> DEFINE n   == Len(staged[t]) + 1
             row == [id |-> serial + 1, event_id |-> Current(t).event_id,
                     item |-> Current(t).item]
  <2>1. /\ staged' \in [Tx -> Seq(Row)]
        /\ \A u \in Tx \ {t} : staged'[u] = staged[u]
        /\ Len(staged'[t]) = n
        /\ \A j \in 1..Len(staged[t]) : staged'[t][j] = staged[t][j]
        /\ staged'[t][n] = row
        /\ serial' = serial + 1
    BY <1>1, InsertRowStages
  <2>2. outbox' = outbox
    BY <1>1 DEF InsertRow
  <2>3. /\ \A r \in outbox : r.event_id # row.event_id
        /\ \A i \in DOMAIN staged[t] : staged[t][i].event_id # row.event_id
    BY <1>1 DEF InsertRow, Taken, Ids
  <2>4. \A u \in Tx \ {t} : \A i \in DOMAIN staged[u] :
          staged[u][i].event_id # row.event_id
    BY <1>1 DEF InsertRow, Holders, Ids
  <2>5. \A u \in Tx : \A i \in DOMAIN staged[u] :
          staged[u][i].event_id # row.event_id
    BY <2>3, <2>4
  <2>6. /\ serial \in Nat
        /\ row.id = serial + 1
        /\ \A r \in outbox : r.id \in Nat /\ r.id < row.id
        /\ \A u \in Tx : \A i \in DOMAIN staged[u] :
             staged[u][i].id \in Nat /\ staged[u][i].id < row.id
    <3>1. \A r \in outbox : r.id \in Nat
      BY DEF TypeOK, Row
    <3>2. \A u \in Tx : \A i \in DOMAIN staged[u] : staged[u][i].id \in Nat
      BY StagedDomains DEF Row
    <3>3. serial \in Nat
      BY DEF TypeOK
    <3> QED
      BY <3>1, <3>2, <3>3 DEF Distinct
  <2> HIDE DEF row
  <2>7. /\ n \in Nat \ {0}
        /\ DOMAIN staged[t] = 1 .. n - 1
        /\ DOMAIN staged'[t] = 1 .. n
    <3>1. staged'[t] \in Seq(Row)
      BY <2>1
    <3> QED
      BY <2>1, <3>1, StagedDomains
  <2> HIDE DEF n
  <2>8. \A u \in Tx : \A i \in DOMAIN staged'[u] :
          \/ u = t /\ i = n /\ staged'[u][i] = row
          \/ i \in DOMAIN staged[u] /\ staged'[u][i] = staged[u][i]
    BY <2>1, <2>7 DEF n
  <2>9. EventIdUnique'
    BY <2>2 DEF Distinct, EventIdUnique
  <2>10. /\ \A r \in outbox' : r.id <= serial'
         /\ \A u \in Tx : \A i \in DOMAIN staged'[u] :
              staged'[u][i].id <= serial'
    BY <2>1, <2>2, <2>6, <2>8
  <2>11. \A u \in Tx : \A i \in DOMAIN staged'[u] : \A r \in outbox' :
           staged'[u][i].id # r.id /\ staged'[u][i].event_id # r.event_id
    <3> TAKE u \in Tx
    <3> TAKE i \in DOMAIN staged'[u]
    <3> TAKE r \in outbox'
    <3>1. CASE staged'[u][i] = row
      BY <2>2, <2>3, <2>6, <3>1
    <3>2. CASE i \in DOMAIN staged[u] /\ staged'[u][i] = staged[u][i]
      BY <2>2, <3>2 DEF Distinct
    <3> QED
      BY <2>8, <3>1, <3>2
  <2>12. \A u, w \in Tx :
         \A i \in DOMAIN staged'[u], j \in DOMAIN staged'[w] :
           \/ staged'[u][i].id = staged'[w][j].id
           \/ staged'[u][i].event_id = staged'[w][j].event_id
           => u = w /\ i = j
    <3> TAKE u, w \in Tx
    <3> TAKE i \in DOMAIN staged'[u], j \in DOMAIN staged'[w]
    <3>1. CASE u = t /\ i = n /\ staged'[u][i] = row
      <4>1. CASE j \in DOMAIN staged[w] /\ staged'[w][j] = staged[w][j]
        BY <2>5, <2>6, <3>1, <4>1
      <4> QED
        BY <2>8, <3>1, <4>1
    <3>2. CASE i \in DOMAIN staged[u] /\ staged'[u][i] = staged[u][i]
      <4>1. CASE w = t /\ j = n /\ staged'[w][j] = row
        BY <2>5, <2>6, <3>2, <4>1
      <4>2. CASE j \in DOMAIN staged[w] /\ staged'[w][j] = staged[w][j]
        BY <3>2, <4>2 DEF Distinct
      <4> QED
        BY <2>8, <4>1, <4>2
    <3> QED
      BY <2>8, <3>1, <3>2
  <2>13. \A u \in Tx : \A i, j \in DOMAIN staged'[u] :
           i < j => staged'[u][i].id < staged'[u][j].id
    <3> TAKE u \in Tx
    <3> TAKE i, j \in DOMAIN staged'[u]
    <3> HAVE i < j
    <3>1. CASE u = t /\ j = n /\ staged'[u][j] = row
      <4>1. i \in DOMAIN staged[u] /\ staged'[u][i] = staged[u][i]
        BY <2>7, <2>8, <3>1
      <4> QED
        BY <2>6, <3>1, <4>1
    <3>2. CASE j \in DOMAIN staged[u] /\ staged'[u][j] = staged[u][j]
      <4>1. i \in DOMAIN staged[u] /\ staged'[u][i] = staged[u][i]
        BY <2>7, <2>8, <3>2
      <4> QED
        BY <3>2, <4>1 DEF Distinct
    <3> QED
      BY <2>8, <3>1, <3>2
  <2> QED
    BY <2>9, <2>10, <2>11, <2>12, <2>13 DEF Distinct
<1>2. CASE CommitApplied(t)
  <2>1. /\ staged'[t] = <<>>
        /\ serial' = serial
        /\ outbox' = outbox \cup Range(staged[t])
    BY <1>2 DEF CommitApplied, End, TypeOK
  <2>2. \A u \in Tx \ {t} : staged'[u] = staged[u]
    BY StepEffect
  <2>3. \A r \in outbox' : r \in outbox \/ \E i \in DOMAIN staged[t] :
                                              r = staged[t][i]
    BY <2>1 DEF Range
  <2>4. \A u \in Tx : \A i \in DOMAIN staged'[u] :
          u # t /\ i \in DOMAIN staged[u] /\ staged'[u][i] = staged[u][i]
    BY <2>1, <2>2
  <2>5. EventIdUnique'
    <3> SUFFICES ASSUME NEW r \in outbox', NEW x \in outbox',
                        r.event_id = x.event_id \/ r.id = x.id
                 PROVE  r = x
      BY DEF EventIdUnique
    <3> QED
      BY <2>3 DEF Distinct, EventIdUnique
  <2>6. \A r \in outbox' : r.id <= serial'
    BY <2>1, <2>3 DEF Distinct
  <2>7. \A u \in Tx : \A i \in DOMAIN staged'[u] : \A r \in outbox' :
           staged'[u][i].id # r.id /\ staged'[u][i].event_id # r.event_id
    BY <2>3, <2>4 DEF Distinct
  <2>8. /\ \A u \in Tx : \A i \in DOMAIN staged'[u] :
             staged'[u][i].id <= serial'
        /\ \A u, w \in Tx :
           \A i \in DOMAIN staged'[u], j \in DOMAIN staged'[w] :
             \/ staged'[u][i].id = staged'[w][j].id
             \/ staged'[u][i].event_id = staged'[w][j].event_id
             => u = w /\ i = j
        /\ \A u \in Tx : \A i, j \in DOMAIN staged'[u] :
             i < j => staged'[u][i].id < staged'[u][j].id
    BY <2>1, <2>4 DEF Distinct
  <2> QED
    BY <2>5, <2>6, <2>7, <2>8 DEF Distinct
<1>3. CASE UNCHANGED <<outbox, serial>> /\ (Drops(t) \/ Keeps(t))
  <2>1. \A u \in Tx : staged'[u] = staged[u] \/ staged'[u] = <<>>
    BY <1>3, StepEffect DEF Drops, Keeps
  <2>2. \A u \in Tx : \A i \in DOMAIN staged'[u] :
          i \in DOMAIN staged[u] /\ staged'[u][i] = staged[u][i]
    BY <2>1
  <2>3. EventIdUnique'
    BY <1>3 DEF Distinct, EventIdUnique
  <2> QED
    BY <1>3, <2>2, <2>3 DEF Distinct
<1> QED
  BY <1>1, <1>2, <1>3, StepEffect

-----------------------------------------------------------------------------
(* Committed rows and committed calls *)

\* The events behind the rows a commit adds are those of the transaction.
LEMMA CommitPublishes ==
  ASSUME TypeOK, Progress, Aligned, NEW t \in Tx, CommitApplied(t)
  PROVE  /\ \A r \in Range(staged[t]) :
              [event_id |-> r.event_id, item |-> r.item] \in Range(sent[t])
         /\ \A i \in DOMAIN sent[t] :
              /\ staged[t][i] \in Range(staged[t])
              /\ sent[t][i] = [event_id |-> staged[t][i].event_id,
                               item |-> staged[t][i].item]
<1>1. /\ DOMAIN staged[t] = DOMAIN sent[t]
      /\ \A i \in DOMAIN sent[t] : sent[t][i] \in Event
  BY StagedDomains DEF CommitApplied, Progress
<1>2. \A i \in DOMAIN sent[t] :
        sent[t][i] = [event_id |-> staged[t][i].event_id,
                      item |-> staged[t][i].item]
  BY <1>1 DEF Aligned, Event
<1> QED
  BY <1>1, <1>2 DEF Range

\* The rows of a transaction enter the outbox together, with their commit.
LEMMA StepCommitted ==
  ASSUME TypeOK, Progress, Aligned, Committed, NEW t \in Tx, Step(t)
  PROVE  Committed'
<1>1. CASE UNCHANGED vars
  BY <1>1 DEF vars, table, Committed, Published
<1>2. CASE ~ UNCHANGED vars
  <2>1. phase[t] # "committed"
    BY <1>2, EndedStays
  <2>2. \A u \in Tx : phase[u] = "committed" =>
          phase'[u] = "committed" /\ sent'[u] = sent[u]
    BY <2>1, StepEffect
  <2>3. CASE CommitApplied(t)
    <3>1. /\ outbox' = outbox \cup Range(staged[t])
          /\ sent' = sent
          /\ phase'[t] = "committed"
          /\ \A u \in Tx \ {t} : phase'[u] = phase[u]
      BY <2>3 DEF CommitApplied, End, TypeOK
    <3>2. ASSUME NEW r \in outbox'
          PROVE  \E u \in Tx :
                   /\ phase'[u] = "committed"
                   /\ [event_id |-> r.event_id, item |-> r.item]
                        \in Range(sent'[u])
      <4>1. CASE r \in outbox
        BY <2>2, <4>1 DEF Committed
      <4>2. CASE r \in Range(staged[t])
        BY <2>3, <3>1, <4>2, CommitPublishes
      <4> QED
        BY <3>1, <4>1, <4>2
    <3>3. ASSUME NEW u \in Tx, phase'[u] = "committed",
                 NEW i \in DOMAIN sent'[u]
          PROVE  sent'[u][i] \in Published'
      <4>1. CASE u = t
        <5>1. /\ staged[t][i] \in outbox'
              /\ sent[t][i] = [event_id |-> staged[t][i].event_id,
                               item |-> staged[t][i].item]
          BY <2>3, <3>1, <3>3, <4>1, CommitPublishes
        <5> QED
          BY <3>1, <4>1, <5>1 DEF Published
      <4>2. CASE u # t
        <5>1. sent[u][i] \in Published
          BY <3>1, <3>3, <4>2 DEF Committed
        <5> QED
          BY <3>1, <5>1 DEF Published
      <4> QED
        BY <4>1, <4>2
    <3> QED
      BY <3>2, <3>3 DEF Committed
  <2>4. CASE ~ CommitApplied(t)
    <3>1. outbox' = outbox
      BY <2>4, StepEffect DEF InsertRow
    <3>2. phase'[t] # "committed"
      <4>1. CASE InsertRow(t)
        BY <2>1, <4>1 DEF InsertRow
      <4> QED
        BY <1>2, <2>4, <4>1, StepEffect DEF Drops, Keeps
    <3>3. \A u \in Tx : phase'[u] = "committed" => phase[u] = "committed"
      BY <3>2, StepEffect
    <3> QED
      BY <2>2, <3>1, <3>3 DEF Committed, Published
  <2> QED
    BY <2>3, <2>4
<1> QED
  BY <1>1, <1>2

\* A commit publishes rows whose ids follow the calls.
LEMMA StepRowsInCallOrder ==
  ASSUME TypeOK, Progress, Aligned, Distinct, Committed, RowsInCallOrder,
         NEW t \in Tx, Step(t)
  PROVE  RowsInCallOrder'
<1>1. CASE UNCHANGED vars
  BY <1>1 DEF vars, table, RowsInCallOrder
<1>2. CASE ~ UNCHANGED vars
  <2>1. phase[t] # "committed"
    BY <1>2, EndedStays
  <2>2. CASE CommitApplied(t)
    <3>1. /\ outbox' = outbox \cup Range(staged[t])
          /\ sent' = sent
          /\ \A u \in Tx \ {t} : phase'[u] = phase[u]
      BY <2>2 DEF CommitApplied, End, TypeOK
    <3>2. DOMAIN staged[t] = DOMAIN sent[t]
      BY <2>2, StagedDomains DEF CommitApplied, Progress
    <3> SUFFICES ASSUME NEW u \in Tx, phase'[u] = "committed",
                        NEW i \in DOMAIN sent[u], NEW j \in DOMAIN sent[u],
                        NEW r \in outbox', NEW x \in outbox', i < j,
                        r.event_id = sent[u][i].event_id,
                        x.event_id = sent[u][j].event_id
                 PROVE  r.id < x.id
      BY <3>1 DEF RowsInCallOrder
    <3>3. CASE u = t
      <4>1. /\ staged[t][i].event_id = r.event_id
            /\ staged[t][j].event_id = x.event_id
        BY <3>2, <3>3 DEF Aligned
      <4>2. r = staged[t][i]
        BY <3>1, <3>2, <3>3, <4>1 DEF Distinct, Range
      <4>3. x = staged[t][j]
        BY <3>1, <3>2, <3>3, <4>1 DEF Distinct, Range
      <4> QED
        BY <3>2, <3>3, <4>2, <4>3 DEF Distinct
    <3>4. CASE u # t
      <4>1. sent[u][i] \in Published /\ sent[u][j] \in Published
        BY <3>1, <3>4 DEF Committed
      <4>2. PICK a, b \in outbox : /\ a.event_id = r.event_id
                                   /\ b.event_id = x.event_id
        BY <4>1 DEF Published
      <4>3. r \in outbox
        BY <3>1, <4>2 DEF Distinct, Range
      <4>4. x \in outbox
        BY <3>1, <4>2 DEF Distinct, Range
      <4> QED
        BY <3>1, <3>4, <4>3, <4>4 DEF RowsInCallOrder
    <3> QED
      BY <3>3, <3>4
  <2>3. CASE ~ CommitApplied(t)
    <3>1. outbox' = outbox
      BY <2>3, StepEffect DEF InsertRow
    <3>2. phase'[t] # "committed"
      <4>1. CASE InsertRow(t)
        BY <2>1, <4>1 DEF InsertRow
      <4> QED
        BY <1>2, <2>3, <4>1, StepEffect DEF Drops, Keeps
    <3>3. \A u \in Tx : phase'[u] = "committed" =>
            phase[u] = "committed" /\ sent'[u] = sent[u]
      BY <3>2, StepEffect
    <3> QED
      BY <3>1, <3>3 DEF RowsInCallOrder
  <2> QED
    BY <2>2, <2>3
<1> QED
  BY <1>1, <1>2

-----------------------------------------------------------------------------
(* What is sent, and what the caller learns *)

\* A step leaves sent as it was, shortens it to what is settled, or appends
\* a statement of valid items with distinct ids.
LEMMA StepSent ==
  ASSUME TypeOK, Progress, NEW t \in Tx, Step(t)
  PROVE  \/ sent'[t] = sent[t]
         \/ /\ Len(sent'[t]) = settled[t]
            /\ settled[t] <= Len(sent[t])
            /\ \A i \in 1..settled[t] : sent'[t][i] = sent[t][i]
            /\ settled'[t] = settled[t]
         \/ Sends(t)
<1>1. CASE UNCHANGED vars
  BY <1>1 DEF vars
<1>2. CASE Fails(t)
  <2>1. sent' = [sent EXCEPT ![t] = SubSeq(sent[t], 1, settled[t])]
    BY <1>2 DEF Fails, Fail
  <2> QED
    BY <1>2, <2>1, SentSettled DEF Fails, Fail, Progress
<1>3. CASE DropFuture(t)
  <2>1. CASE UNCHANGED sent
    BY <2>1
  <2>2. CASE sent' = [sent EXCEPT ![t] = SubSeq(sent[t], 1, settled[t])]
    BY <1>3, <2>2, SentSettled DEF DropFuture, Progress
  <2> QED
    BY <1>3, <2>1, <2>2 DEF DropFuture
<1>4. CASE ConnectionLost(t)
  <2>1. sent' = [sent EXCEPT ![t] = SubSeq(sent[t], 1, settled[t])]
    BY <1>4 DEF ConnectionLost
  <2> QED
    BY <1>4, <2>1, SentSettled DEF ConnectionLost, Progress
<1>5. CASE Begin(t) \/ InsertRow(t) \/ Complete(t)
             \/ CommitApplied(t) \/ Aborts(t)
  BY <1>5 DEF Begin, InsertRow, Complete, CommitApplied, Aborts, End
<1>6. ASSUME NEW items \in Seq(Item), RefuseFailed(t, items)
      PROVE  sent'[t] = sent[t]
  BY <1>6 DEF RefuseFailed
<1> QED
  BY <1>1, <1>2, <1>3, <1>4, <1>5, <1>6, StepCases

\* What a call adds to the statements passed the checks made before it.
LEMMA SendsValid ==
  ASSUME TypeOK, Progress, NEW t \in Tx, Sends(t)
  PROVE  /\ \A i \in 1..Len(sent[t]) : sent'[t][i] = sent[t][i]
         /\ \A i \in DOMAIN sent'[t] : i \notin 1..Len(sent[t]) =>
              sent'[t][i].item \notin NoCallbacks \cup Unserializable
         /\ \A i, j \in Len(sent[t]) + 1 .. Len(sent'[t]) :
              sent'[t][i].event_id = sent'[t][j].event_id => i = j
         /\ settled'[t] = Len(sent[t])
<1>1. PICK items \in Seq(Item) : \E ids \in [1..Len(items) -> EventId] :
             /\ Execute(t, ids, items)
             /\ \A i, j \in 1..Len(items) : ids[i] = ids[j] => i = j
  BY DEF Sends
<1>2. PICK ids \in [1..Len(items) -> EventId] :
             /\ Execute(t, ids, items)
             /\ \A i, j \in 1..Len(items) : ids[i] = ids[j] => i = j
  BY <1>1
<1> DEFINE n == Len(sent[t])
<1>3. /\ sent' \in [Tx -> Seq(Event)]
      /\ Len(sent'[t]) = n + Len(items)
      /\ \A i \in 1..n : sent'[t][i] = sent[t][i]
      /\ \A i \in n + 1 .. n + Len(items) :
           sent'[t][i] = [event_id |-> ids[i - n], item |-> items[i - n]]
  BY <1>2, ExecuteSends
<1>4. /\ n \in Nat
      /\ Len(items) \in Nat
      /\ settled'[t] = n
      /\ DOMAIN sent'[t] = 1 .. n + Len(items)
  <2>1. sent'[t] \in Seq(Event)
    BY <1>3
  <2>2. settled'[t] = n
    BY <1>2 DEF Execute, Progress, Running
  <2> QED
    BY <1>3, <2>1, <2>2, StagedDomains
<1> HIDE DEF n
<1>5. \A k \in 1..Len(items) : items[k] \notin NoCallbacks \cup Unserializable
  BY <1>2 DEF Execute, Refusal, Range
<1>6. \A i \in DOMAIN sent'[t] : i \notin 1..n =>
        sent'[t][i].item \notin NoCallbacks \cup Unserializable
  <2> TAKE i \in DOMAIN sent'[t]
  <2> HAVE i \notin 1..n
  <2>1. i \in n + 1 .. n + Len(items) /\ i - n \in 1..Len(items)
    BY <1>4
  <2>2. sent'[t][i] = [event_id |-> ids[i - n], item |-> items[i - n]]
    BY <1>3, <2>1
  <2>3. items[i - n] \notin NoCallbacks \cup Unserializable
    BY <1>5, <2>1
  <2> QED
    BY <2>2, <2>3
<1>7. \A i, j \in n + 1 .. Len(sent'[t]) :
        sent'[t][i].event_id = sent'[t][j].event_id => i = j
  <2> TAKE i, j \in n + 1 .. Len(sent'[t])
  <2>1. /\ i \in n + 1 .. n + Len(items) /\ i - n \in 1..Len(items)
        /\ j \in n + 1 .. n + Len(items) /\ j - n \in 1..Len(items)
    BY <1>3, <1>4
  <2>2. /\ sent'[t][i].event_id = ids[i - n]
        /\ sent'[t][j].event_id = ids[j - n]
    <3>1. sent'[t][i] = [event_id |-> ids[i - n], item |-> items[i - n]]
      BY <1>3, <2>1
    <3>2. sent'[t][j] = [event_id |-> ids[j - n], item |-> items[j - n]]
      BY <1>3, <2>1
    <3> QED
      BY <3>1, <3>2
  <2>3. ids[i - n] = ids[j - n] => i - n = j - n
    BY <1>2, <2>1
  <2> QED
    BY <1>4, <2>1, <2>2, <2>3
<1> QED
  BY <1>3, <1>4, <1>6, <1>7 DEF n

\* No step sends an event without callbacks or without a JSON form.
LEMMA StepInvalidNeverSent ==
  ASSUME TypeOK, Progress, InvalidNeverSent, NEW t \in Tx, Step(t),
         TypeOK'
  PROVE  InvalidNeverSent'
<1>1. \A u \in Tx : /\ DOMAIN sent[u] = 1..Len(sent[u])
                    /\ DOMAIN sent'[u] = 1..Len(sent'[u])
                    /\ Len(sent[u]) \in Nat
                    /\ settled[u] \in Nat
  BY DEF TypeOK
<1> SUFFICES ASSUME NEW u \in Tx, NEW i \in DOMAIN sent'[u]
             PROVE  sent'[u][i].item \notin NoCallbacks \cup Unserializable
  BY DEF InvalidNeverSent, Range
<1>2. CASE \E k \in DOMAIN sent[u] : sent'[u][i] = sent[u][k]
  BY <1>2 DEF InvalidNeverSent, Range
<1>3. CASE u # t
  BY <1>2, <1>3, StepEffect
<1>4. CASE u = t /\ Sends(t)
  BY <1>1, <1>2, <1>4, SendsValid
<1>5. CASE u = t /\ ~ Sends(t)
  <2>1. CASE sent'[t] = sent[t]
    BY <1>2, <1>5, <2>1
  <2>2. CASE /\ Len(sent'[t]) = settled[t]
             /\ settled[t] <= Len(sent[t])
             /\ \A k \in 1..settled[t] : sent'[t][k] = sent[t][k]
    <3>1. i \in 1..settled[t] /\ i \in DOMAIN sent[t]
      BY <1>1, <1>5, <2>2
    <3> QED
      BY <1>2, <1>5, <2>2, <3>1
  <2> QED
    BY <1>5, <2>1, <2>2, StepSent
<1> QED
  BY <1>3, <1>4, <1>5

\* The events of one statement have different ids: two are minted apart, and
\* append_with_id sends one.
LEMMA StepDistinctArguments ==
  ASSUME TypeOK, Progress, DistinctArguments, NEW t \in Tx, Step(t)
  PROVE  DistinctArguments'
<1> SUFFICES ASSUME NEW u \in Tx, Running(u)',
                    NEW i \in settled'[u] + 1 .. Len(sent'[u]),
                    NEW j \in settled'[u] + 1 .. Len(sent'[u]),
                    sent'[u][i].event_id = sent'[u][j].event_id
             PROVE  i = j
  BY DEF DistinctArguments
<1>1. CASE /\ sent'[u] = sent[u]
           /\ settled'[u] = settled[u]
           /\ Running(u)
  BY <1>1 DEF DistinctArguments
<1>2. CASE u # t
  BY <1>1, <1>2, StepEffect DEF Running
<1>3. CASE u = t /\ Sends(t)
  BY <1>3, SendsValid
<1>4. CASE u = t /\ (UNCHANGED vars \/ InsertRow(t))
  <2>1. CASE UNCHANGED vars
    BY <1>1, <1>4, <2>1 DEF vars, Running
  <2>2. CASE InsertRow(t)
    BY <1>1, <1>4, <2>2 DEF InsertRow, Running
  <2> QED
    BY <1>4, <2>1, <2>2
<1>5. CASE u = t /\ DropFuture(t)
  <2>1. phase'[t] # "open"
    BY <1>5 DEF Running
  <2>2. UNCHANGED <<sent, settled>> /\ Running(t)
    BY <1>5, <2>1 DEF DropFuture, Running, TypeOK
  <2> QED
    BY <1>1, <1>5, <2>2
<1>6. CASE u = t /\ (\/ Begin(t) \/ Complete(t) \/ Fails(t)
                     \/ CommitApplied(t) \/ Aborts(t) \/ ConnectionLost(t)
                     \/ \E items \in Seq(Item) : RefuseFailed(t, items))
  <2>1. phase'[t] \in {"open", "failed", "committed", "aborted"}
    BY <1>6 DEF Begin, Complete, Fails, Fail, CommitApplied, Aborts, End,
                ConnectionLost, RefuseFailed, TypeOK
  <2> QED
    BY <1>6, <2>1 DEF Running
<1> QED
  BY <1>2, <1>3, <1>4, <1>5, <1>6, StepCases

\* The caller is told of its calls what the server did with them.
LEMMA StepInformed ==
  ASSUME TypeOK, Progress, Informed, NEW t \in Tx, Step(t)
  PROVE  Informed'
<1> SUFFICES ASSUME NEW u \in Tx
             PROVE  /\ ~ dropped'[u] => acked'[u] = 1..settled'[u]
                    /\ phase'[u] = "detached" => dropped'[u]
                    /\ faulted'[u] => phase'[u] \in {"failed", "aborted"}
                    /\ phase'[u] = "failed" => faulted'[u] \/ dropped'[u]
                    /\ told_ok'[u] =>
                         \/ phase'[u] = "committed"
                         \/ /\ phase'[u] = "aborted"
                            /\ faulted'[u] \/ dropped'[u]
                    /\ dup'[u] # {} => phase'[u] \in {"failed", "aborted"}
  BY DEF Informed
<1> USE DEF TypeOK
<1>1. CASE UNCHANGED vars
  BY <1>1 DEF vars, caller, Informed
<1>2. CASE Begin(t)
  BY <1>2 DEF Begin, caller, Informed
<1>3. ASSUME NEW items \in Seq(Item), RefuseFailed(t, items)
      PROVE  Informed'
  BY <1>3 DEF RefuseFailed, Informed
<1>4. ASSUME NEW items \in Seq(Item), NEW ids \in [1..Len(items) -> EventId],
             Execute(t, ids, items)
      PROVE  Informed'
  BY <1>4 DEF Execute, caller, Informed
<1>5. CASE InsertRow(t)
  BY <1>5 DEF InsertRow, caller, Informed
<1>6. CASE Complete(t)
  <2>1. settled[t] \in Nat /\ Len(sent[t]) \in Nat /\ settled[t] <= Len(sent[t])
    BY DEF Progress
  <2>2. (1..settled[t]) \cup (settled[t] + 1 .. Len(sent[t])) = 1..Len(sent[t])
    BY <2>1
  <2>3. settled'[t] = Len(sent[t])
    BY <1>6 DEF Complete
  <2>4. ~ dropped'[t] => acked'[t] = 1..settled'[t]
    BY <1>6, <2>2, <2>3 DEF Complete, Running, Informed
  <2> QED
    BY <1>6, <2>4 DEF Complete, Running, Informed
<1>7. CASE Fails(t)
  <2>1. PICK code : Fail(t, code)
    BY <1>7 DEF Fails
  <2>2. phase[t] \in {"executing", "detached"}
    BY <1>7 DEF Fails, InFlight, Running
  <2>3. /\ phase' = [phase EXCEPT ![t] = "failed"]
        /\ UNCHANGED <<settled, acked, dropped, told_ok>>
        /\ \A w \in Tx \ {t} : faulted'[w] = faulted[w] /\ dup'[w] = dup[w]
        /\ phase[t] = "executing" => faulted'[t]
    BY <2>1 DEF Fail
  <2> QED
    BY <2>2, <2>3 DEF Informed
<1>8. CASE DropFuture(t)
  BY <1>8 DEF DropFuture, Informed
<1>9. CASE CommitApplied(t)
  BY <1>9 DEF CommitApplied, End, Informed
<1>10. CASE Aborts(t)
  BY <1>10 DEF Aborts, Idle, End, Informed
<1>11. CASE ConnectionLost(t)
  BY <1>11 DEF ConnectionLost, Running, Informed
<1> QED
  BY <1>1, <1>2, <1>3, <1>4, <1>5, <1>6, <1>7, <1>8, <1>9, <1>10, <1>11,
     StepCases DEF Sends, Informed

\* A duplicate is reported only when the id is taken for good, or by the
\* transaction itself.
LEMMA StepDuplicateMeansPublished ==
  ASSUME TypeOK, Progress, Aligned, DistinctArguments, Informed,
         DuplicateMeansPublished, NEW t \in Tx, Step(t)
  PROVE  DuplicateMeansPublished'
<1>1. Published \subseteq Published'
  <2>1. outbox \subseteq outbox'
    BY StepEffect DEF InsertRow, CommitApplied
  <2> QED
    BY <2>1 DEF Published
<1>2. ASSUME NEW u \in Tx, NEW id \in dup[u]
      PROVE  (\E e \in Published' : e.event_id = id) \/ id \in Ids(sent'[u])
  <2>1. phase[u] \in {"failed", "aborted"}
    BY <1>2 DEF Informed
  <2>2. sent'[u] = sent[u]
    <3>1. CASE u # t
      BY <3>1, StepEffect
    <3>2. CASE u = t
      <4>1. ~ Begin(t) /\ ~ Fails(t) /\ ~ DropFuture(t) /\ ~ ConnectionLost(t)
        BY <2>1, <3>2 DEF Begin, Fails, InFlight, DropFuture, ConnectionLost,
                          Running
      <4>2. ~ Sends(t)
        BY <2>1, <3>2 DEF Sends, Execute
      <4> QED
        BY <3>2, <4>1, <4>2, StepCases
           DEF vars, RefuseFailed, InsertRow, Complete, CommitApplied, Aborts,
               End
    <3> QED
      BY <3>1, <3>2
  <2> QED
    BY <1>1, <1>2, <2>2 DEF DuplicateMeansPublished
<1>3. ASSUME NEW u \in Tx, NEW id \in dup'[u], id \notin dup[u]
      PROVE  (\E e \in Published' : e.event_id = id) \/ id \in Ids(sent'[u])
  <2>1. u = t /\ Fails(t)
    <3>1. CASE Fails(t) /\ u # t
      BY <1>3, <3>1 DEF Fails, Fail, TypeOK
    <3>2. CASE ~ Fails(t)
      <4>1. dup' = dup
        BY <3>2, StepCases
           DEF vars, caller, Begin, RefuseFailed, Sends, Execute, InsertRow,
               Complete, DropFuture, CommitApplied, Aborts, End, ConnectionLost
      <4> QED
        BY <1>3, <4>1
    <3> QED
      BY <3>1, <3>2
  <2>2. PICK code \in {"22P05", "23505", "40P01"} :
               Fail(t, code) /\ (code = "23505" => Taken(t))
    BY <2>1 DEF Fails
  <2>3. /\ id = Current(t).event_id
        /\ ErrorOf(code) = "DuplicateEventId"
    BY <1>3, <2>1, <2>2 DEF Fail, TypeOK
  <2>4. Taken(t)
    BY <2>2, <2>3 DEF ErrorOf
  <2>5. CASE \E r \in outbox : r.event_id = id
    <3>1. PICK r \in outbox : r.event_id = id
      BY <2>5
    <3>2. [event_id |-> r.event_id, item |-> r.item] \in Published'
      BY <1>1 DEF Published
    <3> QED
      BY <3>1, <3>2
  <2>6. CASE id \in Ids(staged[t])
    <3>1. PICK i \in DOMAIN staged[t] : staged[t][i].event_id = id
      BY <2>6 DEF Ids
    <3>2. sent[t][i].event_id = id
      BY <3>1 DEF Aligned
    <3>3. /\ Running(t)
          /\ i \in 1..Len(staged[t])
          /\ Len(staged[t]) + 1 \in 1..Len(sent[t])
          /\ Len(staged[t]) \in settled[t]..Len(sent[t])
          /\ settled[t] \in Nat
      BY <2>1, CurrentEvent, StagedDomains
         DEF Fails, InFlight, Progress, TypeOK
    <3>4. i \in 1..settled[t]
      <4> SUFFICES ASSUME i \notin 1..settled[t] PROVE FALSE
        OBVIOUS
      <4>1. /\ i \in settled[t] + 1 .. Len(sent[t])
            /\ Len(staged[t]) + 1 \in settled[t] + 1 .. Len(sent[t])
        BY <3>3
      <4>2. sent[t][Len(staged[t]) + 1].event_id = id
        BY <2>3 DEF Current
      <4>3. i = Len(staged[t]) + 1
        BY <3>2, <3>3, <4>1, <4>2 DEF DistinctArguments
      <4> QED
        BY <3>3, <4>3
    <3>5. /\ sent' \in [Tx -> Seq(Event)]
          /\ Len(sent'[t]) = settled[t]
          /\ sent'[t][i] = sent[t][i]
      <4>1. sent' = [sent EXCEPT ![t] = SubSeq(sent[t], 1, settled[t])]
        BY <2>2 DEF Fail
      <4> QED
        BY <3>4, <4>1, SentSettled
    <3>6. i \in DOMAIN sent'[t]
      BY <3>4, <3>5
    <3> QED
      BY <2>1, <3>2, <3>5, <3>6 DEF Ids
  <2> QED
    BY <2>3, <2>4, <2>5, <2>6 DEF Taken
<1> QED
  BY <1>2, <1>3 DEF DuplicateMeansPublished

-----------------------------------------------------------------------------
(* The invariant, and what follows from it *)

\* The invariant holds at the start.
LEMMA InitIndInv == Init => IndInv
<1> SUFFICES ASSUME Init PROVE IndInv
  OBVIOUS
<1>1. TypeOK /\ Progress
  BY InitTypeProgress
<1>2. /\ outbox = {}
      /\ \A t \in Tx : /\ sent[t] = <<>> /\ staged[t] = <<>> /\ dup[t] = {}
                       /\ phase[t] = "new" /\ settled[t] = 0 /\ acked[t] = {}
                       /\ ~ faulted[t] /\ ~ told_ok[t]
  BY DEF Init
<1>3. Aligned /\ Distinct /\ Committed
  BY <1>2 DEF Aligned, Distinct, EventIdUnique, Committed
<1>4. DistinctArguments /\ Informed
  <2>1. \A t \in Tx : acked[t] = 1..settled[t]
    <3>1. 1..0 = {}
      OBVIOUS
    <3> QED
      BY <1>2, <3>1, Zenon
  <2>2. DistinctArguments
    BY <1>2 DEF DistinctArguments, Running
  <2> QED
    BY <1>2, <2>1, <2>2 DEF Informed
<1>5. DuplicateMeansPublished /\ RowsInCallOrder /\ InvalidNeverSent
  <2>1. DuplicateMeansPublished /\ RowsInCallOrder
    BY <1>2 DEF DuplicateMeansPublished, RowsInCallOrder
  <2>2. \A t \in Tx : DOMAIN sent[t] = {}
    BY <1>2
  <2>3. InvalidNeverSent
    BY <2>2 DEF InvalidNeverSent, Range
  <2> QED
    BY <2>1, <2>3
<1> QED
  BY <1>1, <1>3, <1>4, <1>5 DEF IndInv

\* Every step keeps the invariant.
LEMMA NextIndInv == IndInv /\ [Next]_vars => IndInv'
<1> SUFFICES ASSUME IndInv, [Next]_vars PROVE IndInv'
  OBVIOUS
<1>1. CASE UNCHANGED vars
  <2> USE <1>1 DEF vars, caller, table, IndInv
  <2>1. TypeOK' /\ Progress'
    BY DEF TypeOK, Progress, Running
  <2>2. Aligned' /\ Distinct'
    BY DEF Aligned, Distinct, EventIdUnique
  <2>3. Committed' /\ RowsInCallOrder'
    BY DEF Committed, RowsInCallOrder, Published
  <2>4. DistinctArguments' /\ Informed'
    BY DEF DistinctArguments, Informed, Running
  <2>5. DuplicateMeansPublished' /\ InvalidNeverSent'
    BY DEF DuplicateMeansPublished, InvalidNeverSent, Published
  <2> QED
    BY <2>1, <2>2, <2>3, <2>4, <2>5
<1>2. ASSUME NEW t \in Tx, Step(t)
      PROVE  IndInv'
  <2>1. TypeOK' /\ Progress'
    BY <1>2, StepTypeProgress DEF IndInv
  <2>2. Aligned' /\ Distinct'
    BY <1>2, StepAligned, StepDistinct DEF IndInv
  <2>3. Committed' /\ RowsInCallOrder'
    BY <1>2, StepCommitted, StepRowsInCallOrder DEF IndInv
  <2>4. DistinctArguments' /\ Informed'
    BY <1>2, StepDistinctArguments, StepInformed DEF IndInv
  <2>5. DuplicateMeansPublished'
    BY <1>2, StepDuplicateMeansPublished DEF IndInv
  <2>6. InvalidNeverSent'
    BY <1>2, <2>1, StepInvalidNeverSent DEF IndInv
  <2> QED
    BY <2>1, <2>2, <2>3, <2>4, <2>5, <2>6 DEF IndInv
<1> QED
  BY <1>1, <1>2 DEF Next, Rest

\* IndInv holds in every reachable state: the strengthening from which the
\* invariants below follow.
THEOREM Invariance == Spec => []IndInv
BY InitIndInv, NextIndInv, PTL DEF Spec

\* No two committed rows share an event_id or an id, however many callers
\* retry with the same key.
THEOREM EventIdsUnique == Spec => []EventIdUnique
<1>1. IndInv => EventIdUnique
  BY DEF IndInv, Distinct
<1> QED
  BY <1>1, Invariance, PTL

\* A committed transaction has every event whose call returned Ok in the outbox.
THEOREM AckedDurable == Spec => []AckedIsDurable
<1>1. IndInv => AckedIsDurable
  <2> SUFFICES ASSUME IndInv, NEW t \in Tx, phase[t] = "committed",
                      NEW i \in acked[t]
               PROVE  sent[t][i] \in Published
    BY DEF AckedIsDurable, AckedEvents
  <2>1. /\ TypeOK
        /\ acked[t] \subseteq 1..settled[t]
        /\ settled[t] <= Len(sent[t])
        /\ settled[t] \in Nat
    BY DEF IndInv, Progress, TypeOK
  <2>2. i \in DOMAIN sent[t]
    BY <2>1, StagedDomains
  <2> QED
    BY <2>2 DEF IndInv, Committed
<1> QED
  BY <1>1, Invariance, PTL

\* The awaited events of a transaction whose statements are over are all its
\* events, when no future was dropped.
LEMMA AckedAll ==
  ASSUME IndInv, NEW t \in Tx, ~ dropped[t], ~ Running(t)
  PROVE  AckedEvents(t) = Range(sent[t])
<1>1. acked[t] = 1..settled[t] /\ settled[t] = Len(sent[t])
  BY DEF IndInv, Informed, Progress
<1>2. DOMAIN sent[t] = 1..Len(sent[t])
  BY StagedDomains DEF IndInv
<1> QED
  BY <1>1, <1>2 DEF AckedEvents, Range

\* Consumers see no event but those of committed transactions, and of these
\* only the ones whose calls returned Ok or were abandoned by the caller.
THEOREM NoPhantoms == Spec => []NoPhantom
<1>1. IndInv => NoPhantom
  <2> SUFFICES ASSUME IndInv, NEW e \in Published
               PROVE  \E t \in Tx :
                        /\ phase[t] = "committed"
                        /\ \/ e \in AckedEvents(t)
                           \/ dropped[t] /\ e \in Range(sent[t])
    BY DEF NoPhantom
  <2>1. PICK r \in outbox : e = [event_id |-> r.event_id, item |-> r.item]
    BY DEF Published
  <2>2. PICK t \in Tx : phase[t] = "committed" /\ e \in Range(sent[t])
    BY <2>1 DEF IndInv, Committed
  <2>3. CASE ~ dropped[t]
    BY <2>2, <2>3, AckedAll DEF Running
  <2> QED
    BY <2>2, <2>3
<1> QED
  BY <1>1, Invariance, PTL

\* commit() does not lie to a caller that propagated every error and awaited
\* every call.
THEOREM HonestCommit == Spec => []CommitReportHonest
<1>1. IndInv => CommitReportHonest
  BY DEF IndInv, Informed, CommitReportHonest
<1> QED
  BY <1>1, Invariance, PTL

\* DuplicateEventId is only returned for an id that is committed, or that the
\* same transaction inserted before.
THEOREM DuplicatePublished == Spec => []DuplicateMeansPublished
<1>1. IndInv => DuplicateMeansPublished
  BY DEF IndInv
<1> QED
  BY <1>1, Invariance, PTL

\* Rows of a transaction are numbered in the order of its calls.
THEOREM CallOrder == Spec => []RowsInCallOrder
<1>1. IndInv => RowsInCallOrder
  BY DEF IndInv
<1> QED
  BY <1>1, Invariance, PTL

\* An event without callbacks, or without a JSON form, is never sent.
THEOREM ValidSent == Spec => []InvalidNeverSent
<1>1. IndInv => InvalidNeverSent
  BY DEF IndInv
<1> QED
  BY <1>1, Invariance, PTL

\* After an error of the database no call of the transaction returns Ok.
THEOREM FailureIsFinal == Spec => FailedStaysFailed
<1> DEFINE Final == \A t \in Tx : faulted[t] => acked'[t] = acked[t]
<1>1. IndInv /\ [Next]_vars => [Final]_vars
  <2> SUFFICES ASSUME IndInv, NEW t \in Tx, Step(t), NEW u \in Tx, faulted[u]
               PROVE  acked'[u] = acked[u]
    BY DEF Next, Rest
  <2>1. TypeOK /\ phase[u] \in {"failed", "aborted"}
    BY DEF IndInv, Informed
  <2>2. CASE Complete(t)
    BY <2>1, <2>2 DEF Complete, Running, TypeOK
  <2>3. CASE ~ Complete(t)
    BY <2>1, <2>3, StepCases
       DEF vars, caller, Begin, RefuseFailed, Sends, Execute, InsertRow, Fails,
           Fail, DropFuture, CommitApplied, Aborts, End, ConnectionLost
  <2> QED
    BY <2>2, <2>3
<1> QED
  BY <1>1, Invariance, PTL DEF Spec, FailedStaysFailed

-----------------------------------------------------------------------------
(* The publisher implements the transactional outbox *)

\* No step takes back an event the caller was told of.
LEMMA AckedKept ==
  ASSUME IndInv, NEW t \in Tx, Step(t)
  PROVE  /\ AckedEvents(t) \subseteq AckedEvents(t)'
         /\ ~ Complete(t) => AckedEvents(t)' = AckedEvents(t)
         /\ \A u \in Tx \ {t} : /\ AckedEvents(u)' = AckedEvents(u)
                                /\ Uncertain(u)' = Uncertain(u)
                                /\ WorkOf(u)' = WorkOf(u)
<1>1. TypeOK /\ Progress
  BY DEF IndInv
<1>2. \A u \in Tx \ {t} : /\ acked'[u] = acked[u]
                          /\ dropped'[u] = dropped[u]
                          /\ sent'[u] = sent[u]
                          /\ phase'[u] = phase[u]
  <2>1. \A u \in Tx \ {t} : acked'[u] = acked[u] /\ dropped'[u] = dropped[u]
    BY <1>1, StepCases
       DEF vars, caller, Begin, RefuseFailed, Sends, Execute, InsertRow,
           Complete, Fails, Fail, DropFuture, CommitApplied, Aborts, End,
           ConnectionLost, TypeOK
  <2> QED
    BY <1>1, <2>1, StepEffect
<1>3. \A i \in acked[t] : sent'[t][i] = sent[t][i]
  <2>1. /\ acked[t] \subseteq 1..settled[t]
        /\ settled[t] <= Len(sent[t])
        /\ settled[t] \in Nat /\ Len(sent[t]) \in Nat
    BY <1>1 DEF Progress, TypeOK
  <2>2. \A i \in acked[t] : i \in 1..settled[t] /\ i \in 1..Len(sent[t])
    BY <2>1
  <2> QED
    BY <1>1, <2>2, StepSent, SendsValid
<1>4. ASSUME ~ Complete(t)
      PROVE  AckedEvents(t)' = AckedEvents(t)
  <2>1. acked' = acked
    BY <1>1, <1>4, StepCases
       DEF vars, caller, Begin, RefuseFailed, Sends, Execute, InsertRow, Fails,
           Fail, DropFuture, CommitApplied, Aborts, End, ConnectionLost
  <2> QED
    BY <1>3, <2>1 DEF AckedEvents
<1>5. ASSUME Complete(t)
      PROVE  AckedEvents(t) \subseteq AckedEvents(t)'
  <2>1. acked[t] \subseteq acked'[t]
    BY <1>1, <1>5 DEF Complete, TypeOK
  <2> QED
    BY <1>3, <2>1 DEF AckedEvents
<1>6. ASSUME NEW u \in Tx \ {t}
      PROVE  /\ AckedEvents(u)' = AckedEvents(u)
             /\ Uncertain(u)' = Uncertain(u)
             /\ WorkOf(u)' = WorkOf(u)
  <2>1. AckedEvents(u)' = AckedEvents(u)
    BY <1>2 DEF AckedEvents
  <2>2. WorkOf(u)' = WorkOf(u)
    BY <1>2 DEF WorkOf
  <2> QED
    BY <1>2, <2>1, <2>2 DEF Uncertain
<1> QED
  BY <1>4, <1>5, <1>6

\* The images of the variables under the refinement mapping.
Works     == [t \in Tx |-> WorkOf(t)]
Accepted  == [t \in Tx |-> AckedEvents(t)]
Undecided == [t \in Tx |-> Uncertain(t)]

\* A step changes the abstract state of its own transaction only.
LEMMA ImageExcept ==
  ASSUME IndInv, NEW t \in Tx, Step(t)
  PROVE  /\ Works' = [Works EXCEPT ![t] = WorkOf(t)']
         /\ Accepted' = [Accepted EXCEPT ![t] = AckedEvents(t)']
         /\ Undecided' = [Undecided EXCEPT ![t] = Uncertain(t)']
BY AckedKept DEF Works, Accepted, Undecided

\* A step that ends no transaction is one in which its owner learns of calls.
LEMMA LearnStep ==
  ASSUME IndInv, NEW t \in Tx, Step(t), ~ UNCHANGED vars,
         ~ CommitApplied(t), phase'[t] # "aborted"
  PROVE  Outbox!Learn(t)
<1>1. TypeOK /\ Progress
  BY DEF IndInv
<1>2. phase[t] \notin {"committed", "aborted"}
  BY <1>1, EndedStays
<1>3. phase'[t] # "committed" /\ outbox' = outbox
  <2>1. CASE InsertRow(t)
    BY <1>2, <2>1 DEF InsertRow
  <2> QED
    BY <1>1, <2>1, StepEffect DEF Drops, Keeps
<1>4. WorkOf(t) = "pending" /\ WorkOf(t)' = "pending"
  BY <1>2, <1>3 DEF WorkOf
<1>5. Published' = Published
  BY <1>3 DEF Published
<1>6. AckedEvents(t) \subseteq AckedEvents(t)'
  BY AckedKept
<1>7. Works' = Works
  <2>1. Works[t] = WorkOf(t)'
    BY <1>4 DEF Works
  <2> QED
    BY <2>1, ImageExcept DEF Works
<1>8. /\ Accepted' = [Accepted EXCEPT ![t] = Accepted'[t]]
      /\ Undecided' = [Undecided EXCEPT ![t] = Undecided'[t]]
  BY ImageExcept DEF Accepted, Undecided
<1>9. Works[t] = "pending" /\ Accepted[t] \subseteq Accepted'[t]
  BY <1>4, <1>6 DEF Works, Accepted
<1> QED
  BY <1>5, <1>7, <1>8, <1>9 DEF Outbox!Learn, Works, Accepted, Undecided

\* A commit that is applied publishes what was accepted.
LEMMA PublishStep ==
  ASSUME IndInv, IndInv', NEW t \in Tx, Step(t), CommitApplied(t)
  PROVE  Outbox!Publish(t)
<1>1. /\ TypeOK /\ Progress /\ Aligned
      /\ phase[t] = "open" /\ phase'[t] = "committed"
      /\ outbox' = outbox \cup Range(staged[t])
      /\ UNCHANGED <<sent, settled, acked, dropped>>
  BY DEF IndInv, CommitApplied, End, TypeOK
<1>2. WorkOf(t) = "pending" /\ WorkOf(t)' = "done"
  BY <1>1 DEF WorkOf
<1>3. Published' = Published \cup Range(sent[t])
  <2>1. \A r \in Range(staged[t]) :
          [event_id |-> r.event_id, item |-> r.item] \in Range(sent[t])
    BY <1>1, CommitPublishes
  <2>2. \A e \in Range(sent[t]) : \E r \in Range(staged[t]) :
          e = [event_id |-> r.event_id, item |-> r.item]
    <3> SUFFICES ASSUME NEW i \in DOMAIN sent[t]
                 PROVE  \E r \in Range(staged[t]) :
                          sent[t][i] = [event_id |-> r.event_id, item |-> r.item]
      BY DEF Range
    <3> QED
      BY <1>1, CommitPublishes
  <2> QED
    BY <1>1, <2>1, <2>2 DEF Published
<1>4. Range(sent[t]) = AckedEvents(t) \cup Uncertain(t)
  <2>1. AckedEvents(t) \subseteq Range(sent[t])
    <3>1. acked[t] \subseteq DOMAIN sent[t]
      BY <1>1, StagedDomains DEF Progress, Running
    <3> QED
      BY <3>1 DEF AckedEvents, Range
  <2>2. CASE dropped[t]
    BY <2>1, <2>2 DEF Uncertain
  <2>3. CASE ~ dropped[t]
    BY <1>1, <2>3, AckedAll DEF Running, Uncertain
  <2> QED
    BY <2>2, <2>3
<1>5. Published' = Published \cup AckedEvents(t)
                     \cup (Published' \cap Uncertain(t))
  BY <1>3, <1>4
<1>6. Outbox!UniqueIds(Published')
  BY DEF IndInv, Distinct, EventIdUnique, Published, Outbox!UniqueIds
<1>7. Accepted' = Accepted /\ Undecided' = Undecided
  BY <1>1 DEF Accepted, Undecided, AckedEvents, Uncertain
<1>8. Works[t] = "pending" /\ Works' = [Works EXCEPT ![t] = "done"]
  BY <1>2, ImageExcept DEF Works
<1>9. Accepted[t] = AckedEvents(t) /\ Undecided[t] = Uncertain(t)
  BY DEF Accepted, Undecided
<1> QED
  BY <1>5, <1>6, <1>7, <1>8, <1>9
     DEF Outbox!Publish, Works, Accepted, Undecided

\* The end of a transaction that does not commit discards its events.
LEMMA DiscardStep ==
  ASSUME IndInv, NEW t \in Tx, Step(t), ~ UNCHANGED vars,
         phase'[t] = "aborted"
  PROVE  Outbox!Discard(t)
<1>1. TypeOK /\ Progress
  BY DEF IndInv
<1>2. phase[t] \notin {"committed", "aborted"}
  BY <1>1, EndedStays
<1>3. ~ Complete(t) /\ ~ CommitApplied(t) /\ ~ InsertRow(t)
  BY <1>1, <1>2 DEF Complete, CommitApplied, End, InsertRow, TypeOK
<1>4. outbox' = outbox
  BY <1>1, <1>3, StepEffect
<1>5. WorkOf(t) = "pending" /\ WorkOf(t)' = "gone"
  BY <1>2 DEF WorkOf
<1>6. Published' = Published
  BY <1>4 DEF Published
<1>7. AckedEvents(t)' = AckedEvents(t)
  BY <1>3, AckedKept
<1>8. Accepted' = Accepted
  BY <1>7, ImageExcept DEF Accepted
<1>9. Undecided' = [Undecided EXCEPT ![t] = Undecided'[t]]
  BY ImageExcept DEF Undecided
<1>10. Works[t] = "pending" /\ Works' = [Works EXCEPT ![t] = "gone"]
  BY <1>5, ImageExcept DEF Works
<1> QED
  BY <1>6, <1>8, <1>9, <1>10 DEF Outbox!Discard, Works, Accepted, Undecided

\* Every behaviour of the publisher is one of the transactional outbox: the
\* accepted events become visible together with the commit, or never.
THEOREM Refinement == Spec => ImplementsOutbox
<1>1. Init => Outbox!Init
  BY DEF Init, Outbox!Init, WorkOf, AckedEvents, Uncertain, Published
<1>2. IndInv /\ IndInv' /\ [Next]_vars => [Outbox!Next]_(Outbox!vars)
  <2> SUFFICES ASSUME IndInv, IndInv', [Next]_vars
               PROVE  Outbox!Next \/ UNCHANGED Outbox!vars
    OBVIOUS
  <2>1. CASE UNCHANGED vars
    BY <2>1 DEF vars, caller, table, Outbox!vars, WorkOf, AckedEvents,
                Uncertain, Published
  <2>2. ASSUME NEW t \in Tx, Step(t), ~ UNCHANGED vars
        PROVE  Outbox!Next
    <3>1. CASE CommitApplied(t)
      BY <2>2, <3>1, PublishStep DEF Outbox!Next
    <3>2. CASE phase'[t] = "aborted"
      BY <2>2, <3>2, DiscardStep DEF Outbox!Next
    <3>3. CASE ~ CommitApplied(t) /\ phase'[t] # "aborted"
      BY <2>2, <3>3, LearnStep DEF Outbox!Next
    <3> QED
      BY <3>1, <3>2, <3>3
  <2> QED
    BY <2>1, <2>2 DEF Next, Rest
<1> QED
  BY <1>1, <1>2, Invariance, PTL DEF Spec, Outbox!Spec, ImplementsOutbox

-----------------------------------------------------------------------------
(* What the return of every call rests on *)

\* The rows a statement has yet to insert, and its completion.
Remaining(t) ==
  IF Running(t) THEN Len(sent[t]) - Len(staged[t]) + 1 ELSE 0

\* The server's steps for a statement shorten what remains of it, and no step
\* of anybody lengthens it while it runs.
StatementShrinks ==
  [][\A t \in Tx : /\ Statement(t) => Remaining(t)' < Remaining(t)
                   /\ Running(t) => Remaining(t)' <= Remaining(t)]_vars

\* The server can take a step for the statement of t: its rows are in, it is
\* refused, its next row waits for nobody, or t is in a circle of waiting
\* transactions.
Movable(t) ==
  \/ Running(t) /\ Len(staged[t]) = Len(sent[t])
  \/ /\ InFlight(t)
     /\ \/ Arguments(t) \cap Unacceptable # {}
        \/ Taken(t)
        \/ Holders(t) = {}
  \/ \E S \in SUBSET Tx : t \in S /\ Deadlocked(S)

\* Among the transactions a statement waits for, directly or through others,
\* there is one whose statement moves, or whose caller is to act.
NobodyStuck ==
  \A W \in SUBSET Tx : \A t \in W :
    Running(t) /\ (\A v \in W : Holders(v) \subseteq W) =>
      \E u \in W : Movable(u) \/ Idle(u)

\* What a step does to what remains of the statements.
LEMMA StepShrinks ==
  ASSUME TypeOK, Progress, NEW t \in Tx, Step(t)
  PROVE  /\ Statement(t) \/ ConnectionLost(t) =>
              Remaining(t)' < Remaining(t)
         /\ Running(t) => Remaining(t)' <= Remaining(t)
<1>1. /\ phase \in [Tx -> Phase] /\ Len(sent[t]) \in Nat
      /\ Len(staged[t]) \in Nat /\ settled[t] \in Nat
  BY DEF TypeOK
<1>2. Running(t) => Len(staged[t]) <= Len(sent[t])
  BY <1>1 DEF Progress
<1>3. Running(t) => /\ Remaining(t) = Len(sent[t]) - Len(staged[t]) + 1
                    /\ Remaining(t) \in Nat \ {0}
  BY <1>1, <1>2 DEF Remaining
<1>4. ~ Running(t)' => Remaining(t)' = 0
  BY DEF Remaining
<1>5. Complete(t) \/ Fails(t) \/ ConnectionLost(t) =>
        Running(t) /\ ~ Running(t)'
  <2>1. CASE Complete(t)
    BY <1>1, <2>1 DEF Complete, Running
  <2>2. CASE Fails(t)
    BY <1>1, <2>2 DEF Fails, Fail, InFlight, Running
  <2>3. CASE ConnectionLost(t)
    BY <1>1, <2>3 DEF ConnectionLost, Running
  <2> QED
    BY <2>1, <2>2, <2>3
<1>6. ASSUME InsertRow(t) \/ Complete(t) \/ Fails(t) \/ ConnectionLost(t)
      PROVE  /\ Running(t)
             /\ Remaining(t)' < Remaining(t) /\ Remaining(t)' <= Remaining(t)
  <2>1. CASE InsertRow(t)
    <3>1. Running(t) /\ Running(t)' /\ sent' = sent
      BY <2>1 DEF InsertRow, InFlight, Running
    <3>2. Len(staged'[t]) = Len(staged[t]) + 1
      BY <2>1, InsertRowStages
    <3>3. Remaining(t)' = Len(sent[t]) - Len(staged'[t]) + 1
      BY <3>1 DEF Remaining
    <3>4. Remaining(t)' = Len(sent[t]) - (Len(staged[t]) + 1) + 1
      BY <3>2, <3>3
    <3>5. Remaining(t) = Len(sent[t]) - Len(staged[t]) + 1
      BY <1>3, <3>1
    <3>6. Remaining(t)' < Remaining(t) /\ Remaining(t)' <= Remaining(t)
      <4>1. \A m, n \in Nat : /\ n - (m + 1) + 1 < n - m + 1
                              /\ n - (m + 1) + 1 <= n - m + 1
        OBVIOUS
      <4>2. /\ Len(sent[t]) - (Len(staged[t]) + 1) + 1
                 < Len(sent[t]) - Len(staged[t]) + 1
            /\ Len(sent[t]) - (Len(staged[t]) + 1) + 1
                 <= Len(sent[t]) - Len(staged[t]) + 1
        BY <1>1, <4>1
      <4> QED
        BY <3>4, <3>5, <4>2
    <3> QED
      BY <3>1, <3>6
  <2>2. CASE Complete(t) \/ Fails(t) \/ ConnectionLost(t)
    <3>1. Running(t) /\ Remaining(t)' = 0
      BY <1>4, <1>5, <2>2
    <3>2. Remaining(t) \in Nat \ {0}
      BY <1>3, <3>1
    <3> QED
      BY <3>1, <3>2
  <2> QED
    BY <1>6, <2>1, <2>2
<1>7. ASSUME Running(t), UNCHANGED vars \/ DropFuture(t)
      PROVE  Remaining(t)' <= Remaining(t)
  <2>1. staged' = staged
    BY <1>7 DEF vars, DropFuture, table
  <2>2. CASE sent' = sent
    <3>1. CASE Running(t)'
      <4>1. Remaining(t)' = Remaining(t)
        BY <1>7, <2>1, <2>2, <3>1 DEF Remaining
      <4>2. Remaining(t) \in Nat
        BY <1>3, <1>7
      <4> QED
        BY <4>1, <4>2
    <3>2. CASE ~ Running(t)'
      BY <1>3, <1>4, <1>7, <3>2
    <3> QED
      BY <3>1, <3>2
  <2>3. CASE phase' = [phase EXCEPT ![t] = "open"]
    <3>1. ~ Running(t)'
      BY <1>1, <2>3 DEF Running
    <3> QED
      BY <1>3, <1>4, <1>7, <3>1
  <2> QED
    BY <1>7, <2>2, <2>3 DEF DropFuture, vars
<1>8. ASSUME Running(t)
      PROVE  Remaining(t)' <= Remaining(t)
  <2>1. /\ ~ Begin(t) /\ ~ Sends(t) /\ ~ CommitApplied(t) /\ ~ Aborts(t)
        /\ \A items \in Seq(Item) : ~ RefuseFailed(t, items)
    BY <1>8 DEF Running, Begin, Sends, Execute, CommitApplied, Aborts, Idle,
                RefuseFailed
  <2> QED
    BY <1>6, <1>7, <1>8, <2>1, StepCases
<1> QED
  BY <1>6, <1>8, StatementCases

\* The statement of one transaction neither lengthens nor shortens by what
\* another does.
LEMMA OthersKeepRemaining ==
  ASSUME TypeOK, Progress, NEW t \in Tx, Step(t), NEW u \in Tx \ {t}
  PROVE  Remaining(u)' = Remaining(u)
BY StepEffect DEF Remaining, Running

\* If everyone in a finite set waits for another in it, some of them wait in
\* a circle: each of those waits for one of them, and one of them for each.
LEMMA Circle ==
  ASSUME NEW W, IsFiniteSet(W), W # {}, NEW R,
         \A v \in W : \E u \in W \ {v} : <<v, u>> \in R
  PROVE  \E S \in SUBSET W :
           /\ S # {}
           /\ \A v \in S : /\ \E u \in S : <<v, u>> \in R
                           /\ \E u \in S : <<u, v>> \in R
<1> DEFINE T == {S \in SUBSET W :
                   /\ S # {}
                   /\ \A v \in S : \E u \in S \ {v} : <<v, u>> \in R}
<1>1. T \subseteq SUBSET W /\ T # {}
  <2>1. W \in T
    OBVIOUS
  <2> QED
    BY <2>1
<1>2. IsWellFoundedOn(StrictSubsetOrdering(W), SUBSET W)
  BY FS_StrictSubsetOrderingWellFounded, FS_FiniteSubsetsOfFinite
<1> HIDE DEF T
<1>3. PICK S \in T : \A Q \in T : ~ (<<Q, S>> \in StrictSubsetOrdering(W))
  BY <1>1, <1>2, WFMin
<1>4. /\ S \subseteq W /\ S # {}
      /\ \A v \in S : \E u \in S \ {v} : <<v, u>> \in R
  BY DEF T
<1>5. ASSUME NEW v \in S
      PROVE  \E u \in S : <<u, v>> \in R
  <2>1. SUFFICES ASSUME \A u \in S : <<u, v>> \notin R PROVE FALSE
    OBVIOUS
  <2> DEFINE Q == S \ {v}
  <2>2. Q # {}
    BY <1>4
  <2>3. \A w \in Q : \E u \in Q \ {w} : <<w, u>> \in R
    <3> TAKE w \in Q
    <3>1. PICK u \in S \ {w} : <<w, u>> \in R
      BY <1>4
    <3>2. u # v
      BY <2>1, <3>1
    <3> QED
      BY <3>1, <3>2
  <2>4. Q \in T
    BY <1>4, <2>2, <2>3 DEF T
  <2>5. <<Q, S>> \in StrictSubsetOrdering(W)
    BY <1>4 DEF StrictSubsetOrdering
  <2> QED
    BY <1>3, <2>4, <2>5
<1> QED
  BY <1>4, <1>5

\* A transaction that others wait for has its statement on the server, or is
\* its caller's to end.
LEMMA HolderActs ==
  ASSUME TypeOK, Progress, NEW t \in Tx, NEW u \in Holders(t)
  PROVE  u \in Tx \ {t} /\ InFlight(t) /\ (Running(u) \/ Idle(u))
<1>1. u \in Tx \ {t} /\ InFlight(t) /\ Current(t).event_id \in Ids(staged[u])
  BY DEF Holders
<1>2. staged[u] # <<>>
  BY <1>1 DEF Ids
<1>3. phase[u] \in {"open", "executing", "detached"}
  BY <1>1, <1>2 DEF Progress
<1> QED
  BY <1>1, <1>3 DEF Running, Idle

\* If all those a statement waits for were waiting, some of them would wait in
\* a circle, and the server breaks a circle.
LEMMA WaitsEnd ==
  ASSUME IsFiniteSet(Tx)
  PROVE  IndInv => NobodyStuck
<1> SUFFICES ASSUME IndInv, NEW W \in SUBSET Tx, NEW t \in W, Running(t),
                    \A v \in W : Holders(v) \subseteq W,
                    \A u \in W : ~ Movable(u) /\ ~ Idle(u)
             PROVE  FALSE
  BY DEF NobodyStuck
<1>1. TypeOK /\ Progress
  BY DEF IndInv
<1> DEFINE V == {v \in W : Running(v)}
           R == {e \in Tx \X Tx : e[2] \in Holders(e[1])}
<1>2. V # {} /\ IsFiniteSet(V)
  BY FS_Subset
<1>3. \A v \in V : \E u \in V \ {v} : <<v, u>> \in R
  <2> TAKE v \in V
  <2>1. InFlight(v)
    <3>1. Len(staged[v]) # Len(sent[v])
      BY DEF Movable
    <3>2. Len(staged[v]) \in settled[v]..Len(sent[v])
      BY <1>1 DEF Progress
    <3>3. settled[v] \in Nat /\ Len(sent[v]) \in Nat
      BY <1>1 DEF TypeOK
    <3> QED
      BY <3>1, <3>2, <3>3 DEF InFlight
  <2>2. PICK u : u \in Holders(v)
    BY <2>1 DEF Movable
  <2>3. u \in Tx \ {v} /\ (Running(u) \/ Idle(u))
    BY <1>1, <2>2, HolderActs
  <2>4. u \in W
    BY <2>2
  <2>5. <<v, u>> \in R
    BY <2>2, <2>3
  <2> QED
    BY <2>3, <2>4, <2>5
<1> HIDE DEF R
<1>4. PICK S \in SUBSET V :
        /\ S # {}
        /\ \A v \in S : /\ \E u \in S : <<v, u>> \in R
                        /\ \E u \in S : <<u, v>> \in R
  <2> HIDE DEF V
  <2> QED
    BY <1>2, <1>3, Circle
<1>5. Deadlocked(S)
  BY <1>4 DEF R, Deadlocked
<1>6. PICK u \in S : u \in W /\ S \in SUBSET Tx
  BY <1>4
<1>7. Movable(u)
  BY <1>5, <1>6 DEF Movable
<1> QED
  BY <1>6, <1>7

\* A call waits for the event_id of another transaction only: not for ever,
\* as long as callers end what they began, for a circle of waiting statements
\* is broken by the server.  The transactions are finitely many, as the
\* server's connections are.
THEOREM SomeoneMoves ==
  ASSUME IsFiniteSet(Tx)
  PROVE  Spec => []NobodyStuck
BY WaitsEnd, Invariance, PTL

\* What a statement has yet to do shrinks with each step of the server for it,
\* and with no other step does it grow: with SomeoneMoves, the argument behind
\* CallReturns, of which only the fairness is left to the runs.
THEOREM StatementsShrink == Spec => StatementShrinks
<1> DEFINE Shrinks ==
      \A t \in Tx : /\ Statement(t) => Remaining(t)' < Remaining(t)
                    /\ Running(t) => Remaining(t)' <= Remaining(t)
<1>1. IndInv /\ [Next]_vars => [Shrinks]_vars
  <2> SUFFICES ASSUME IndInv, Next, ~ UNCHANGED vars, NEW t \in Tx
               PROVE  /\ Statement(t) => Remaining(t)' < Remaining(t)
                      /\ Running(t) => Remaining(t)' <= Remaining(t)
    OBVIOUS
  <2>1. TypeOK /\ Progress
    BY DEF IndInv
  <2>2. CASE Step(t)
    BY <2>1, <2>2, StepShrinks
  <2>3. CASE ~ Step(t)
    <3>1. PICK u \in Tx \ {t} : Step(u)
      BY <2>3 DEF Next, Rest
    <3>2. Remaining(t)' = Remaining(t)
      BY <2>1, <3>1, OthersKeepRemaining
    <3>3. ~ Statement(t)
      BY <2>3 DEF Step
    <3>4. Running(t) => Remaining(t) \in Int
      BY <2>1 DEF Remaining, TypeOK
    <3> QED
      BY <3>2, <3>3, <3>4
  <2> QED
    BY <2>2, <2>3
<1> QED
  BY <1>1, Invariance, PTL DEF Spec, StatementShrinks

=============================================================================
