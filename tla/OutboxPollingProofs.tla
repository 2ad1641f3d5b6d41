------------------------- MODULE OutboxPollingProofs -------------------------
(***************************************************************************)
(* Theorems about OutboxPolling, for any number of transactions.  A        *)
(* behaviour of publisher and dispatcher is one of the publisher, so the   *)
(* invariant of SqlxPublisherProofs holds of it; what is added says what   *)
(* the dispatcher has read of the table, and in which order.               *)
(***************************************************************************)
EXTENDS OutboxPolling, SqlxPublisherProofs

-----------------------------------------------------------------------------
(* The inductive invariant *)

\* The sequence starts above the cursor of a dispatcher that has read nothing.
Positive ==
  /\ \A r \in outbox : r.id > 0
  /\ \A t \in Tx : \A i \in DOMAIN staged[t] : staged[t][i].id > 0

\* Only events that are in the outbox have deliveries, and the rows that the
\* dispatcher's marks point at have theirs.
Delivered ==
  /\ \A id \in Range(deliveries) : \E r \in outbox : r.event_id = id
  /\ \A r \in outbox : r.id = reached \/ r.id = cursor =>
       r.event_id \in Range(deliveries)

\* Ids are drawn in increasing order, so a committed row with a greater id than
\* an uncommitted one became visible when that one was already there.
Overtaking ==
  \A t \in Tx : \A i \in DOMAIN staged[t] : \A s \in outbox :
    staged[t][i].id < s.id => s \in meanwhile[t]

PollInv ==
  /\ IndInv
  /\ Positive
  /\ PollTypeOK
  /\ Delivered
  /\ Overtaking
  /\ SkippedIsOvertaken
  /\ DeliveredInCallOrder

-----------------------------------------------------------------------------
(* The steps *)

\* The range of a sequence to which an element is appended.
LEMMA AppendRange ==
  ASSUME NEW S, NEW s \in Seq(S), NEW e \in S
  PROVE  Range(Append(s, e)) = Range(s) \cup {e}
<1>1. /\ DOMAIN Append(s, e) = 1..Len(s) + 1
      /\ \A i \in 1..Len(s) : Append(s, e)[i] = s[i]
      /\ Append(s, e)[Len(s) + 1] = e
      /\ Len(s) \in Nat
      /\ DOMAIN s = 1..Len(s)
  OBVIOUS
<1>2. 1..Len(s) + 1 = (1..Len(s)) \cup {Len(s) + 1}
  BY <1>1
<1> QED
  BY <1>1, <1>2 DEF Range

\* The table changes with a commit only, by the rows of the transaction.
LEMMA OutboxGrows ==
  ASSUME TypeOK, Progress, NEW t \in Tx, Step(t)
  PROVE  outbox' = outbox \/ CommitApplied(t)
BY StepEffect DEF InsertRow

\* The rows are numbered from one.
LEMMA StepPositive ==
  ASSUME TypeOK, Progress, Positive, NEW t \in Tx, Step(t)
  PROVE  Positive'
<1>1. CASE InsertRow(t)
  <2>1. /\ \A u \in Tx \ {t} : staged'[u] = staged[u]
        /\ staged' \in [Tx -> Seq(Row)]
        /\ Len(staged'[t]) = Len(staged[t]) + 1
        /\ \A i \in 1..Len(staged[t]) : staged'[t][i] = staged[t][i]
        /\ staged'[t][Len(staged[t]) + 1] =
             [id |-> serial + 1, event_id |-> Current(t).event_id,
              item |-> Current(t).item]
    BY <1>1, InsertRowStages
  <2>2. /\ DOMAIN staged[t] = 1..Len(staged[t]) /\ Len(staged[t]) \in Nat
        /\ DOMAIN staged'[t] = 1..Len(staged[t]) + 1
        /\ staged'[t][Len(staged[t]) + 1].id > 0
        /\ outbox' = outbox
    BY <1>1, <2>1, StagedDomains DEF InsertRow, TypeOK
  <2>3. \A i \in DOMAIN staged'[t] : staged'[t][i].id > 0
    <3> TAKE i \in DOMAIN staged'[t]
    <3>1. CASE i = Len(staged[t]) + 1
      BY <2>2, <3>1
    <3>2. CASE i # Len(staged[t]) + 1
      <4>1. i \in 1..Len(staged[t])
        BY <2>2, <3>2
      <4> QED
        BY <2>1, <2>2, <4>1 DEF Positive
    <3> QED
      BY <3>1, <3>2
  <2> QED
    BY <2>1, <2>2, <2>3 DEF Positive
<1>2. CASE CommitApplied(t)
  <2>1. /\ outbox' = outbox \cup Range(staged[t])
        /\ staged' = [staged EXCEPT ![t] = <<>>]
        /\ staged \in [Tx -> Seq(Row)]
    BY <1>2 DEF CommitApplied, End, TypeOK
  <2>2. \A r \in Range(staged[t]) : r.id > 0
    BY DEF Positive, Range
  <2> QED
    BY <2>1, <2>2 DEF Positive
<1>3. CASE ~ InsertRow(t) /\ ~ CommitApplied(t)
  <2>1. /\ outbox' = outbox
        /\ \A u \in Tx : staged'[u] = staged[u] \/ staged'[u] = <<>>
    BY <1>3, StepEffect DEF Drops, Keeps
  <2> QED
    BY <2>1 DEF Positive
<1> QED
  BY <1>1, <1>2, <1>3

\* What the transactions have seen of each other grows with the table.
LEMMA PublisherWitness ==
  ASSUME PollInv, NEW t \in Tx, Step(t), Witness(t)
  PROVE  /\ outbox \subseteq outbox'
         /\ meanwhile' \in [Tx -> SUBSET outbox']
         /\ \A u \in Tx : meanwhile[u] \subseteq meanwhile'[u]
         /\ \A u \in Tx \ {t} : staged[u] # <<>> =>
              outbox' \ outbox \subseteq meanwhile'[u]
<1>1. outbox \subseteq outbox'
  BY OutboxGrows DEF CommitApplied, PollInv, IndInv
<1>2. /\ meanwhile \in [Tx -> SUBSET outbox]
      /\ \A u \in Tx : meanwhile'[u] =
           IF u # t /\ staged[u] # <<>>
           THEN meanwhile[u] \cup (outbox' \ outbox) ELSE meanwhile[u]
      /\ DOMAIN meanwhile' = Tx
      /\ meanwhile' = [u \in Tx |-> meanwhile'[u]]
  BY DEF PollInv, PollTypeOK, Witness
<1> QED
  BY <1>1, <1>2

\* A step of the publisher leaves what the dispatcher knows true: rows that
\* become visible later have ids of their own.
LEMMA PublisherDelivered ==
  ASSUME PollInv, NEW t \in Tx, Step(t), Witness(t), UNCHANGED dispatcher
  PROVE  PollTypeOK' /\ Delivered'
<1>1. /\ TypeOK /\ Progress /\ Distinct
      /\ deliveries' = deliveries /\ reached' = reached /\ cursor' = cursor
  BY DEF PollInv, IndInv, dispatcher
<1>2. outbox \subseteq outbox' /\ meanwhile' \in [Tx -> SUBSET outbox']
  BY PublisherWitness
<1>3. \A r \in outbox' : r.id = reached \/ r.id = cursor => r \in outbox
  <2>1. CASE outbox' = outbox
    BY <2>1
  <2>2. CASE CommitApplied(t)
    <3> SUFFICES ASSUME NEW r \in Range(staged[t]),
                        r.id = reached \/ r.id = cursor
                 PROVE  FALSE
      BY <2>2 DEF CommitApplied
    <3>1. PICK i \in DOMAIN staged[t] : r = staged[t][i]
      BY DEF Range
    <3>2. r.id # 0 /\ r.id \notin {s.id : s \in outbox}
      BY <1>1, <3>1 DEF PollInv, Positive, Distinct
    <3> QED
      BY <3>2 DEF PollInv, PollTypeOK
  <2> QED
    BY <1>1, <2>1, <2>2, OutboxGrows
<1>4. PollTypeOK'
  BY <1>1, <1>2 DEF PollInv, PollTypeOK
<1>5. Delivered'
  BY <1>1, <1>2, <1>3 DEF PollInv, Delivered
<1> QED
  BY <1>4, <1>5

\* A row is given the greatest id there is, and the rows of a commit are seen
\* by those who have rows that are not committed.
LEMMA PublisherOvertaking ==
  ASSUME PollInv, NEW t \in Tx, Step(t), Witness(t)
  PROVE  Overtaking'
<1>1. TypeOK /\ Progress /\ Distinct /\ Overtaking
  BY DEF PollInv, IndInv
<1>2. /\ \A u \in Tx : meanwhile[u] \subseteq meanwhile'[u]
      /\ \A u \in Tx \ {t} : staged[u] # <<>> =>
           outbox' \ outbox \subseteq meanwhile'[u]
  BY PublisherWitness
<1>3. CASE InsertRow(t)
  <2>1. /\ \A u \in Tx \ {t} : staged'[u] = staged[u]
        /\ Len(staged'[t]) = Len(staged[t]) + 1
        /\ \A i \in 1..Len(staged[t]) : staged'[t][i] = staged[t][i]
        /\ staged'[t][Len(staged[t]) + 1] =
             [id |-> serial + 1, event_id |-> Current(t).event_id,
              item |-> Current(t).item]
        /\ staged' \in [Tx -> Seq(Row)]
    BY <1>1, <1>3, InsertRowStages
  <2>2. /\ DOMAIN staged[t] = 1..Len(staged[t]) /\ Len(staged[t]) \in Nat
        /\ DOMAIN staged'[t] = 1..Len(staged[t]) + 1
        /\ staged'[t][Len(staged[t]) + 1].id = serial + 1
        /\ outbox' = outbox
    BY <1>1, <1>3, <2>1, StagedDomains DEF InsertRow
  <2>3. \A s \in outbox : ~ (serial + 1 < s.id)
    BY <1>1 DEF Distinct, TypeOK, Row
  <2>4. \A i \in DOMAIN staged'[t] :
          i \in DOMAIN staged[t] \/ i = Len(staged[t]) + 1
    BY <2>2
  <2>5. \A i \in DOMAIN staged'[t] : \A s \in outbox :
          staged'[t][i].id < s.id => s \in meanwhile'[t]
    BY <1>1, <1>2, <2>1, <2>2, <2>3, <2>4 DEF Overtaking
  <2> QED
    BY <1>1, <1>2, <2>1, <2>2, <2>5 DEF Overtaking
<1>4. CASE CommitApplied(t)
  <2>1. staged' = [staged EXCEPT ![t] = <<>>] /\ staged \in [Tx -> Seq(Row)]
    BY <1>1, <1>4 DEF CommitApplied, End, TypeOK
  <2> SUFFICES ASSUME NEW u \in Tx, NEW i \in DOMAIN staged'[u],
                      NEW s \in outbox', staged'[u][i].id < s.id
               PROVE  s \in meanwhile'[u]
    BY DEF Overtaking
  <2>2. u # t /\ staged'[u] = staged[u] /\ staged[u] # <<>>
    BY <2>1
  <2> QED
    BY <1>1, <1>2, <2>2 DEF Overtaking
<1>5. CASE ~ InsertRow(t) /\ ~ CommitApplied(t)
  <2>1. /\ outbox' = outbox
        /\ \A u \in Tx : staged'[u] = staged[u] \/ staged'[u] = <<>>
    BY <1>1, <1>5, StepEffect DEF Drops, Keeps
  <2> QED
    BY <1>1, <1>2, <2>1 DEF Overtaking
<1> QED
  BY <1>3, <1>4, <1>5

\* The rows of a committed transaction are those it committed with, and none of
\* a transaction that commits was visible before.
LEMMA PublisherCommitted ==
  ASSUME PollInv, NEW t \in Tx, Step(t)
  PROVE  /\ outbox' = outbox \/ CommitApplied(t)
         /\ \A u \in Tx : phase'[u] = "committed" /\ phase[u] = "committed" =>
              /\ sent'[u] = sent[u]
              /\ \A r \in outbox' : r.event_id \in Ids(sent[u]) => r \in outbox
         /\ \A u \in Tx : phase'[u] = "committed" /\ phase[u] # "committed" =>
              /\ u = t /\ CommitApplied(t) /\ sent'[t] = sent[t]
              /\ \A r \in outbox : r.event_id \notin Ids(sent[t])
<1>1. /\ TypeOK /\ Progress /\ Aligned /\ Distinct /\ Committed
      /\ phase \in [Tx -> Phase]
  BY DEF PollInv, IndInv, TypeOK
<1>2. CASE ~ CommitApplied(t)
  <2>1. outbox' = outbox
    BY <1>1, <1>2, OutboxGrows
  <2>2. ASSUME NEW u \in Tx, phase'[u] = "committed"
        PROVE  phase[u] = "committed" /\ sent'[u] = sent[u]
    <3>1. CASE u # t
      BY <1>1, <2>2, <3>1, StepEffect
    <3>2. CASE InsertRow(t)
      BY <2>2, <3>2 DEF InsertRow
    <3>3. CASE u = t /\ ~ InsertRow(t)
      <4>1. UNCHANGED vars
        BY <1>1, <1>2, <2>2, <3>3, StepEffect DEF Drops, Keeps
      <4> QED
        BY <2>2, <4>1 DEF vars
    <3> QED
      BY <3>1, <3>2, <3>3
  <2> QED
    BY <2>1, <2>2
<1>3. CASE CommitApplied(t)
  <2>1. /\ outbox' = outbox \cup Range(staged[t])
        /\ sent' = sent
        /\ phase[t] = "open"
        /\ \A u \in Tx \ {t} : phase'[u] = phase[u]
    BY <1>1, <1>3 DEF CommitApplied, End
  <2>2. \A r \in outbox : r.event_id \notin Ids(sent[t])
    <3>1. \A i \in DOMAIN sent[t] :
            i \in DOMAIN staged[t] /\ staged[t][i].event_id = sent[t][i].event_id
      BY <1>1, <2>1, StagedDomains DEF Aligned, Progress
    <3> QED
      BY <1>1, <3>1 DEF Distinct, Ids
  <2>3. \A u \in Tx \ {t} : phase[u] = "committed" =>
          \A r \in Range(staged[t]) : r.event_id \notin Ids(sent[u])
    <3> TAKE u \in Tx \ {t}
    <3> HAVE phase[u] = "committed"
    <3> TAKE r \in Range(staged[t])
    <3>1. ASSUME NEW i \in DOMAIN sent[u], r.event_id = sent[u][i].event_id
          PROVE  FALSE
      <4>1. PICK s \in outbox :
              sent[u][i] = [event_id |-> s.event_id, item |-> s.item]
        BY <1>1 DEF Committed, Published
      <4>2. PICK j \in DOMAIN staged[t] : r = staged[t][j]
        BY DEF Range
      <4> QED
        BY <1>1, <3>1, <4>1, <4>2 DEF Distinct
    <3> QED
      BY <3>1 DEF Ids
  <2> QED
    BY <1>3, <2>1, <2>2, <2>3
<1> QED
  BY <1>2, <1>3

\* A row that becomes visible behind a mark of the dispatcher has been
\* overtaken by the row at the mark, which its transaction saw.
LEMMA PublisherSkipped ==
  ASSUME PollInv, NEW t \in Tx, Step(t), Witness(t), UNCHANGED dispatcher
  PROVE  SkippedIsOvertaken'
<1>1. /\ TypeOK /\ Distinct /\ Overtaking
      /\ deliveries' = deliveries /\ reached' = reached /\ cursor' = cursor
      /\ \A u \in Tx : meanwhile[u] \subseteq meanwhile'[u]
  BY PublisherWitness DEF PollInv, IndInv, dispatcher
<1> SUFFICES ASSUME NEW u \in Tx, NEW r \in outbox',
                    NEW mark \in {reached, cursor},
                    phase'[u] = "committed",
                    r.event_id \in Ids(sent'[u]),
                    Passed(r, mark)
             PROVE  \E s \in meanwhile'[u] :
                      /\ r.id < s.id /\ s.id <= mark
                      /\ s.event_id \in Range(deliveries)
  BY <1>1 DEF SkippedIsOvertaken, Passed, Ids
<1>2. CASE phase[u] = "committed"
  <2>1. r \in outbox /\ r.event_id \in Ids(sent[u])
    BY <1>2, PublisherCommitted
  <2>2. \E s \in meanwhile[u] : /\ r.id < s.id /\ s.id <= mark
                                /\ s.event_id \in Range(deliveries)
    BY <1>2, <2>1 DEF PollInv, SkippedIsOvertaken
  <2> QED
    BY <1>1, <2>2
<1>3. CASE phase[u] # "committed"
  <2>1. u = t /\ r \in Range(staged[t])
    <3>1. /\ u = t /\ CommitApplied(t) /\ sent'[t] = sent[t]
          /\ \A s \in outbox : s.event_id \notin Ids(sent[t])
      BY <1>3, PublisherCommitted
    <3>2. outbox' = outbox \cup Range(staged[t])
      BY <3>1 DEF CommitApplied
    <3> QED
      BY <3>1, <3>2
  <2>2. PICK i \in DOMAIN staged[t] : r = staged[t][i]
    BY <2>1 DEF Range
  <2>3. /\ r.id > 0 /\ r.id \in Nat /\ r.id \notin {s.id : s \in outbox}
    <3>1. r \in Row
      BY <1>1, <2>2, StagedDomains
    <3> QED
      BY <1>1, <2>2, <3>1 DEF PollInv, Positive, Distinct, Row
  <2>4. PICK s \in outbox : s.id = mark
    BY <2>3 DEF PollInv, PollTypeOK, Passed
  <2>5. r.id < s.id
    <3>1. s.id \in Nat /\ s.id # r.id
      BY <1>1, <2>3 DEF TypeOK, Row
    <3> QED
      BY <2>3, <2>4, <3>1 DEF Passed
  <2>6. s \in meanwhile[t] /\ s.event_id \in Range(deliveries)
    BY <1>1, <2>2, <2>4, <2>5 DEF Overtaking, PollInv, Delivered
  <2>7. s.id <= mark
    BY <1>1, <2>4 DEF TypeOK, Row
  <2> QED
    BY <1>1, <2>1, <2>5, <2>6, <2>7
<1> QED
  BY <1>2, <1>3

\* A transaction that commits has no deliveries yet, whose order could be wrong.
LEMMA PublisherCallOrder ==
  ASSUME PollInv, NEW t \in Tx, Step(t), Witness(t), UNCHANGED dispatcher
  PROVE  DeliveredInCallOrder'
<1>1. /\ deliveries' = deliveries
      /\ \A u \in Tx : meanwhile[u] \subseteq meanwhile'[u]
  BY PublisherWitness DEF dispatcher
<1> SUFFICES ASSUME NEW u \in Tx, NEW a \in outbox', NEW b \in outbox',
                    phase'[u] = "committed",
                    InCallOrder(u, a, b)',
                    DeliveredBefore(b, a)
             PROVE  \E s \in meanwhile'[u] : a.id < s.id /\ s.id < b.id
  BY <1>1 DEF DeliveredInCallOrder, DeliveredBefore
<1>2. sent'[u] = sent[u]
  BY PublisherCommitted
<1>3. InCallOrder(u, a, b) /\ {a.event_id, b.event_id} \subseteq Ids(sent[u])
  BY <1>2 DEF InCallOrder, Ids
<1>4. CASE phase[u] = "committed"
  <2>1. a \in outbox /\ b \in outbox
    BY <1>3, <1>4, PublisherCommitted
  <2>2. \E s \in meanwhile[u] : a.id < s.id /\ s.id < b.id
    BY <1>3, <1>4, <2>1 DEF PollInv, DeliveredInCallOrder
  <2> QED
    BY <1>1, <2>2
<1>5. CASE phase[u] # "committed"
  <2>1. b.event_id \in Range(deliveries)
    BY DEF DeliveredBefore, Range
  <2>2. PICK r \in outbox : r.event_id = b.event_id
    BY <2>1 DEF PollInv, Delivered
  <2> QED
    BY <1>3, <1>5, <2>2, PublisherCommitted
<1> QED
  BY <1>4, <1>5

\* A poll reads the rows it finds one by one, the one with the least id first.
LEMMA ScanPollInv ==
  ASSUME PollInv, Scan
  PROVE  PollInv'
<1>1. /\ TypeOK /\ Distinct /\ deliveries \in Seq(EventId)
      /\ \A r \in outbox : r \in Row /\ r.id \in Nat
      /\ reached \in Nat /\ cursor \in Nat /\ cursor <= reached
  <2>1. /\ TypeOK /\ Distinct /\ PollTypeOK
        /\ \A r \in outbox : r \in Row /\ r.id \in Nat
    BY DEF PollInv, IndInv, TypeOK, Row
  <2> QED
    BY <2>1 DEF PollTypeOK
<1>2. PICK r \in outbox :
        /\ r.id > reached
        /\ \A s \in outbox : s.id > reached => r.id <= s.id
        /\ reached' = r.id /\ cursor' = cursor /\ meanwhile' = meanwhile
        /\ deliveries' = IF r.event_id \in Range(deliveries) THEN deliveries
                         ELSE Append(deliveries, r.event_id)
        /\ UNCHANGED vars
  BY DEF Scan, Beyond
<1>3. /\ UNCHANGED <<phase, sent, staged, outbox>>
      /\ r.event_id \in EventId /\ r.id \in Nat
  BY <1>1, <1>2 DEF vars, table, Row
<1>4. IndInv'
  BY <1>2, NextIndInv DEF PollInv
<1>5. Positive' /\ Overtaking'
  BY <1>2, <1>3 DEF PollInv, Positive, Overtaking
<1>6. /\ deliveries' \in Seq(EventId)
      /\ Range(deliveries') = Range(deliveries) \cup {r.event_id}
  BY <1>1, <1>2, <1>3, AppendRange
<1>7. PollTypeOK'
  BY <1>1, <1>2, <1>3, <1>6 DEF PollInv, PollTypeOK
<1>8. \A s \in outbox : s.id = r.id \/ s.event_id = r.event_id => s = r
  BY <1>1 DEF Distinct, EventIdUnique
<1>9. Delivered'
  BY <1>2, <1>3, <1>6, <1>8 DEF PollInv, Delivered
<1>10. \A s \in outbox : s.id <= r.id /\ s # r => s.id <= reached
  BY <1>1, <1>2, <1>8
<1>11. SkippedIsOvertaken'
  <2> SUFFICES ASSUME NEW t \in Tx, NEW s \in outbox,
                      NEW mark \in {r.id, cursor},
                      phase[t] = "committed",
                      s.event_id \in Ids(sent[t]),
                      s.id <= mark,
                      s.event_id \notin Range(deliveries')
               PROVE  \E w \in meanwhile[t] :
                        /\ s.id < w.id /\ w.id <= mark
                        /\ w.event_id \in Range(deliveries')
    BY <1>2, <1>3 DEF SkippedIsOvertaken, Passed, Ids
  <2>1. s.event_id \notin Range(deliveries) /\ s # r
    BY <1>6
  <2>2. PICK old \in {reached, cursor} : old <= mark /\ s.id <= old
    BY <1>1, <1>2, <1>3, <1>10, <2>1
  <2>3. PICK w \in meanwhile[t] : /\ s.id < w.id /\ w.id <= old
                                  /\ w.event_id \in Range(deliveries)
    BY <2>1, <2>2 DEF PollInv, SkippedIsOvertaken, Passed
  <2>4. w \in outbox
    BY DEF PollInv, PollTypeOK
  <2>5. w.id <= mark
    BY <1>1, <1>3, <2>2, <2>3, <2>4
  <2> QED
    BY <1>6, <2>3, <2>5
<1>12. DeliveredInCallOrder'
  <2> SUFFICES ASSUME NEW t \in Tx, NEW a \in outbox, NEW b \in outbox,
                      phase[t] = "committed",
                      InCallOrder(t, a, b),
                      DeliveredBefore(b, a)'
               PROVE  \E s \in meanwhile[t] : a.id < s.id /\ s.id < b.id
    BY <1>2, <1>3 DEF DeliveredInCallOrder, InCallOrder
  <2>1. CASE DeliveredBefore(b, a)
    BY <2>1 DEF PollInv, DeliveredInCallOrder
  <2>2. CASE ~ DeliveredBefore(b, a)
    <3>1. deliveries' = Append(deliveries, r.event_id)
      BY <1>2, <2>2 DEF DeliveredBefore
    <3>2. /\ DOMAIN deliveries = 1..Len(deliveries) /\ Len(deliveries) \in Nat
          /\ DOMAIN deliveries' = 1..Len(deliveries) + 1
          /\ \A i \in 1..Len(deliveries) : deliveries'[i] = deliveries[i]
          /\ deliveries'[Len(deliveries) + 1] = r.event_id
      BY <1>1, <1>3, <3>1
    <3>3. PICK n \in DOMAIN deliveries' :
            /\ deliveries'[n] = b.event_id
            /\ \A m \in 1..n : deliveries'[m] # a.event_id
      BY DEF DeliveredBefore
    <3>4. n = Len(deliveries) + 1
      <4> SUFFICES ASSUME n # Len(deliveries) + 1 PROVE FALSE
        OBVIOUS
      <4>1. n \in 1..Len(deliveries) /\ \A m \in 1..n : m \in 1..Len(deliveries)
        BY <3>2, <3>3
      <4> QED
        BY <2>2, <3>2, <3>3, <4>1 DEF DeliveredBefore
    <3>5. b = r
      BY <1>8, <3>2, <3>3, <3>4
    <3>6. a.event_id \notin Range(deliveries)
      <4>1. \A m \in 1..Len(deliveries) : m \in 1..n
        BY <3>2, <3>4
      <4> QED
        BY <3>2, <3>3, <4>1 DEF Range
    <3>7. a.id < b.id
      BY DEF PollInv, IndInv, RowsInCallOrder, InCallOrder
    <3>8. a.id <= reached
      BY <1>1, <1>10, <3>5, <3>7
    <3>9. a.event_id \in Ids(sent[t])
      BY DEF InCallOrder, Ids
    <3>10. PICK s \in meanwhile[t] : a.id < s.id /\ s.id <= reached
      BY <3>6, <3>8, <3>9 DEF PollInv, SkippedIsOvertaken, Passed
    <3>11. s \in outbox
      BY DEF PollInv, PollTypeOK
    <3>12. s.id < b.id
      BY <1>1, <1>2, <3>5, <3>10, <3>11
    <3> QED
      BY <3>10, <3>12
  <2> QED
    BY <2>1, <2>2
<1> QED
  BY <1>4, <1>5, <1>7, <1>9, <1>11, <1>12 DEF PollInv

\* The cursor that is saved, or read again after a restart, is one that was
\* reached.
LEMMA MarkPollInv ==
  ASSUME PollInv, Save \/ Restart \/ UNCHANGED <<vars, pollVars>>
  PROVE  PollInv'
<1>1. /\ UNCHANGED vars /\ deliveries' = deliveries /\ meanwhile' = meanwhile
      /\ reached' \in {reached, cursor} /\ cursor' \in {reached, cursor}
  BY DEF Save, Restart, pollVars, dispatcher
<1>2. UNCHANGED <<phase, sent, staged, outbox>>
  BY <1>1 DEF vars, table
<1>3. IndInv'
  BY <1>1, NextIndInv DEF PollInv
<1>4. \A r \in outbox : r.id \in Nat
  BY DEF PollInv, IndInv, TypeOK, Row
<1>5. cursor \in Nat /\ reached \in Nat /\ cursor <= reached
  BY <1>4 DEF PollInv, PollTypeOK
<1>6. cursor' <= reached'
  BY <1>5 DEF Save, Restart, pollVars, dispatcher
<1>7. PollTypeOK'
  BY <1>1, <1>2, <1>6 DEF PollInv, PollTypeOK
<1>8. Positive' /\ Delivered' /\ Overtaking'
  BY <1>1, <1>2 DEF PollInv, Positive, Delivered, Overtaking
<1>9. SkippedIsOvertaken'
  <2>1. {reached', cursor'} \subseteq {reached, cursor}
    BY <1>1
  <2> QED
    BY <1>1, <1>2, <2>1 DEF PollInv, SkippedIsOvertaken, Passed, Ids
<1>10. DeliveredInCallOrder'
  BY <1>1, <1>2 DEF PollInv, DeliveredInCallOrder, InCallOrder, DeliveredBefore
<1> QED
  BY <1>3, <1>7, <1>8, <1>9, <1>10 DEF PollInv

-----------------------------------------------------------------------------
(* The invariant, and what follows from it *)

\* Nothing has been read at the start.
LEMMA InitPollInv == PollInit => PollInv
<1> SUFFICES ASSUME PollInit PROVE PollInv
  OBVIOUS
<1>1. IndInv
  BY InitIndInv DEF PollInit
<1>2. /\ outbox = {} /\ deliveries = <<>> /\ reached = 0 /\ cursor = 0
      /\ \A t \in Tx : staged[t] = <<>>
  BY DEF PollInit, Init
<1>3. Positive /\ PollTypeOK /\ Overtaking /\ SkippedIsOvertaken
  BY <1>2 DEF PollInit, Positive, PollTypeOK, Overtaking, SkippedIsOvertaken
<1>4. Delivered /\ DeliveredInCallOrder
  BY <1>2 DEF Delivered, DeliveredInCallOrder, Range
<1> QED
  BY <1>1, <1>3, <1>4 DEF PollInv

\* Every step of publisher or dispatcher keeps the invariant.
LEMMA NextPollInv == PollInv /\ [PollNext]_<<vars, pollVars>> => PollInv'
<1> SUFFICES ASSUME PollInv, [PollNext]_<<vars, pollVars>> PROVE PollInv'
  OBVIOUS
<1>1. ASSUME NEW t \in Tx, Step(t), Witness(t), UNCHANGED dispatcher
      PROVE  PollInv'
  <2>1. IndInv'
    BY <1>1, NextIndInv DEF PollInv, Next
  <2>2. Positive'
    BY <1>1, StepPositive DEF PollInv, IndInv
  <2> QED
    BY <1>1, <2>1, <2>2, PublisherDelivered, PublisherOvertaking,
       PublisherSkipped, PublisherCallOrder DEF PollInv
<1> QED
  BY <1>1, ScanPollInv, MarkPollInv DEF PollNext, Publisher, Poller

\* PollInv holds in every reachable state.
THEOREM PollInvariance == PollSpec => []PollInv
BY InitPollInv, NextPollInv, PTL DEF PollSpec

\* The dispatcher's marks are ids of rows it can see, and it saves none that
\* it has not read up to.
THEOREM PollTypeCorrect == PollSpec => []PollTypeOK
<1>1. PollInv => PollTypeOK
  BY DEF PollInv
<1> QED
  BY <1>1, PollInvariance, PTL

\* What is delivered was committed by a caller that was told Ok, or that
\* dropped its call.
THEOREM NothingElseDelivered == PollSpec => []DeliveredIsAcked
<1>1. PollInv => DeliveredIsAcked
  <2> SUFFICES ASSUME PollInv, NEW id \in Range(deliveries)
               PROVE  \E t \in Tx :
                        /\ phase[t] = "committed"
                        /\ \/ \E e \in AckedEvents(t) : e.event_id = id
                           \/ dropped[t] /\ id \in Ids(sent[t])
    BY DEF DeliveredIsAcked
  <2>1. PICK r \in outbox : r.event_id = id
    BY DEF PollInv, Delivered
  <2>2. PICK t \in Tx :
          /\ phase[t] = "committed"
          /\ [event_id |-> r.event_id, item |-> r.item] \in Range(sent[t])
    BY DEF PollInv, IndInv, Committed
  <2>3. CASE dropped[t]
    <3>1. id \in Ids(sent[t])
      BY <2>1, <2>2 DEF Ids, Range
    <3> QED
      BY <2>2, <2>3, <3>1
  <2>4. CASE ~ dropped[t]
    <3>1. AckedEvents(t) = Range(sent[t])
      BY <2>2, <2>4, AckedAll DEF PollInv, Running
    <3> QED
      BY <2>1, <2>2, <3>1
  <2> QED
    BY <2>3, <2>4
<1> QED
  BY <1>1, PollInvariance, PTL

\* A row that a mark has passed without a delivery was inserted before one with
\* a greater id, within the mark, became visible, and committed after it.
THEOREM OnlyOvertakenSkipped == PollSpec => []SkippedIsOvertaken
<1>1. PollInv => SkippedIsOvertaken
  BY DEF PollInv
<1> QED
  BY <1>1, PollInvariance, PTL

\* Deliveries follow the calls of a transaction, after any restarts, but where
\* a row that overtook the first lies between the two.
THEOREM DeliveriesInCallOrder == PollSpec => []DeliveredInCallOrder
<1>1. PollInv => DeliveredInCallOrder
  BY DEF PollInv
<1> QED
  BY <1>1, PollInvariance, PTL

\* A behaviour of publisher and dispatcher is one of the publisher: what is
\* proved of it, its refinement included, holds beside a dispatcher that polls,
\* saves and restarts at any time.
THEOREM PollingIsPublishing == PollSpec => Spec
<1>1. PollInit => Init
  BY DEF PollInit
<1>2. [PollNext]_<<vars, pollVars>> => [Next]_vars
  BY DEF PollNext, Publisher, Poller, Scan, Save, Restart, Next
<1> QED
  BY <1>1, <1>2, PTL DEF PollSpec, Spec

-----------------------------------------------------------------------------
(* When nothing is skipped *)

\* At most one transaction has rows that are not committed.
OneWriter ==
  \A t, u \in Tx : staged[t] # <<>> /\ staged[u] # <<>> => t = u

\* Then no transaction sees another commit while it has rows of its own.
LEMMA NoneMeanwhile ==
  ASSUME PollInv, OneWriter, meanwhile = [t \in Tx |-> {}],
         [PollNext]_<<vars, pollVars>>
  PROVE  meanwhile' = [t \in Tx |-> {}]
<1>1. ASSUME NEW t \in Tx, Step(t), Witness(t)
      PROVE  meanwhile' = [u \in Tx |-> {}]
  <2>1. ASSUME NEW u \in Tx, u # t, staged[u] # <<>>
        PROVE  outbox' \ outbox = {}
    <3>1. staged[t] = <<>>
      BY <2>1 DEF OneWriter
    <3>2. outbox' = outbox \/ outbox' = outbox \cup Range(staged[t])
      BY <1>1, OutboxGrows DEF PollInv, IndInv, CommitApplied
    <3> QED
      BY <3>1, <3>2 DEF Range
  <2> QED
    BY <1>1, <2>1 DEF Witness
<1>2. CASE Poller \/ UNCHANGED <<vars, pollVars>>
  BY <1>2 DEF Poller, Scan, Save, Restart, pollVars
<1> QED
  BY <1>1, <1>2 DEF PollNext, Publisher

\* The events of each transaction in the order in which it appended them.
InOrder ==
  \A t \in Tx, a, b \in outbox :
    phase[t] = "committed" /\ InCallOrder(t, a, b) => ~ DeliveredBefore(b, a)

\* A row is then neither passed over nor out of order.
LEMMA UnovertakenDelivered ==
  PollInv /\ meanwhile = [t \in Tx |-> {}] => NoRowSkipped /\ InOrder
<1> SUFFICES ASSUME PollInv, meanwhile = [t \in Tx |-> {}]
             PROVE  NoRowSkipped /\ InOrder
  OBVIOUS
<1>1. NoRowSkipped
  <2> SUFFICES ASSUME NEW r \in outbox, r.id <= cursor,
                      r.event_id \notin Range(deliveries)
               PROVE  FALSE
    BY DEF NoRowSkipped
  <2>1. PICK t \in Tx :
          /\ phase[t] = "committed"
          /\ [event_id |-> r.event_id, item |-> r.item] \in Range(sent[t])
    BY DEF PollInv, IndInv, Committed
  <2>2. r.event_id \in Ids(sent[t])
    BY <2>1 DEF Ids, Range
  <2> QED
    BY <2>1, <2>2 DEF PollInv, SkippedIsOvertaken, Passed
<1>2. InOrder
  BY DEF PollInv, DeliveredInCallOrder, InOrder
<1> QED
  BY <1>1, <1>2

\* Where no two transactions have uncommitted rows at a time, what the schema
\* says of its ids is true: no event is behind the mark without a delivery,
\* after any aborts, cancelled calls and restarts, and the deliveries follow
\* the calls.
THEOREM OneWriterSkipsNone ==
  PollSpec /\ []OneWriter => [](NoRowSkipped /\ InOrder)
<1>1. PollInit => meanwhile = [t \in Tx |-> {}]
  BY DEF PollInit
<1>2. PollInv /\ OneWriter /\ meanwhile = [t \in Tx |-> {}]
        /\ [PollNext]_<<vars, pollVars>>
      => (meanwhile = [t \in Tx |-> {}])'
  BY NoneMeanwhile
<1> QED
  BY <1>1, <1>2, UnovertakenDelivered, PollInvariance, PTL DEF PollSpec

=============================================================================
