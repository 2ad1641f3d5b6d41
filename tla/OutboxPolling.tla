---------------------------- MODULE OutboxPolling ----------------------------
(***************************************************************************)
(* The publisher composed with the reader of its table.  The dispatcher is *)
(* not in this repository; what it relies on is in the schema: it polls    *)
(* outbox_events for ids beyond a cursor (a high-water mark), creates for  *)
(* each event a row of outbox_deliveries, unique per event and callback,   *)
(* and, after a crash, scans again from the cursor that it had saved.      *)
(* Events name one callback here, so a delivery is known by its event_id.  *)
(***************************************************************************)
EXTENDS SqlxPublisher

VARIABLES
  deliveries,  \* the event ids of outbox_deliveries, in the order of creation
  reached,     \* the id up to which the running dispatcher has read
  cursor,      \* the id it has saved
  meanwhile    \* history: per transaction, the rows of others that became
               \* visible while it had rows of its own that were not

dispatcher == <<deliveries, reached, cursor>>
pollVars   == <<dispatcher, meanwhile>>

\* The rows a poll finds.
Beyond == {r \in outbox : r.id > reached}

\* Mutant: the poll has no ORDER BY.
Scan_Unordered ==
  \E r \in Beyond :
    /\ reached' = r.id
    /\ deliveries' = IF r.event_id \in Range(deliveries) THEN deliveries
                     ELSE Append(deliveries, r.event_id)
    /\ UNCHANGED <<cursor, meanwhile, vars>>

\* The next event is read and its delivery created, unless there is one.
Scan ==
  \E r \in Beyond :
    /\ \A s \in Beyond : r.id <= s.id
    /\ reached' = r.id
    /\ deliveries' = IF r.event_id \in Range(deliveries) THEN deliveries
                     ELSE Append(deliveries, r.event_id)
    /\ UNCHANGED <<cursor, meanwhile, vars>>

\* Mutant: the greatest id that is visible is saved, read or not.
Save_Visible ==
  /\ \E r \in Beyond : /\ \A s \in Beyond : s.id <= r.id
                      /\ cursor' = r.id
  /\ UNCHANGED <<deliveries, reached, meanwhile, vars>>

Save ==
  /\ cursor # reached
  /\ cursor' = reached
  /\ UNCHANGED <<deliveries, reached, meanwhile, vars>>

\* The dispatcher stops and starts again.
Restart ==
  /\ reached # cursor
  /\ reached' = cursor
  /\ UNCHANGED <<deliveries, cursor, meanwhile, vars>>

PollInit ==
  /\ Init
  /\ deliveries = <<>> /\ reached = 0 /\ cursor = 0
  /\ meanwhile = [t \in Tx |-> {}]

\* The rows that a step of t shows are seen by those who have uncommitted ones.
Witness(t) ==
  meanwhile' = [u \in Tx |-> IF u # t /\ staged[u] # <<>>
                             THEN meanwhile[u] \cup (outbox' \ outbox)
                             ELSE meanwhile[u]]

Publisher == \E t \in Tx : Step(t) /\ Witness(t) /\ UNCHANGED dispatcher
Poller    == Scan \/ Save \/ Restart

PollNext == Publisher \/ Poller

PollSpec == PollInit /\ [][PollNext]_<<vars, pollVars>>

-----------------------------------------------------------------------------
(* Properties *)

\* The marks are ids of committed rows, and what is saved is never ahead of
\* what was read.
PollTypeOK ==
  /\ deliveries \in Seq(EventId)
  /\ reached \in {0} \cup {r.id : r \in outbox}
  /\ cursor  \in {0} \cup {r.id : r \in outbox}
  /\ cursor <= reached
  /\ meanwhile \in [Tx -> SUBSET outbox]

\* A delivery is made only of an event whose transaction committed and whose
\* caller was told Ok, or cancelled the call: an append that failed, or whose
\* transaction rolled back, never reaches a receiver.
DeliveredIsAcked ==
  \A id \in Range(deliveries) : \E t \in Tx :
    /\ phase[t] = "committed"
    /\ \/ \E e \in AckedEvents(t) : e.event_id = id
       \/ dropped[t] /\ id \in Ids(sent[t])

\* Row r has no delivery although the mark has passed it.
Passed(r, mark) == r.id <= mark /\ r.event_id \notin Range(deliveries)

\* Two rows of t, in the order in which t appended their events.
InCallOrder(t, a, b) ==
  \E i, j \in DOMAIN sent[t] : /\ i < j
                              /\ sent[t][i].event_id = a.event_id
                              /\ sent[t][j].event_id = b.event_id

\* When the delivery of a was created there was none of b.
DeliveredBefore(a, b) ==
  \E n \in DOMAIN deliveries :
    /\ deliveries[n] = a.event_id
    /\ \A m \in 1..n : deliveries[m] # b.event_id

\* The dispatcher, or what it saved, passes a row only when the row was
\* overtaken: one with a greater id, within the mark, became visible while the
\* transaction of this one was open and had inserted, and was delivered.
\* Transactions that do not overlap lose nothing, whatever restarts do.
SkippedIsOvertaken ==
  \A t \in Tx, r \in outbox, mark \in {reached, cursor} :
    /\ phase[t] = "committed"
    /\ r.event_id \in Ids(sent[t])
    /\ Passed(r, mark)
    => \E s \in meanwhile[t] : /\ r.id < s.id /\ s.id <= mark
                              /\ s.event_id \in Range(deliveries)

\* The deliveries of a transaction's events are created in the order of its
\* calls and slices, also by a dispatcher that starts again from an old cursor
\* and finds rows it had passed: unless a row with an id between the two
\* became visible while the transaction was open, and overtook the first.
DeliveredInCallOrder ==
  \A t \in Tx, a, b \in outbox :
    phase[t] = "committed" /\ InCallOrder(t, a, b) /\ DeliveredBefore(b, a)
      => \E s \in meanwhile[t] : a.id < s.id /\ s.id < b.id

\* What the schema says of id: it increases, and marks how far the dispatcher
\* has read, so no event of the outbox is behind the mark without a delivery.
NoRowSkipped ==
  \A r \in outbox : r.id <= cursor => r.event_id \in Range(deliveries)

=============================================================================
