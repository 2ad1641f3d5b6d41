---------------------------- MODULE SqlxPublisher ----------------------------
(***************************************************************************)
(* The SQLx implementation of the Publisher trait, as its callers see it:  *)
(* concurrent transactions that append events to the table outbox_events.  *)
(*                                                                         *)
(* The actions of the publisher are the three methods of the trait.  What  *)
(* the server and the driver do with the INSERT of a call, with COMMIT and *)
(* with ROLLBACK is not in this repository; it is modelled from what the   *)
(* publisher relies on: the unique index on event_id (which makes a second *)
(* writer of an id wait for the first), the BIGSERIAL sequence, statement  *)
(* atomicity, deadlock detection, and COMMIT of a transaction that has     *)
(* already failed, to which the server answers ROLLBACK and the driver Ok. *)
(***************************************************************************)
EXTENDS Naturals, Sequences, FiniteSets, Functions

CONSTANTS
  Tx,              \* the transactions the callers open, each used once
  Key,             \* the event ids callers supply to append_with_id
  Item,            \* the (event, context) pairs callers append
  NoCallbacks,     \* the items whose context names no callback
  Unserializable,  \* the items serde_json::to_value refuses
  Rejected,        \* the items whose columns the server refuses
  MaxBatch,        \* bound: the longest slice given to append_batch
  MaxRows,         \* bound: the rows one transaction sends
  MaxMint          \* bound: the version 4 ids minted

ASSUME ConstantsAssumption ==
  /\ Key \cap Nat = {}
  /\ NoCallbacks \subseteq Item
  /\ Unserializable \subseteq Item
  /\ Rejected \subseteq Item
  /\ MaxBatch \in Nat
  /\ MaxRows \in Nat
  /\ MaxMint \in Nat

VARIABLES
  phase,     \* where each transaction is in its life
  sent,      \* per transaction, the events of its statements, in order
  settled,   \* how many events of sent belong to statements that are over
  acked,     \* the indexes of sent whose call returned Ok to the caller
  staged,    \* the rows the transaction has inserted and not committed
  faulted,   \* TRUE iff a call returned an error of the database
  dup,       \* the ids for which a call returned DuplicateEventId
  dropped,   \* TRUE iff the caller dropped the future of some call
  told_ok,   \* TRUE iff commit() returned Ok to the caller
  outbox,    \* the committed rows of outbox_events
  serial,    \* the last value of the BIGSERIAL sequence behind id
  mint       \* the number of version 4 ids minted

caller == <<acked, faulted, dup, dropped, told_ok>>
table  == <<staged, outbox, serial>>
vars   == <<phase, sent, settled, caller, table, mint>>

Phase   == {"new", "open", "executing", "detached", "failed",
            "committed", "aborted"}
EventId == Key \cup Nat
Event   == [event_id : EventId, item : Item]
Row     == [id : Nat, event_id : EventId, item : Item]

-----------------------------------------------------------------------------
(* The client's side of a call *)

\* The ids of the events in a sequence.
Ids(events) == {events[i].event_id : i \in DOMAIN events}

\* A statement is on the server; in "detached" nobody awaits its result.
Running(t) == phase[t] \in {"executing", "detached"}

\* The transaction holds its connection.
Live(t) == phase[t] \in {"open", "executing", "detached", "failed"}

\* The connection is free for the caller's next call.
Idle(t) == phase[t] \in {"open", "failed"}

\* Mutant: one push is forgotten after the first event, and UNNEST fills the
\* shorter column with NULL.
Zip_ShortColumn(ids, items) ==
  [i \in 1..Len(items) |->
    [event_id |-> ids[i], item |-> IF i = 1 THEN items[i] ELSE "NULL"]]

\* The columns of the statement, zipped: ids and items side by side.
Zip(ids, items) ==
  [i \in 1..Len(items) |-> [event_id |-> ids[i], item |-> items[i]]]

\* Mutant: only the first context of a batch is validated.
Refusal_First(items) ==
  IF items[1] \in NoCallbacks THEN "MissingCallbacks"
  ELSE IF Range(items) \cap Unserializable # {} THEN "Serialization"
  ELSE "none"

\* The error of the checks made before the database is touched: callbacks of
\* every item first, then serialisation.  "none" when all pass.
Refusal(items) ==
  IF Range(items) \cap NoCallbacks # {} THEN "MissingCallbacks"
  ELSE IF Range(items) \cap Unserializable # {} THEN "Serialization"
  ELSE "none"

\* The call returns that error and leaves the transaction as it was.
Refuse(t, items) ==
  /\ Idle(t)
  /\ Refusal(items) # "none"
  /\ UNCHANGED vars

\* The server refuses every statement of a transaction that has failed (25P02).
RefuseFailed(t, items) ==
  /\ phase[t] = "failed"
  /\ Refusal(items) = "none"
  /\ faulted' = [faulted EXCEPT ![t] = TRUE]
  /\ UNCHANGED <<phase, sent, settled, acked, dup, dropped, told_ok, table,
                 mint>>

\* The statement goes to the server.
Execute(t, ids, items) ==
  /\ phase[t] = "open"
  /\ Refusal(items) = "none"
  /\ Len(sent[t]) + Len(items) <= MaxRows
  /\ sent' = [sent EXCEPT ![t] = @ \o Zip(ids, items)]
  /\ phase' = [phase EXCEPT ![t] = "executing"]
  /\ UNCHANGED <<settled, caller, table>>

\* The body the three methods share.
Insert(t, ids, items) ==
  \/ Refuse(t, items)
  \/ RefuseFailed(t, items)
  \/ Execute(t, ids, items) /\ UNCHANGED mint

\* The same with ids minted here; those a refused call discards are never
\* seen again, so only those that reach the server are counted.
InsertMinted(t, items) ==
  \/ Refuse(t, items)
  \/ RefuseFailed(t, items)
  \/ /\ Execute(t, [i \in 1..Len(items) |-> mint + i], items)
     /\ mint + Len(items) <= MaxMint
     /\ mint' = mint + Len(items)

AppendOne(t) ==
  \E item \in Item : InsertMinted(t, <<item>>)

AppendWithId(t) ==
  \E key \in Key, item \in Item : Insert(t, <<key>>, <<item>>)

\* An empty slice is answered Ok(vec![]) without touching the database: no
\* state changes, whatever the transaction's phase, so the step is a stutter.
AppendBatch(t) ==
  \E n \in 1..MaxBatch : \E items \in [1..n -> Item] : InsertMinted(t, items)

-----------------------------------------------------------------------------
(* The statement on the server *)

InFlight(t) == Running(t) /\ Len(staged[t]) < Len(sent[t])

\* Mutant: the rows of a batch are inserted last event first.
Current_Reversed(t) == sent[t][Len(sent[t]) + settled[t] - Len(staged[t])]

Current(t)  == sent[t][Len(staged[t]) + 1]

\* The items the server refuses, those the schema's CHECK on callbacks would
\* refuse included (none of these is ever sent: see InvalidNeverSent).
Unacceptable == Rejected \cup NoCallbacks

\* The items of the statement.
Arguments(t) == {sent[t][i].item : i \in settled[t] + 1 .. Len(sent[t])}

\* Mutant: the schema has no UNIQUE on event_id.
Taken_NotUnique(t) == FALSE

\* The id is in the index by a committed row or by a row of its own.
Taken(t) ==
  Current(t).event_id \in {r.event_id : r \in outbox} \cup Ids(staged[t])

\* The transactions whose uncommitted rows hold the id: t waits for them.
Holders(t) ==
  {u \in Tx \ {t} : /\ InFlight(t)
                    /\ Arguments(t) \cap Unacceptable = {}
                    /\ Current(t).event_id \in Ids(staged[u])}

\* Mutant: the statement runs on the pool, outside the transaction.
InsertRow_OnPool(t) ==
  /\ InFlight(t)
  /\ Arguments(t) \cap Unacceptable = {}
  /\ ~ Taken(t)
  /\ Holders(t) = {}
  /\ serial' = serial + 1
  /\ outbox' = outbox \cup {[id       |-> serial + 1,
                             event_id |-> Current(t).event_id,
                             item     |-> Current(t).item]}
  /\ sent' = [sent EXCEPT ![t] = SubSeq(@, 1, Len(@) - 1)]
  /\ UNCHANGED <<phase, settled, caller, staged, mint>>

\* A row of the statement enters the table, its id drawn from the sequence.
InsertRow(t) ==
  /\ InFlight(t)
  /\ Arguments(t) \cap Unacceptable = {}
  /\ ~ Taken(t)
  /\ Holders(t) = {}
  /\ serial' = serial + 1
  /\ staged' = [staged EXCEPT ![t] =
       Append(@, [id       |-> serial + 1,
                  event_id |-> Current(t).event_id,
                  item     |-> Current(t).item])]
  /\ UNCHANGED <<phase, sent, settled, caller, outbox, mint>>

\* Mutant: the call returns Ok without awaiting the statement.
Complete_Early(t) ==
  /\ phase[t] = "executing"
  /\ phase' = [phase EXCEPT ![t] = "open"]
  /\ settled' = [settled EXCEPT ![t] = Len(sent[t])]
  /\ acked' = [acked EXCEPT ![t] = @ \cup (settled[t] + 1 .. Len(sent[t]))]
  /\ UNCHANGED <<sent, faulted, dup, dropped, told_ok, table, mint>>

\* Mutant: the publisher commits what it has inserted.
Complete_Commits(t) ==
  /\ Running(t)
  /\ Len(staged[t]) = Len(sent[t])
  /\ phase' = [phase EXCEPT ![t] = "open"]
  /\ settled' = [settled EXCEPT ![t] = Len(sent[t])]
  /\ acked' = [acked EXCEPT ![t] = @ \cup (settled[t] + 1 .. Len(sent[t]))]
  /\ outbox' = outbox \cup Range(staged[t])
  /\ UNCHANGED <<sent, faulted, dup, dropped, told_ok, staged, serial, mint>>

\* The call returns Ok with the ids of its events.
Complete(t) ==
  /\ Running(t)
  /\ Len(staged[t]) = Len(sent[t])
  /\ phase' = [phase EXCEPT ![t] = "open"]
  /\ settled' = [settled EXCEPT ![t] = Len(sent[t])]
  /\ acked' = [acked EXCEPT ![t] =
       IF phase[t] = "executing"
       THEN @ \cup (settled[t] + 1 .. Len(sent[t])) ELSE @]
  /\ UNCHANGED <<sent, faulted, dup, dropped, told_ok, table, mint>>

\* Mutant: the match lost its guard on the code.
ErrorOf_Unguarded(sqlstate) == "DuplicateEventId"

\* The error a database error becomes.
ErrorOf(sqlstate) ==
  IF sqlstate = "23505" THEN "DuplicateEventId" ELSE "Database"

\* Mutant: each statement runs in a savepoint of its own.
Fail_Savepoint(t, sqlstate) ==
  /\ phase' = [phase EXCEPT ![t] = "open"]
  /\ staged' = [staged EXCEPT ![t] = SubSeq(@, 1, settled[t])]
  /\ sent' = [sent EXCEPT ![t] = SubSeq(@, 1, settled[t])]
  /\ faulted' = [faulted EXCEPT ![t] = TRUE]
  /\ UNCHANGED <<settled, acked, dup, dropped, told_ok, outbox, mint>>

\* The statement fails, and with it everything the transaction inserted.
Fail(t, sqlstate) ==
  /\ phase' = [phase EXCEPT ![t] = "failed"]
  /\ staged' = [staged EXCEPT ![t] = <<>>]
  /\ sent' = [sent EXCEPT ![t] = SubSeq(@, 1, settled[t])]
  /\ IF phase[t] = "executing"
     THEN /\ faulted' = [faulted EXCEPT ![t] = TRUE]
          /\ dup' = IF ErrorOf(sqlstate) = "DuplicateEventId"
                    THEN [dup EXCEPT ![t] = @ \cup {Current(t).event_id}]
                    ELSE dup
     ELSE UNCHANGED <<faulted, dup>>
  /\ UNCHANGED <<settled, acked, dropped, told_ok, outbox, mint>>

\* A value of the statement is unacceptable, or a row fails the CHECK on
\* callbacks: no row is inserted.
BadParameter(t) ==
  /\ InFlight(t)
  /\ Arguments(t) \cap Unacceptable # {}
  /\ Fail(t, "22P05")
  /\ UNCHANGED serial

\* Mutant: append_with_id is made idempotent, a duplicate is answered Ok.
UniqueViolation_Ok(t) ==
  /\ InFlight(t)
  /\ Arguments(t) \cap Unacceptable = {}
  /\ Taken(t)
  /\ phase' = [phase EXCEPT ![t] = "failed"]
  /\ staged' = [staged EXCEPT ![t] = <<>>]
  /\ sent' = [sent EXCEPT ![t] = SubSeq(@, 1, settled[t])]
  /\ UNCHANGED <<settled, caller, outbox, serial, mint>>

\* The id of the next row is taken.  (The sequence value drawn for the row is
\* lost; aborted rows leave such gaps anyway, so it is not counted.)
UniqueViolation(t) ==
  /\ InFlight(t)
  /\ Arguments(t) \cap Unacceptable = {}
  /\ Taken(t)
  /\ Fail(t, "23505")
  /\ UNCHANGED serial

\* Mutant: cycles of waiting transactions are not detected.
Deadlocked_Never(S) == FALSE

\* S is a set of transactions that wait for each other.
Deadlocked(S) ==
  \A u \in S : /\ S \cap Holders(u) # {}
               /\ \E v \in S : u \in Holders(v)

\* Deadlock detection picks a victim.
DeadlockAbort(t) ==
  /\ \E S \in SUBSET Tx : t \in S /\ Deadlocked(S)
  /\ Fail(t, "40P01")
  /\ UNCHANGED serial

-----------------------------------------------------------------------------
(* The caller, its transaction and its connection *)

Begin(t) ==
  /\ phase[t] = "new"
  /\ phase' = [phase EXCEPT ![t] = "open"]
  /\ UNCHANGED <<sent, settled, caller, table, mint>>

\* The future of a call is dropped, by a timeout or a select.  Its statement
\* either was never sent or runs on with nobody to learn its result.
DropFuture(t) ==
  /\ phase[t] = "executing"
  /\ dropped' = [dropped EXCEPT ![t] = TRUE]
  /\ \/ /\ phase' = [phase EXCEPT ![t] = "detached"]
        /\ UNCHANGED sent
     \/ /\ Len(staged[t]) = settled[t]
        /\ phase' = [phase EXCEPT ![t] = "open"]
        /\ sent' = [sent EXCEPT ![t] = SubSeq(@, 1, settled[t])]
  /\ UNCHANGED <<settled, acked, faulted, dup, told_ok, table, mint>>

\* The transaction ends; its rows leave the set of uncommitted ones.
End(t, outcome, answer) ==
  /\ phase' = [phase EXCEPT ![t] = outcome]
  /\ told_ok' = [told_ok EXCEPT ![t] = answer]
  /\ staged' = [staged EXCEPT ![t] = <<>>]
  /\ UNCHANGED <<sent, settled, acked, faulted, dup, dropped, serial, mint>>

\* COMMIT of a transaction in order; the answer may be lost.
CommitApplied(t) ==
  /\ phase[t] = "open"
  /\ outbox' = outbox \cup Range(staged[t])
  /\ \E answered \in BOOLEAN : End(t, "committed", answered)

\* COMMIT of a failed transaction: the server rolls back, commit() is Ok.
CommitFailed(t) ==
  /\ phase[t] = "failed"
  /\ End(t, "aborted", TRUE)
  /\ UNCHANGED outbox

\* rollback(), a Transaction dropped without a commit, or a COMMIT that does
\* not reach the server: the caller does not see Ok.
Rollback(t) ==
  /\ Idle(t)
  /\ End(t, "aborted", FALSE)
  /\ UNCHANGED outbox

Commit(t) == CommitApplied(t) \/ CommitFailed(t)
Finish(t) == Commit(t) \/ Rollback(t)

\* The connection breaks under a statement, whose call returns Database.
ConnectionLost(t) ==
  /\ Running(t)
  /\ phase' = [phase EXCEPT ![t] = "aborted"]
  /\ staged' = [staged EXCEPT ![t] = <<>>]
  /\ sent' = [sent EXCEPT ![t] = SubSeq(@, 1, settled[t])]
  /\ faulted' = [faulted EXCEPT ![t] = @ \/ phase[t] = "executing"]
  /\ UNCHANGED <<settled, acked, dup, dropped, told_ok, outbox, serial, mint>>

-----------------------------------------------------------------------------
Init ==
  /\ phase    = [t \in Tx |-> "new"]
  /\ sent     = [t \in Tx |-> <<>>]
  /\ settled  = [t \in Tx |-> 0]
  /\ acked    = [t \in Tx |-> {}]
  /\ staged   = [t \in Tx |-> <<>>]
  /\ faulted  = [t \in Tx |-> FALSE]
  /\ dup      = [t \in Tx |-> {}]
  /\ dropped  = [t \in Tx |-> FALSE]
  /\ told_ok  = [t \in Tx |-> FALSE]
  /\ outbox   = {}
  /\ serial   = 0
  /\ mint     = 0

Call(t)      == AppendOne(t) \/ AppendWithId(t) \/ AppendBatch(t)
Statement(t) == \/ InsertRow(t) \/ Complete(t) \/ BadParameter(t)
                \/ UniqueViolation(t) \/ DeadlockAbort(t)
Step(t)      == \/ Begin(t) \/ Call(t) \/ Statement(t) \/ DropFuture(t)
                \/ Finish(t) \/ ConnectionLost(t)

\* Every transaction has ended: the one state the system may rest in.
Rest == /\ \A t \in Tx : phase[t] \in {"committed", "aborted"}
        /\ UNCHANGED vars

Next == Rest \/ \E t \in Tx : Step(t)

Spec == Init /\ [][Next]_vars

\* The server executes a statement it has been given.  A caller makes finitely
\* many calls, then commits, or leaves the scope of its Transaction, which
\* rolls back: it cannot be free to end for ever without ending.
Fairness == \A t \in Tx : WF_vars(Statement(t)) /\ SF_vars(Finish(t))

FairSpec == Spec /\ Fairness

-----------------------------------------------------------------------------
(* Properties *)

\* The events a consumer of the outbox can see.
Published == {[event_id |-> r.event_id, item |-> r.item] : r \in outbox}

\* The events whose calls the caller saw succeed.
AckedEvents(t) == {sent[t][i] : i \in acked[t]}

TypeOK ==
  /\ phase    \in [Tx -> Phase]
  /\ sent     \in [Tx -> Seq(Event)]
  /\ settled  \in [Tx -> Nat]
  /\ acked    \in [Tx -> SUBSET Nat]
  /\ staged   \in [Tx -> Seq(Row)]
  /\ faulted  \in [Tx -> BOOLEAN]
  /\ dup      \in [Tx -> SUBSET EventId]
  /\ dropped  \in [Tx -> BOOLEAN]
  /\ told_ok  \in [Tx -> BOOLEAN]
  /\ outbox   \subseteq Row
  /\ serial   \in Nat
  /\ mint     \in Nat

\* event_id, the idempotency key of the webhooks, and id, the dispatcher's
\* cursor, each identify one committed row, whatever calls and retries of
\* concurrent transactions used the same id.
EventIdUnique ==
  \A r, s \in outbox : r.event_id = s.event_id \/ r.id = s.id => r = s

\* A call that returned Ok is in the outbox if its transaction committed,
\* also when another call of the transaction failed in the meantime.
AckedIsDurable ==
  \A t \in Tx : phase[t] = "committed" => AckedEvents(t) \subseteq Published

\* The outbox holds no event of a transaction that did not commit, nor of a
\* call that returned an error: only calls that returned Ok, or whose future
\* the caller dropped, left rows there.
NoPhantom ==
  \A e \in Published : \E t \in Tx :
    /\ phase[t] = "committed"
    /\ e \in AckedEvents(t) \/ (dropped[t] /\ e \in Range(sent[t]))

\* commit() that returns Ok has committed, provided that no call of the
\* transaction failed in the database and no future was dropped: the callers
\* of the examples, which propagate each error before the commit, rely on it.
CommitReportHonest ==
  \A t \in Tx :
    told_ok[t] /\ ~ faulted[t] /\ ~ dropped[t]
      => phase[t] = "committed"

\* A caller told DuplicateEventId may take the event for published: its row
\* is committed, unless the same transaction had inserted it itself.
DuplicateMeansPublished ==
  \A t \in Tx : \A id \in dup[t] :
    \/ \E e \in Published : e.event_id = id
    \/ id \in Ids(sent[t])

\* What the documentation of the error says: the id is in the outbox.
DuplicateIsInOutbox ==
  \A t \in Tx : \A id \in dup[t] : \E e \in Published : e.event_id = id

\* Within a transaction the ids of the rows follow the order of the calls and
\* of the slices given to append_batch: a reader ordering by id, as the tests
\* do, sees the events as they were appended.
RowsInCallOrder ==
  \A t \in Tx : phase[t] = "committed" =>
    \A i, j \in DOMAIN sent[t] : \A r, s \in outbox :
      /\ i < j
      /\ r.event_id = sent[t][i].event_id
      /\ s.event_id = sent[t][j].event_id
      => r.id < s.id

\* Whatever its place in a batch, an event without a callback, or one that
\* has no JSON form, reaches the database in no statement: the call cannot
\* break the transaction, and no event next to it is sent either.
InvalidNeverSent ==
  \A t \in Tx : \A e \in Range(sent[t]) :
    e.item \notin NoCallbacks \cup Unserializable

\* Once a call failed in the database, no later call of the transaction
\* returns Ok: a caller that goes on cannot be led to believe it published.
FailedStaysFailed ==
  [][\A t \in Tx : faulted[t] => acked'[t] = acked[t]]_vars

\* Every statement comes to an end, also one that waits for another
\* transaction's id, and those that wait for each other.
CallReturns == \A t \in Tx : Running(t) ~> ~ Running(t)

-----------------------------------------------------------------------------
(* The promise of an outbox, kept by this implementation *)

WorkOf(t) == CASE phase[t] = "committed" -> "done"
               [] phase[t] = "aborted"   -> "gone"
               [] OTHER                  -> "pending"

Uncertain(t) == IF dropped[t] THEN Range(sent[t]) \ AckedEvents(t) ELSE {}

Outbox == INSTANCE TransactionalOutbox WITH
  work      <- [t \in Tx |-> WorkOf(t)],
  accepted  <- [t \in Tx |-> AckedEvents(t)],
  uncertain <- [t \in Tx |-> Uncertain(t)],
  published <- Published

\* Events become visible atomically with the commit, never before and never
\* without it, and none of those the caller was told of is missing.
ImplementsOutbox == Outbox!Spec

=============================================================================
