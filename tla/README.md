# Verification of outbox-publisher-rs

TLA+ modules, TLC runs and machine-checked proofs for the transactional outbox
publisher, the webhook receiver, the derive macro, the example programs and the
release workflow of this repository.  Paths below are relative to the
repository's root.

* What the system is, and what is hard in it: **1. Inventory**
* Which module models what, state by state and action by action: **2. Modules**
* What each run checks, its bounds and its fairness: **3. Runs**
* What holds for every value of the constants, and why: **4. Proofs**
* Where documentation and code disagree: **5. Findings**
* What is left out, and what comes next: **6. Limits**, **7. Plan**

## 1. Inventory

| Component | Source | State | Operations | Modelled by |
|---|---|---|---|---|
| Publisher trait, SqlxPublisher | `crates/outbox-publisher/src/publisher.rs`, `crates/outbox-publisher-sqlx/src/lib.rs` | none of its own; all of it is in the caller's transaction and in `outbox_events` | `append`, `append_with_id`, `append_batch` | `SqlxPublisher` |
| Event context and errors | `event.rs`, `error.rs`, both in `crates/outbox-publisher/src/` | values | builder, getters, `Display` | `EventContext`, `EventChain`; the errors by their names |
| Callers | `examples/axum-handler.rs`, `batch-emit.rs` | one transaction each, the pool they share | `register`, `main`: `begin`, a call, `commit`, rollback by `?` or drop | `Callers`, `ExampleCallers` |
| Outbox schema and dispatcher | `tests/fixtures/0001_initial_schema.sql` (the dispatcher itself is another repository) | `outbox_events`, `outbox_deliveries`, a cursor | poll by id, create deliveries, save the cursor, attempt, retry, dead letter | `OutboxPolling`, `WebhookReceiver`, `EventChain` |
| Webhook verifier | `crates/outbox-publisher/src/webhook/mod.rs`, `signing.rs` | secret and tolerance, constant | `sign`, `verify`, `verify_and_parse` | `WebhookVerifier` |
| Axum extractor, receiver | `webhook/mod.rs`, `examples/webhook-receiver.rs` | none | `from_request`, `into_response`, the handler | `WebhookReceiver` |
| DomainEvent derive macro | `crates/outbox-publisher-derive/src/lib.rs` | the loops' variables | `expand_domain_event`, `parse_struct_attrs`, `find_aggregate_id_field`, `validate_uuid_field`, `is_uuid_type` | `DeriveDomainEvent` |
| CI and release workflows | `.github/workflows/` | the registry and its index, the runs of workflows | publish three crates in order, wait for the index, run failed jobs again | `ReleasePipeline` |

How they interact.  A caller opens a transaction and passes it to the
publisher's methods, next to its own writes.  Each method validates the
contexts, serialises the payloads, and sends one INSERT inside that
transaction; the caller alone commits.  The dispatcher polls the committed rows
by id beyond a cursor, creates a delivery per event and callback, signs the
event with HMAC-SHA256 over `"<timestamp>.<body>"` and posts it.  The receiver's
extractor verifies the signature before it deserialises the body and passes the
envelope to a handler, whose status tells the dispatcher whether to retry.  A
handler may be a caller of the publisher itself: the envelope gives it the
event's id, correlation and actor to carry on.

What makes each part correct, and what is hard about it:

* **Publisher.**  What a caller was told agrees with what consumers see: an Ok
  and a commit mean a row, an error or a rollback mean none, `DuplicateEventId`
  means that the event need not be sent again.  Hard: several transactions use
  the same id at the same time, in opposite orders; a call fails and the caller
  goes on; a future is dropped while its statement runs; the connection breaks;
  the answer to COMMIT is lost; one event of a batch is bad.
* **Callers.**  An answer of 200, or Ok of a program, means that the events are
  in the outbox; an error before the commit means that none is, so that trying
  again is safe; a batch is visible as a whole or not at all.  Hard: the client
  disconnects and the handler's future is dropped at any await; more requests
  than connections wait for each other; the server refuses an email that passed
  every check.
* **Event context.**  The row, and the envelope made of it, says of an event what
  its publisher said last.  Hard: three ids of one type go through two methods
  of the SQLx publisher, in one of them as columns of a batch.
* **A chain of events.**  A handler that publishes a follow-up does so once per
  event, and its context leads back to the cause.  Hard: requests are repeated
  while the first is being handled; answers and commits are lost; one handler is
  told of a duplicate while the other's transaction is open.
* **Dispatcher's reading.**  An event is delivered if and only if it is
  published, once.  Hard: ids are drawn at INSERT and appear at COMMIT; the
  dispatcher stops between creating a delivery and saving its cursor.
* **Receiver.**  A handler sees only what the dispatcher signed, near the time
  it did.  Hard: requests are late, repeated, cut, mixed with others; clocks
  differ and are read in whole seconds; a failure on the way is answered like a
  failure of the event.
* **Derive macro.**  It accepts what it documents and blames what is wrong.
  Hard: attributes and keys repeat in many places and orders, and flags live
  across loops.

* **Release workflow.**  A release has all its crates, each published from the
  commit of its tag, after the one it depends on.  Hard: steps fail half-way and
  jobs are run again; the index lags behind the registry; two tags are released
  at a time and `cargo search --limit 1` shows the newest version only.

`PROJECT.json` lists the hazards line by line, with the properties for each.

## 2. Modules

| Module | Kind |
|---|---|
| `TransactionalOutbox` | abstract specification: events become visible with the business writes, in one step, or never |
| `SqlxPublisher` | the publisher, the server's part of a statement, the caller; implements `TransactionalOutbox` |
| `SqlxPublisherProofs` | theorems about it |
| `Callers` | composes `SqlxPublisher` with callers that share a pool, end early, and disconnect; `CallersSpec` allows callers of every kind |
| `CallersProofs` | theorems about it, and `CallersSpec => Spec` of the publisher |
| `ExampleCallers`, `ExampleCallersProofs` | the requests of `axum-handler` and the runs of `batch-emit`, as such callers; liveness |
| `EventContext` | the pure functions of the context, the columns of both INSERTs and the envelope |
| `Fulfilment` | abstract specification: an order is placed, followed up once, and closed only after that |
| `EventChain` | composes `Callers` and `EventContext` with a dispatcher and with handlers that publish; implements `Fulfilment` |
| `EventChainProofs` | theorems about it, with `ChainSpec => CallersSpec` and `ChainSpec => ImplementsFulfilment` |
| `OutboxPolling` | composes `SqlxPublisher` with a reader that polls by id |
| `OutboxPollingProofs` | theorems about it |
| `WebhookVerifier` | the pure functions of signature, header, tolerance, extractor and response |
| `WebhookReceiver` | dispatcher's attempts, network, extractor and handler, on top of `WebhookVerifier` |
| `WebhookReceiverProofs` | theorems about it |
| `DeriveDomainEvent` | the macro's loops, one round a step, against a definition of what it should accept |
| `DeriveDomainEventProofs` | theorems about it |
| `ReleasePipeline` | the release workflow of several tags, with the registry and its index |
| `ReleasePipelineProofs` | theorems about it |
| `MC*` | constants and symmetry for the runs |

Operators whose names have a suffix (`Zip_ShortColumn`, `Scan_Unordered`, ...)
are *mutants*: the neighbouring definition with a plausible bug.  Nothing uses
them in the specifications; put in the place of the original, each must break the
property that `PROJECT.json` pairs it with.

### SqlxPublisher

| Variable | Stands for |
|---|---|
| `phase[t]` | the caller's transaction: `new`, `open`, `executing` (a call awaits its statement), `detached` (the statement runs, the call's future was dropped), `failed` (the server refuses all but its end), `committed`, `aborted` |
| `sent[t]`, `settled[t]` | the events of its statements in order; how many belong to statements that are over |
| `staged[t]`, `outbox` | its uncommitted rows; the committed rows of `outbox_events` |
| `serial`, `mint` | the sequence behind `id`; the version 4 ids made by `Uuid::new_v4` |
| `acked[t]`, `faulted[t]`, `dup[t]`, `dropped[t]`, `told_ok[t]` | what the caller knows: calls that returned Ok, a call failed in the database, ids reported as duplicates, a future was dropped, `commit()` returned Ok |

| Action | Code |
|---|---|
| `AppendOne`, `AppendWithId` | `append`, `append_with_id` and `insert` (lines 68-94 and 119-164 of `outbox-publisher-sqlx/src/lib.rs`): validate callbacks, serialise, one INSERT |
| `AppendBatch` | `append_batch` and `insert_batch` (lines 96-106 and 167-245): validate all contexts, build the columns, one INSERT from UNNEST; an empty slice returns at once, a stutter |
| `Refuse`, `RefuseFailed`, `Execute` | the early returns with `MissingCallbacks` and `Serialization`; a statement in a transaction that has failed; the `execute(&mut **tx)` |
| `InsertRow`, `Complete`, `UniqueViolation`, `BadParameter`, `DeadlockAbort` | what PostgreSQL does with the statement, row by row, and the mapping of its error (`ErrorOf`, lines 157-163 and 238-244) |
| `Begin`, `CommitApplied`, `CommitFailed`, `Rollback` | the callers of the examples; COMMIT of a transaction in order, whose answer may be lost; COMMIT of a failed one, which the server turns into ROLLBACK and the driver reports as Ok |
| `DropFuture`, `ConnectionLost` | a call cancelled at its await, before or after its statement was sent; a connection that breaks under a statement |

An item stands for a pair of event and context; the model distinguishes items
without callbacks, items `serde_json::to_value` refuses, and items the server
refuses.  Ids are values of their own: supplied ones from `Key`, minted ones
from `Nat`, which never meet (a collision of version 4 UUIDs is not modelled).

### Callers and ExampleCallers

`at[r]` is the await at which a request, or a run of a program, is: `begin`
(`pool.begin()`), `append`, `appending` (the call is awaited), `commit`; or how it
ended: `ok`, `no connection`, `append failed`, `unsure` (an error of `commit()`),
`gone` (dropped, with nobody answered).  `asked[r]` are the events it is to
append.  A caller is known by its transaction; those in `Emitter` are programs
with a pool of their own, the others share `PoolSize` connections.

| Action | Code |
|---|---|
| `Enter`, `Register`, `Emit` | a caller is there and has built its events and contexts (`axum-handler.rs:61-85`, `batch-emit.rs:50-72`); requests may have the same email |
| `Acquire`, `NoConnection` | `begin()` returns a transaction once a connection is free, or fails: `axum-handler.rs:69-73` |
| `CallMinted`, `CallWithId` | `append` or `append_batch`, and `append_with_id`, which no example calls |
| `AppendReturns`, `AppendFails` | the `?`, or the `map_err`, after the call |
| `CommitReturns` | `commit()` returns: applied, or an error of which nobody knows |
| `GoAway` | the caller is dropped at an await: before it has a connection, inside a call (`DropFuture`), inside `commit()`, whose COMMIT may be applied |
| `Release` | the `Transaction`, dropped, rolls back and its connection returns |
| `Serve` | the server's steps of `SqlxPublisher` |

### EventContext and EventChain

A context is a record of the fields of `EventContext`; an Option is a sequence of
at most one element.  `Columns` are the arguments of the single-row INSERT,
`Vectors` and `Unnest` those of `insert_batch`, one vector per column, pushed
event by event and set side by side by UNNEST, which pads short ones with NULL.
`Envelope` is the body posted.  Callbacks are names; two of the same name for an
event, which the UNIQUE constraint on deliveries would collapse, are not modelled.

In `EventChain` an item is such a row.  `Publish` builds an order's context with
the builder, some of its methods called twice, and enters a caller; `Dispatch`,
`TimedOut` and `Respond` are attempts of the dispatcher, of which only the answer
to the current one counts; `Receive` delivers any request ever sent to a handler,
again and to several at a time.  `delivery`, `attempts` and `requests` are the
dispatcher's state and the network's, `serving[h]` the envelope a handler works on.
The handler that publishes is not in this repository.  It is made of what is
documented here: `event_id` is an idempotency key (`webhook/mod.rs`), so it appends
with an id derived from it (`append_with_id`), takes `DuplicateEventId` for done
(`error.rs`), and sets causation and correlation (`event.rs`).
`Promise` reads the variables of `Fulfilment` off the outbox and the deliveries:
`placed` are the ids of the orders' rows, `followUps` counts the rows that name an id
as their cause, `closed` are the deliveries that are done.

### OutboxPolling

`reached` is how far the running dispatcher has read, `cursor` what it saved,
`deliveries` the rows of `outbox_deliveries`.  `Scan` reads the next committed
row by id and creates its delivery unless the UNIQUE constraint has one;
`Save` saves the mark; `Restart` goes back to it.  All steps of the publisher
interleave with these.

`meanwhile` is a history variable, which nothing reads but the properties: for each
transaction, the rows of others that became visible while it had rows that were not.
`Witness(t)` keeps it, beside each step of a transaction `t`.

### WebhookVerifier and WebhookReceiver

Times are ticks, `PerSecond` to a second, so that the truncation to whole
seconds is in the model.  A header is absent, not ASCII, or a list of parts; a
part's value is missing if it does not parse.  The HMAC is the message itself,
an injective function: it is assumed that nobody finds a collision, and nobody
in the model signs without the secret.

| Definition | Code |
|---|---|
| `Field`, `parse_t_field`, `parse_v1_decoded`, `verify_decoded`, `Sign` | `webhook/signing.rs` |
| `HeaderError`, `InTolerance`, `verify`, `verify_and_parse` | `webhook/mod.rs:82-199`, checks in their order |
| `from_request`, `into_response` | `webhook/mod.rs:262-309` |
| `Dispatch`, `Answered`, `TimedOut`, `GiveUp` | the dispatcher, from the columns of `outbox_deliveries` and the statuses the receiver example describes |
| `Arriving`, `Receive` | the network: any request ever sent may arrive again, at any later time, with its header cut, swapped, missing, unreadable or joined with another's, its body altered or broken off |
| `Reject`, `Handle` | the extractor's two outcomes; the handler answers 200, 410 or 503; the answer may be lost |

### DeriveDomainEvent

The variables are the macro's: `kind` and `aggregate` found so far, the
positions of the loops, `is_aggregate_id` and `field_marked`, `found`.  Each
action is one round of a loop or one of the checks between them, and ends with
the error of the code at that place or with the values of the `impl` that is
written.

### ReleasePipeline

One action per step of `release.yml`: `CiPasses` (lines 14-23), `AssertVersion`
(40-57), `DryRun` (59-65), `Publish` of `crate[v]` (67-116), `PollFinds`,
`PollMisses` and `WaitTimesOut` for the loops between them (80-111),
`GithubRelease` (119-133).  `Fail` lets any step fail, also after its effect: a
`Publish` whose answer is lost has published.  `Rerun` runs the failed jobs of a tag
again, each from its first step.  `registry` has what was published, `index` what
the search shows of it; `Propagate` lets it catch up.  The index that `cargo publish`
resolves against and the one `cargo search` prints are taken for one.  `manifest[v]`
is the version in the commit of tag `v`, `required[v]` the one that the same commit
writes beside the paths of its own crates (`Cargo.toml:25-27`): any.  `Admits` is what
cargo takes such a requirement for, so that `Publish` may find a crate of another
version of the series (`Resolves`); `Breaking` are the versions that begin a new one.

## 3. Runs

| Run | Shows | Size |
|---|---|---|
| `publisher` | two transactions, two keys, items of all four kinds, batches of up to two, at most two events per transaction: type and safety invariants, `FailedStaysFailed`, refinement of `TransactionalOutbox` | 441,606 states, depth 25 |
| `publisher_liveness` | two transactions that each use both keys: every statement ends (`CallReturns`) | 42,427 states |
| `publisher_duplicate` | *violated*: `DuplicateIsInOutbox`, see finding 1 | |
| `polling` | two publishing transactions and a dispatcher that restarts | 1.77 million states, depth 32 |
| `polling_skip` | *violated*: `NoRowSkipped`, see finding 2 | |
| `receiver` | one event sent at most twice, clocks that agree, differ, and stand before the epoch | 127,228 states, depth 15 |
| `receiver_tolerance` | *violated*: `RejectedIsOutside`, see finding 3 | |
| `receiver_transient` | *violated*: `DeadIsPermanent`, see finding 4 | |
| `derive` | all lists of up to three metas on a struct, all fields of up to two attributes of up to two metas, some faults together | 33,566 states |
| `callers` | two requests that share one connection, with emails the server takes or refuses, beside a run of `batch-emit` of two events: safety, and every caller ends | 211,846 states |
| `chain` | two orders, one shipped, published alone or in a batch; three calls of the handler, two attempts: safety, and refinement of `Fulfilment` | 501,088 states, depth 34 |
| `release` | two tags on commits of any versions and requirements, waits of two polls | 33,500 states |

The properties:

* `EventIdUnique`, `AckedIsDurable`, `NoPhantom`: the outbox holds each id
  once, all that was acknowledged, and nothing else but what a cancelled call
  left.
* `CommitReportHonest`, `FailedStaysFailed`: the caller who propagates errors,
  as the examples do, can trust `commit()`; the caller who goes on is told no
  further Ok.
* `DuplicateMeansPublished`: a retry that is answered `DuplicateEventId` need
  not be made again, unless the same transaction had used the id.
* `RowsInCallOrder`: ids follow calls and slices within a transaction.
* `InvalidNeverSent`: one bad event in a batch stops the batch before the
  database, wherever it stands.
* `ImplementsOutbox`: all of it in one formula, by refinement.
* `OkIsPublished`, `PublishedIsAccounted`, `AllOrNothing`: what a client answered
  200, what one answered 500, and what an operator may conclude; `EveryCallerEnds`:
  connections come back whatever happens to their borrowers.
* `RowSaysAsTold`, `TraceLeadsBack`: no field of a context gets lost, swapped or
  given to the event beside it, and a trace can be followed to its start.
* `FollowedUpOnce`, `DoneIsFollowedUp`: with a derived id, the publisher turns
  deliveries that are repeated at will into one follow-up per event.
* `ImplementsFulfilment`: what readers of the outbox see of the chain, in one formula:
  orders and follow-ups stay once they are visible, a follow-up comes after its order,
  and a delivery that is over is not opened again by an answer that is late.
* `DeliveredIsAcked`: deliveries are of acknowledged events.  `SkippedIsOvertaken`: an
  event is passed over, by what the dispatcher has read or by what it saved, only if a
  row with a greater id, which was delivered, became visible while the event's
  transaction had inserted and not committed.  `DeliveredInCallOrder`: the deliveries of
  a transaction's events follow its calls, although a dispatcher that starts again reads
  what it had passed, unless such a row lies between the two.  Both fail if the poll
  is not ordered by id.
* `HandledIsSigned`, `HandledInTime`, `ParsedIsSigned`, `DoneIsFinished`: what
  reaches the handler, the deserialiser and the state `done`.
* `AcceptsExactly`, `ErrorIsTrue`: the macro's answer, against a definition
  over the whole item.
* `ReleaseIsComplete`, `DependencyPropagated`, `PublishedFromItsTag`: what a release
  promises; `WorkflowEnds`: the waits end; `SpentForGood`: a version whose
  publish job failed after its first crate cannot be finished by running the job
  again, for `cargo publish` refuses what is there.

**Bounds.**  Two transactions are enough for a unique index to make one wait for
another and, with two keys, for a cycle; two events each, for a statement that
fails after another succeeded, for a batch whose second row fails, and for a
retry of the same id.  The third minted id lets both transactions mint while one
did so twice.  The polling run leaves out the bad items, which never become rows.
Eight half-second ticks with a tolerance of one second reach both edges of the
window and requests that are repeated too late; two attempts reach a
timeout with the late answer of the first attempt, and the giving up.  The
macro's loops treat each meta alike given what was found before, and three metas
are enough for each of two values to be found and one of them repeated.
With one connection for two requests every handler that keeps one starves the
other.  Three handlers are enough for one to win, one to wait for it and be told of
the duplicate, and one to arrive when all is over, or after the winner's rollback;
two attempts, for an answer that is late.  Two tags let a greater version hide a
smaller one in the search, and be published from the wrong commit.

**Symmetry.**  Transactions and keys are interchangeable in the safety runs of
publisher and polling, handlers in `chain`; runs with a liveness property use none.

**Deadlock.**  Checked for the publisher and the macro, whose specifications name the state
in which they may rest.  Switched off where the system may stop: the receiver's
clock has a last time, the dispatcher has nothing to read when all transactions
have ended, callers, handlers and attempts are used up, and a failed release stays
failed if nobody runs it again.

**Fairness.**  `FairSpec` is used by `publisher_liveness`.  Weak fairness of
`Statement(t)`: the server executes a statement it was given, and detects
deadlocks.  Strong fairness of `Finish(t)`: a caller makes finitely many calls,
then commits or leaves the scope of its `Transaction`, which rolls back; strong,
because between calls the transaction is idle again and again, and weak
fairness would allow a caller that calls for ever.  Nothing is assumed of
connections, cancellations or the next call.
`ExamplesSpec` assumes that the runtime polls a future that is ready (weak fairness
of the caller's steps), that the server executes what it was given and answers
COMMIT, that a dropped `Transaction` rolls back, and that the pool serves its
waiters in turn: strong fairness of `Acquire`, because connections are taken by
others in between.  The pool's own timeout, disconnecting clients and failures are
possible and never relied on.  `ReleasePipeline` assumes that the runner executes a
workflow it has started; nobody need run a job again, and the index need not catch up.

## 4. Proofs

The proofs assume the named assumptions on constants: `ConstantsAssumption`
(bounds are natural numbers, supplied ids are not numbers, the sorts of items
are items), `CallersAssumption`, `ExamplesAssumption`, `ChainAssumption` (the rows of
orders and of follow-ups are items; the derived ids are supplied ids and differ for
different events), `PerSecondAssumption`, `ReceiverAssumption`, `DeriveAssumption`
and `ReleaseAssumption`.  The numbers of transactions, handlers, keys, items, events,
attributes, tags and polls and the bounds themselves are arbitrary.

The specifications form a tower: `ExamplesAreCallers` and `ChainCallsPublisher` map
the examples and the chain to `CallersSpec`, `CallersPublish` maps that, and
`PollingIsPublishing` the polling, to the publisher's `Spec`, and `Refinement` to
`TransactionalOutbox`, so that each theorem holds of everything above it.  At its top
stands `ChainFulfils`, from the chain to `Fulfilment`.

Three theorems have a finite set of transactions as their hypothesis
(`IsFiniteSet(Tx)`): those that say that somebody can go on.  A server has finitely
many connections; without it each of infinitely many transactions could wait for
the next.

### SqlxPublisherProofs

Theorems: `TypeCorrect`, `EventIdsUnique`, `AckedDurable`, `NoPhantoms`,
`HonestCommit`, `DuplicatePublished`, `CallOrder`, `ValidSent`,
`FailureIsFinal` (an action property), `Refinement` (`Spec => Outbox!Spec`),
`SomeoneMoves` and `StatementsShrink`.

The properties are not inductive by themselves.  `IndInv` adds:

* `Progress`: how much of `sent` is settled and staged in each phase; without it
  a commit might publish half a statement.
* `Aligned`: row by row, `staged` is what was `sent`; needed to speak of events
  where the code has rows.
* `Distinct`: no two rows, committed or staged, in any transactions, share an
  id; `EventIdUnique` alone says nothing of the rows about to be committed.
* `Committed`: the outbox is exactly the events of committed transactions.
* `DistinctArguments`: a statement's own ids differ, so that a duplicate in it
  comes from before the statement.
* `Informed`: what the caller knows follows from the phase: without a dropped
  future, the acknowledged events are the settled ones.

`StepCases` turns a step into eleven forms; one lemma per conjunct shows that
each form keeps it; `NextIndInv` joins them.  The refinement maps each step of a
transaction to a step of `TransactionalOutbox` or a stutter.

The last two are the step-wise half of `CallReturns`.  `Remaining(t)` counts the rows a
statement has yet to insert, and its completion; `StatementsShrink`: each step of the
server for a statement lessens it, and while it runs no step of anybody adds to it.
`SomeoneMoves`: take any transactions that include all those their members wait for;
if one of them runs a statement, then one of them has a statement that can take a
step (`Movable`) or a caller that is to act (`Idle`).  Were it false, everybody would
wait for another of a finite set; a non-empty set that is least among those closed
under waiting is one in which each waits for one and is waited for by one (`Circle`),
and `DeadlockAbort` takes a step in it.

### WebhookReceiverProofs

Theorems: `ReceiverTypeCorrect`, `OnlySignedHandled`, `OnlyInTimeHandled`,
`OnlySignedParsed`, `OnlyFinishedDone`, `UnalteredAccepted`, `OnlyFarRejected`,
`WholeToleranceKept` and `DeadOfRejection` (an action property).

The argument has three parts.  `NearInTicks` is the arithmetic of whole seconds: a
drift within the tolerance in seconds is less than a second beyond it in ticks.
`ArrivingGenuine` follows a header through everything that may happen to it: each
part that parses comes from a request that was signed; with `FieldFound` and
`VerifyOk` it gives `VerifiedIsSigned`, that what passes the verifier is the body of a
request with the time of its header.  `IndInv` is the type invariant, which says
of each request that it was signed with a time that had come, and the four
properties, which need it.

These say what gets through; the last four say that nothing else is kept out.
`UnalteredAccepted` is about the functions: a header and a body as `Sign` made them, read
whole, within the tolerance and of the handler's type, pass.  `OnlyFarRejected`: where a
request is rejected for its time, it is later than the tolerance, or earlier than its
whole seconds, or the clock stands before the epoch.  If `PerSecond` divides the
tolerance, these are the same (`WholeToleranceKept`), and `RejectedIsOutside`
holds.  `DeadOfRejection`: a delivery dies of what is permanent, of the last attempt, or
in the step in which one of its requests was rejected unread.

### CallersProofs and ExampleCallersProofs

Theorems: `CallersPublish`, `CallersTypeCorrect`, `OkPublished`, `AllAccounted`,
`NoneInPart`, `OneCallDuplicate`, `CallersAdvance`, `NobodyWaitsForever`; of the
examples `ExamplesAreCallers` and `ExamplesRunOut`.

`CallersInv` extends the publisher's `IndInv`, which says nothing of who calls, by
`Linked` (where the transaction of a caller is, by the await it is at: a caller at
`commit` has an open transaction, one that is `gone` no statement it awaits),
`AsAsked` (it sent nothing, or exactly what it was asked for, in one statement) and
`Minted` (events of different callers share no minted id, so that an event in the
outbox can be told to be this caller's).  `AllOrNothing` needs the last: without it
half a batch could have been published by someone else.

`OneCallDuplicate` needs `NothingKept`, that a caller told `DuplicateEventId` has nothing
left in its transaction: what it collided with is then in the outbox.

The last two are the step-wise half of `EveryCallerEnds`.  `ToDo(r)` adds the awaits
before a caller, the connection it has to return and what its statement has yet to do;
`CallersAdvance`: it starts at `MaxBatch + 8`, and each step of anybody lessens that of
one caller and leaves that of all others, so that a caller takes finitely many steps
whatever the others do.  `NobodyWaitsForever`: while a caller waits, or one that is gone
holds a connection, some caller is `Ready` or some statement `Movable`.  The two kinds of
waiting could close a circle through each other (a caller holds the connection that
another waits for, and waits itself for an id of the other).  They do not: one
that waits for a connection has no rows that anyone could wait for, and one that holds a
connection is at work, or waits, and `SomeoneMoves` finds one who can move among
those it waits for.

### EventChainProofs

Theorems: `ChainCallsPublisher`, `ChainTypeCorrect`, `RowsSayAsTold`, `TraceLeads`,
`OnlyOnce`, `DoneFollowedUp`, `ChainFulfils`.

`OrderTold`, `BatchTold` and `FollowUpTold` are about the data: columns are what the
builder was told, in both INSERTs and through the envelope.  `ChainInv` then ties the
parts together: `Provenance` (a row is that of an order, with a minted id, or the
follow-up of one, with the id derived from it), `Posted` (requests are made of rows of
orders), `Applied` and `Handled` (what each kind of caller was asked for and sends,
and that a handler told of a duplicate was told of its own derived id and has
nothing left in its transaction).  `FollowedUpOnce` follows from `Provenance` and
`EventIdUnique`.  `DoneIsFollowedUp` is inductive only with `Handled`: a handler that
lost the race succeeds because `DuplicateMeansPublished` finds a row with the derived
id, and `Provenance` says whose row that is, as derived ids differ.

`ChainFulfils` goes by the step: a commit of an application places orders and no
follow-up (`EmitterPlaces`), one of a handler publishes a follow-up of one order that is
there and had none (`HandlerFollowsUp`, from `Provenance` and `FollowedUpOnce` of the
next state), `Respond` closes only what was followed up and nothing twice
(`DeliveryCloses`, from `DoneIsFollowedUp`), and all other steps leave outbox and
closed deliveries alone.

### OutboxPollingProofs

Theorems: `PollTypeCorrect`, `NothingElseDelivered`, `OnlyOvertakenSkipped`,
`DeliveriesInCallOrder`, `PollingIsPublishing`, `OneWriterSkipsNone`.

`PollInv` adds three parts to the properties and the publisher's `IndInv`: `Positive`
(ids start above the first cursor), `Delivered` (rows at the dispatcher's marks have
their deliveries, and deliveries are of rows) and `Overtaking` (whoever has an
uncommitted row has seen each committed row with a greater id become visible: ids are
drawn in increasing order).  The lemmas follow the two kinds of step.  A commit behind a
mark (`PublisherSkipped`): the new row's id differs from that of the row at the mark
(`Distinct`) and is smaller, so by `Overtaking` its transaction saw that row appear.  A
poll (`ScanPollInv`): what lies below the row read, which is the least there is beyond
the mark, was passed before.  It also decides the order of deliveries: if `b` is
delivered and `a`, with a smaller id by `RowsInCallOrder`, is not, then `a` was passed,
and `SkippedIsOvertaken` names the row that overtook it, below the mark and so below `b`.

`OneWriterSkipsNone` has a hypothesis about behaviours: `OneWriter`, at most one
transaction has uncommitted rows, at all times.  Then `meanwhile` stays empty
(`NoneMeanwhile`), neither exception of the two properties can occur, and with
`Committed` `NoRowSkipped` holds, and `InOrder`: deliveries follow the calls.

### DeriveDomainEventProofs

Theorems: `TypeCorrect`, `AcceptsTheDocumented`, `TrueErrors`.

The definition of a right item counts metas and fields at large; the macro sees them
one by one.  `StructRightIs` and `FieldsRightIs` turn the counts into
statements about positions.  The loop invariants are `StructSeen` (the metas before
`i` are right and gave `kind` and `aggregate` their values), `StructDone`,
`FieldsBefore` and `FieldNow` (the fields before `f`, and the attributes of field `f`
before `a`, are right, and the two flags say which mark it) and `FoundAre` (`found` has
the marked fields, once each).  Each error is then shown to be true where the loop
stands, and each acceptance at its end.

### ReleasePipelineProofs

Theorems: `TypeCorrect`, `CompleteRelease`, `ResolvableDependency`, `TagPublishes`,
`NoSecondChance` (an action property), `WorkflowsRunOut`.

`IndInv` adds `Asserted` (past the assertion the manifest has the tag's version, which
no step changes), `InOrder` (a workflow at crate `c` has published those before it,
one that is waiting its own as well) and `ReleasedEnds`.

`WorkflowsRunOut` is the step-wise half of `WorkflowEnds`: `Left(v)`, the steps that
the workflow of `v` can still make, is at most `2 * MaxPolls + 9` (with the 30 polls of
`release.yml`, 69), is 0 exactly where it does not run, and is lessened by each step of it;
only pushing the tag and running failed jobs again add to it.

### Model-checked only

The liveness properties `CallReturns`, `EveryCallerEnds` and `WorkflowEnds`: temporal
reasoning from fairness is beyond this prover, as is ENABLED.  What they rest on in each
state and step is proved: that somebody can go on (`SomeoneMoves`, `NobodyWaitsForever`)
and that what is to be done shrinks (`StatementsShrink`, `CallersAdvance`,
`ExamplesRunOut`, `WorkflowsRunOut`).  `Movable` and `Ready` are the guards of the actions,
spelled out, without the bounds of the model on rows and ids, which the code does not wait
for.  What is left to the runs is that fairness turns the one into the other.

The runs that end with a violation, too, stay with TLC; the theorems named in section 5
say where what the documentation says is true.

## 5. Findings

Each is a run that TLC ends with a violation; `PROJECT.json` quotes the lines.

1. `error.rs` says that with `DuplicateEventId` the id "already exists in the
   outbox".  If the same transaction appended it before, the error rolls that row
   back and the id is in no outbox.  For callers with one call in a transaction,
   as all of the examples are, it is true: `OneCallDuplicate`.
2. The schema calls `id` a monotonically increasing high-water mark for polling.
   Ids are drawn at INSERT and become visible at COMMIT: a reader that passes
   the greatest visible id never sees a smaller one that commits later.
   `SkippedIsOvertaken` says how far it goes: only a transaction that others overtook while
   it had rows loses any, and `OneWriterSkipsNone` that nothing is lost where writers
   take turns.
3. `verify` documents Ok for timestamps within the tolerance, past and future.
   Clock and tolerance are cut to whole seconds, so with a tolerance of a
   fraction of a second, a timestamp within it may be rejected.  `WholeToleranceKept`:
   with one of whole seconds, as the default of 300 (`webhook/mod.rs:101`) is, it is
   true; `OnlyFarRejected` says how far a rejected one is off otherwise.
4. The receiver example reserves 4xx for permanent failures.  The extractor
   answers a body that broke off, or a request that was late, with a 4xx, and
   a good delivery becomes a dead letter, which the schema
   (`0001_initial_schema.sql:106`) reserves for exhausted attempts and invalid callback
   configurations.  `DeadOfRejection`: it is the only way.

## 6. Limits

* PostgreSQL, sqlx, axum, hyper, the HMAC and the dispatcher are not in this
  repository.  They are modelled by what this code relies on, and marked as
  external in `PROJECT.json`.
* Isolation: a statement's uniqueness check sees committed rows and its own, and
  waits for others' (READ COMMITTED, PostgreSQL's default).  Savepoints, NOTIFY and triggers are left out.
* Leases (`locked_until`), back-off, external completion (`completion_cycles`)
  and the admin API are described by the schema only; no code here takes part.
* `signing::verify`, which repeats `verify_decoded` for undecoded headers, `Debug`
  output, error texts and getters have no behaviour of interest.
* The tokens the macro writes, spans and generics are left out; the model ends
  with the three values in them.
* The extractor keeps no state: a request repeated within the tolerance reaches the
  handler again.  `EventChain` shows how the publisher's ids absorb this for a
  handler whose effect is an event; other effects are the handler's own to guard.
* Callbacks of one name twice, and a correlation of orders with each other, are not
  in the chain.
* The jobs of `ci.yml` check the sources and change nothing: they are one step that
  passes or fails.  Yanking a crate and publishing by hand are left out, and with them
  the only ways out of a version that is spent.
* The environment variables, logging and the HTTP server of the examples are left out.

## 7. Plan

1. An abstract specification of delivery (a published event is handled at least
   once), and the composition of publisher, polling and receiver shown to implement
   it up to `SkippedIsOvertaken`; `Fulfilment` is its counterpart for what is published.
2. Liveness of delivery: an event whose attempts are answered is settled.
3. Several dispatchers at a time, once the repository has code that takes part in
   leases.
