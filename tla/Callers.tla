------------------------------- MODULE Callers -------------------------------
(***************************************************************************)
(* How the examples use the publisher: the handler register of             *)
(* axum-handler, many requests of which share a pool of connections, and   *)
(* the program batch-emit.  Each begins a transaction, makes one call of   *)
(* the publisher, commits, and answers: with 200 or 500, with Ok or Err.   *)
(* Each may go away at any await: the client of a request disconnects and  *)
(* the handler's future is dropped, or the program is stopped.             *)
(*                                                                         *)
(* A request, or a run of a program, is known by its transaction.  Which   *)
(* callers there are and what they append is left to the modules that      *)
(* extend this one.                                                        *)
(***************************************************************************)
EXTENDS SqlxPublisher

CONSTANTS
  Emitter,   \* the transactions of programs that have a pool of their own
  PoolSize   \* the connections of the pool that the others share

ASSUME CallersAssumption ==
  /\ Emitter \subseteq Tx
  /\ PoolSize \in Nat \ {0}

VARIABLES
  at,     \* the await at which each caller is, or how it ended
  asked   \* the events it is to append

callerVars == <<at, asked>>

Awaiting == {"begin", "append", "appending", "commit"}

\* An answer of 500 does not tell "no connection", "append failed" and
\* "unsure" apart; the client of a caller that is gone gets no answer.
Outcome == {"ok", "no connection", "append failed", "unsure", "gone"}

\* The connections in use.
Lent == {r \in Tx \ Emitter : Live(r)}

\* A caller builds its events; their contexts name callbacks.
Enter(r, events) ==
  /\ at[r] = "absent"
  /\ Len(events) \in 1..MaxBatch /\ Refusal(events) = "none"
  /\ at' = [at EXCEPT ![r] = "begin"]
  /\ asked' = [asked EXCEPT ![r] = events]
  /\ UNCHANGED vars

\* pool.begin() returns a transaction once a connection is free.
Acquire(r) ==
  /\ at[r] = "begin"
  /\ r \in Emitter \/ Cardinality(Lent) < PoolSize
  /\ Begin(r)
  /\ at' = [at EXCEPT ![r] = "append"]
  /\ UNCHANGED asked

\* It fails: the pool's timeout has passed, or the server cannot be reached.
NoConnection(r) ==
  /\ at[r] = "begin"
  /\ at' = [at EXCEPT ![r] = "no connection"]
  /\ UNCHANGED <<vars, asked>>

\* append(), append_batch() or append_with_id() is called.
CallMinted(r) ==
  /\ at[r] = "append"
  /\ InsertMinted(r, asked[r])
  /\ at' = [at EXCEPT ![r] = "appending"]
  /\ UNCHANGED asked

CallWithId(r, key) ==
  /\ at[r] = "append"
  /\ Insert(r, <<key>>, asked[r])
  /\ at' = [at EXCEPT ![r] = "appending"]
  /\ UNCHANGED asked

\* It returned Ok: commit() is called.
AppendReturns(r) ==
  /\ at[r] = "appending"
  /\ phase[r] = "open"
  /\ at' = [at EXCEPT ![r] = "commit"]
  /\ UNCHANGED <<vars, asked>>

\* Mutant: the error is logged, and the handler goes on to commit.
AppendFails_Ignored(r) ==
  /\ at[r] = "appending"
  /\ faulted[r]
  /\ at' = [at EXCEPT ![r] = "commit"]
  /\ UNCHANGED <<vars, asked>>

\* It returned an error, which the caller returns.
AppendFails(r) ==
  /\ at[r] = "appending"
  /\ faulted[r]
  /\ at' = [at EXCEPT ![r] = "append failed"]
  /\ UNCHANGED <<vars, asked>>

\* commit() returns.
CommitReturns(r) ==
  /\ at[r] = "commit"
  /\ Finish(r)
  /\ at' = [at EXCEPT ![r] = IF told_ok'[r] THEN "ok" ELSE "unsure"]
  /\ UNCHANGED asked

\* The caller is dropped where it awaits: with its statement on the server or
\* over, with its COMMIT applied or not.
GoAway(r) ==
  /\ \/ at[r] = "begin" /\ UNCHANGED vars
     \/ at[r] = "appending" /\ DropFuture(r)
     \/ at[r] = "commit" /\ CommitApplied(r) /\ ~ told_ok'[r]
     \/ at[r] \in {"appending", "commit"} /\ ~ Running(r) /\ UNCHANGED vars
  /\ at' = [at EXCEPT ![r] = "gone"]
  /\ UNCHANGED asked

\* Mutant: only the error path gives its Transaction up.
Release_ErrorOnly(r) ==
  /\ at[r] = "append failed"
  /\ Rollback(r)
  /\ UNCHANGED callerVars

\* The Transaction, dropped with the scope it lived in, rolls back, and its
\* connection returns to the pool.
Release(r) ==
  /\ at[r] \in {"append failed", "gone"}
  /\ Rollback(r)
  /\ UNCHANGED callerVars

\* The server's part.
Serve(r) == (Statement(r) \/ ConnectionLost(r)) /\ UNCHANGED callerVars

\* What a caller does beside being entered and calling the publisher.
Proceed(r) ==
  \/ Acquire(r) \/ NoConnection(r) \/ AppendReturns(r) \/ AppendFails(r)
  \/ CommitReturns(r) \/ GoAway(r) \/ Release(r) \/ Serve(r)

CallersInit ==
  /\ Init
  /\ at = [r \in Tx |-> "absent"]
  /\ asked = [r \in Tx |-> <<>>]

\* Callers of every kind, each making one call.
CallersNext ==
  \E r \in Tx :
    \/ \E events \in Seq(Item) : Enter(r, events)
    \/ CallMinted(r)
    \/ \E key \in Key : Len(asked[r]) = 1 /\ CallWithId(r, key)
    \/ Proceed(r)

CallersSpec == CallersInit /\ [][CallersNext]_<<vars, callerVars>>

-----------------------------------------------------------------------------
(* Properties *)

CallersTypeOK ==
  /\ TypeOK
  /\ at \in [Tx -> {"absent"} \cup Awaiting \cup Outcome]
  /\ asked \in [Tx -> Seq(Item)]

\* A client that is answered 200, or an operator whose batch-emit ended with
\* Ok, has every event of the request in the outbox, as it was asked for.
OkIsPublished ==
  \A r \in Tx : at[r] = "ok" =>
    /\ [i \in DOMAIN sent[r] |-> sent[r][i].item] = asked[r]
    /\ Range(sent[r]) \subseteq Published

\* Each event in the outbox belongs to a caller that was told Ok, that cannot
\* know (its COMMIT was not answered), or that is gone: after a 500 for want
\* of a connection, or for an error of append, nothing was published, and a
\* second try cannot publish twice.
PublishedIsAccounted ==
  \A e \in Published : \E r \in Tx :
    e \in Range(sent[r]) /\ at[r] \in {"ok", "unsure", "gone"}

\* However a caller ends, either all events of its call are in the outbox or
\* none is: no batch is published in part.
AllOrNothing ==
  \A r \in Tx :
    \/ Range(sent[r]) \cap Published = {}
    \/ /\ Range(sent[r]) \subseteq Published
       /\ Len(sent[r]) = Len(asked[r])

=============================================================================
