--------------------------- MODULE ExampleCallers ---------------------------
(* The two examples at work on one outbox: requests to axum-handler's route *)
(* /users/register, and runs of batch-emit.                                 *)
EXTENDS Callers

CONSTANT Order   \* the item of batch-emit's events; the others are emails

ASSUME ExamplesAssumption ==
  /\ Order \in Item
  /\ NoCallbacks \cup Unserializable = {}
  /\ MaxBatch > 0

\* A request arrives with an email, which another request may have had.
Register(r) ==
  /\ r \notin Emitter
  /\ \E email \in Item \ {Order} : Enter(r, <<email>>)

\* batch-emit is started and builds its orders (five of them: MaxBatch here).
Emit(r) ==
  /\ r \in Emitter
  /\ Enter(r, [i \in 1..MaxBatch |-> Order])

ExamplesNext ==
  \E r \in Tx : Register(r) \/ Emit(r) \/ CallMinted(r) \/ Proceed(r)

exampleVars == <<vars, callerVars>>

\* The runtime polls a future that is ready, the server executes what it has
\* been given and answers a COMMIT, and the pool's queue is fair: a waiter that
\* finds a connection free again and again gets one.  The pool's own timeout
\* is not relied on.
ExamplesFairness ==
  \A r \in Tx :
    /\ WF_exampleVars(Statement(r) /\ UNCHANGED callerVars)
    /\ WF_exampleVars(CallMinted(r))
    /\ WF_exampleVars(AppendReturns(r) \/ AppendFails(r))
    /\ WF_exampleVars(CommitReturns(r))
    /\ WF_exampleVars(Release(r))
    /\ SF_exampleVars(Acquire(r))

ExamplesSpec ==
  CallersInit /\ [][ExamplesNext]_exampleVars /\ ExamplesFairness

-----------------------------------------------------------------------------
(* Properties *)

\* Every caller ends, also when there are more requests than connections:
\* those of finished, failed and dropped handlers come back to the pool.
EveryCallerEnds == \A r \in Tx : at[r] \in Awaiting ~> at[r] \in Outcome

=============================================================================
