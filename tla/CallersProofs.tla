---------------------------- MODULE CallersProofs ----------------------------
(***************************************************************************)
(* Theorems about Callers, for any number of callers of any kind and any   *)
(* size of the pool.  A behaviour of the callers is one of the publisher,  *)
(* so the invariant of SqlxPublisherProofs holds of it; what is added is   *)
(* how far each caller is and where its transaction is then.               *)
(***************************************************************************)
EXTENDS Callers, SqlxPublisherProofs

-----------------------------------------------------------------------------
(* The inductive invariant *)

\* Where the transaction of a caller is, by the await the caller is at.
Linked ==
  \A r \in Tx :
    /\ at[r] \in {"absent", "begin", "no connection"} => phase[r] = "new"
    /\ at[r] = "append" => phase[r] = "open"
    /\ at[r] = "appending" =>
         /\ phase[r] \in {"executing", "open", "failed", "aborted"}
         /\ phase[r] = "aborted" => faulted[r]
    /\ at[r] = "commit" => phase[r] = "open"
    /\ at[r] = "ok" => phase[r] = "committed"
    /\ at[r] = "unsure" => phase[r] \in {"committed", "aborted"}
    /\ at[r] = "append failed" => phase[r] \in {"failed", "aborted"}
    /\ at[r] = "gone" => phase[r] # "executing"
    /\ dropped[r] => at[r] = "gone"

\* A caller has sent nothing, or exactly what it was to append.
AsAsked ==
  \A r \in Tx :
    /\ at[r] = "append" => sent[r] = <<>>
    /\ at[r] # "absent" => /\ Len(asked[r]) \in 1..MaxBatch
                           /\ Refusal(asked[r]) = "none"
    /\ Running(r) => settled[r] = 0
    /\ \/ at[r] = "appending" /\ phase[r] \in {"executing", "open"}
       \/ at[r] \in {"commit", "ok"}
       => sent[r] # <<>>
    /\ sent[r] # <<>> =>
         /\ Len(sent[r]) = Len(asked[r])
         /\ \A i \in 1..Len(asked[r]) : sent[r][i].item = asked[r][i]

\* A minted id is used for one event; an id that a caller supplied is that of
\* an event sent alone.
Minted ==
  /\ \A t \in Tx : \A i \in DOMAIN sent[t] :
       \/ sent[t][i].event_id \in 1..mint
       \/ sent[t][i].event_id \in Key /\ Len(sent[t]) = 1
  /\ \A t, u \in Tx : \A i \in DOMAIN sent[t], j \in DOMAIN sent[u] :
       sent[t][i].event_id = sent[u][j].event_id =>
         t = u \/ sent[t][i].event_id \in Key

CallersInv ==
  /\ IndInv
  /\ CallersTypeOK
  /\ Linked
  /\ AsAsked
  /\ Minted

-----------------------------------------------------------------------------
(* The steps *)

\* A step of one transaction leaves the others where they are.
LEMMA OtherTransactions ==
  ASSUME TypeOK, Progress, NEW t \in Tx, Step(t), NEW u \in Tx \ {t}
  PROVE  /\ phase'[u] = phase[u] /\ sent'[u] = sent[u]
         /\ settled'[u] = settled[u]
         /\ faulted'[u] = faulted[u] /\ dropped'[u] = dropped[u]
<1>1. phase'[u] = phase[u] /\ sent'[u] = sent[u] /\ settled'[u] = settled[u]
  BY StepEffect
<1>2. dropped'[u] = dropped[u]
  BY StepCases
     DEF vars, caller, Begin, RefuseFailed, Sends, Execute, InsertRow,
         Complete, Fails, Fail, DropFuture, CommitApplied, Aborts, End,
         ConnectionLost, TypeOK
<1>3. faulted'[u] = faulted[u]
  <2>1. faulted \in [Tx -> BOOLEAN]
    BY DEF TypeOK
  <2>2. CASE Fails(t)
    BY <2>1, <2>2 DEF Fails, Fail
  <2>3. CASE ConnectionLost(t)
    BY <2>1, <2>3 DEF ConnectionLost
  <2>4. CASE \E items \in Seq(Item) : RefuseFailed(t, items)
    BY <2>1, <2>4 DEF RefuseFailed
  <2>5. CASE ~ Fails(t) /\ ~ ConnectionLost(t)
             /\ ~ \E items \in Seq(Item) : RefuseFailed(t, items)
    BY <2>5, StepCases
       DEF vars, caller, Begin, Sends, Execute, InsertRow, Complete,
           DropFuture, CommitApplied, Aborts, End
  <2> QED
    BY <2>2, <2>3, <2>4, <2>5
<1> QED
  BY <1>1, <1>2, <1>3

\* A call of the publisher, as the callers make it: it sends a statement.
Calls(r) ==
  /\ at[r] = "append"
  /\ at' = [at EXCEPT ![r] = "appending"]
  /\ asked' = asked
  /\ \E ids \in [1..Len(asked[r]) -> EventId] :
       /\ Execute(r, ids, asked[r])
       /\ \/ /\ \A i \in 1..Len(asked[r]) : ids[i] = mint + i
             /\ mint' = mint + Len(asked[r])
          \/ /\ Len(asked[r]) = 1 /\ ids[1] \in Key
             /\ mint' = mint

\* The ids are minted for all events of a call, in one step of the publisher.
LEMMA CallMintedCalls ==
  ASSUME CallersInv, NEW r \in Tx, CallMinted(r)
  PROVE  Calls(r) /\ Step(r)
<1>1. /\ at[r] = "append" /\ InsertMinted(r, asked[r])
      /\ at' = [at EXCEPT ![r] = "appending"] /\ asked' = asked
  BY DEF CallMinted
<1>2. /\ phase[r] = "open" /\ Refusal(asked[r]) = "none"
      /\ Len(asked[r]) \in 1..MaxBatch /\ asked[r] \in Seq(Item)
      /\ mint \in Nat
  BY <1>1 DEF CallersInv, IndInv, TypeOK, CallersTypeOK, Linked, AsAsked
<1>3. Step(r)
  <2>1. asked[r] \in [1..Len(asked[r]) -> Item]
    BY <1>2
  <2>2. AppendBatch(r)
    BY <1>1, <1>2, <2>1 DEF AppendBatch
  <2> QED
    BY <2>2 DEF Step, Call
<1> DEFINE ids == [i \in 1..Len(asked[r]) |-> mint + i]
<1>4. Execute(r, ids, asked[r]) /\ mint' = mint + Len(asked[r])
  BY <1>1, <1>2 DEF InsertMinted, Refuse, RefuseFailed
<1>5. /\ ids \in [1..Len(asked[r]) -> EventId]
      /\ \A i \in 1..Len(asked[r]) : ids[i] = mint + i
  BY <1>2 DEF EventId
<1> HIDE DEF ids
<1> QED
  BY <1>1, <1>3, <1>4, <1>5 DEF Calls

\* A call with the caller's id sends the one event it was given.
LEMMA CallWithIdCalls ==
  ASSUME CallersInv, NEW r \in Tx, NEW key \in Key,
         Len(asked[r]) = 1, CallWithId(r, key)
  PROVE  Calls(r) /\ Step(r)
<1>1. /\ at[r] = "append" /\ Insert(r, <<key>>, asked[r])
      /\ at' = [at EXCEPT ![r] = "appending"] /\ asked' = asked
  BY DEF CallWithId
<1>2. /\ phase[r] = "open" /\ Refusal(asked[r]) = "none"
      /\ asked[r] \in Seq(Item)
  BY <1>1 DEF CallersInv, CallersTypeOK, Linked, AsAsked
<1>3. asked[r][1] \in Item /\ asked[r] = <<asked[r][1]>>
  BY <1>2
<1>4. Step(r)
  <2>1. AppendWithId(r)
    BY <1>1, <1>3 DEF AppendWithId
  <2> QED
    BY <2>1 DEF Step, Call
<1>5. Execute(r, <<key>>, asked[r]) /\ mint' = mint
  BY <1>1, <1>2 DEF Insert, Refuse, RefuseFailed
<1>6. <<key>> \in [1..Len(asked[r]) -> EventId] /\ <<key>>[1] = key
  BY DEF EventId
<1> QED
  BY <1>1, <1>4, <1>5, <1>6 DEF Calls

\* The callers ask the publisher for nothing it was not modelled to do.
LEMMA ProceedSteps ==
  ASSUME NEW r \in Tx, Proceed(r)
  PROVE  UNCHANGED vars \/ Step(r)
<1>1. CASE Acquire(r) \/ NoConnection(r) \/ AppendReturns(r) \/ AppendFails(r)
  BY <1>1 DEF Acquire, NoConnection, AppendReturns, AppendFails, Step
<1>2. CASE CommitReturns(r) \/ Release(r) \/ Serve(r)
  BY <1>2 DEF CommitReturns, Release, Serve, Finish, Step
<1>3. CASE GoAway(r)
  BY <1>3 DEF GoAway, Finish, Commit, Step
<1> QED
  BY <1>1, <1>2, <1>3 DEF Proceed

\* What any step of a caller leaves alone: the other callers.
LEMMA OtherCallers ==
  ASSUME CallersTypeOK, NEW r \in Tx,
         \/ \E events \in Seq(Item) : Enter(r, events)
         \/ Calls(r)
         \/ Proceed(r)
  PROVE  /\ CallersTypeOK' \/ ~ TypeOK'
         /\ \A u \in Tx \ {r} : at'[u] = at[u] /\ asked'[u] = asked[u]
<1>1. /\ at \in [Tx -> {"absent"} \cup Awaiting \cup Outcome]
      /\ asked \in [Tx -> Seq(Item)]
  BY DEF CallersTypeOK
<1>2. asked' \in [Tx -> Seq(Item)] /\ \A u \in Tx \ {r} : asked'[u] = asked[u]
  BY <1>1 DEF Enter, Calls, Proceed, Acquire, NoConnection, AppendReturns,
     AppendFails, CommitReturns, GoAway, Release, Serve, callerVars
<1>3. \E next \in Awaiting \cup Outcome :
        at' = [at EXCEPT ![r] = next] \/ at' = at
  <2> USE DEF Awaiting, Outcome
  <2>1. CASE \E events \in Seq(Item) : Enter(r, events)
    BY <2>1 DEF Enter
  <2>2. CASE Calls(r)
    BY <2>2 DEF Calls
  <2>3. CASE \/ Acquire(r) \/ NoConnection(r) \/ AppendReturns(r)
             \/ AppendFails(r) \/ GoAway(r)
    BY <2>3 DEF Acquire, NoConnection, AppendReturns, AppendFails, GoAway
  <2>4. CASE CommitReturns(r)
    BY <2>4 DEF CommitReturns
  <2>5. CASE Release(r) \/ Serve(r)
    BY <2>5 DEF Release, Serve, callerVars
  <2> QED
    BY <2>1, <2>2, <2>3, <2>4, <2>5 DEF Proceed
<1> QED
  BY <1>1, <1>2, <1>3 DEF CallersTypeOK

\* What the server may do to the transaction of a caller: insert a row,
\* complete the statement, or fail it and undo what it sent.
LEMMA ServeEffect ==
  ASSUME CallersInv, NEW r \in Tx, Statement(r) \/ ConnectionLost(r)
  PROVE  /\ Running(r) /\ mint' = mint /\ dropped' = dropped
         /\ \/ sent' = sent /\ phase' = phase /\ settled' = settled
            \/ sent' = sent /\ phase'[r] = "open"
            \/ /\ sent'[r] = <<>> /\ phase'[r] \in {"failed", "aborted"}
               /\ phase[r] = "executing" => faulted'[r]
<1>1. /\ phase \in [Tx -> Phase] /\ faulted \in [Tx -> BOOLEAN]
      /\ TypeOK /\ Progress
      /\ Running(r) => settled[r] = 0
  BY DEF CallersInv, IndInv, TypeOK, AsAsked
<1>2. Step(r)
  BY DEF Step
<1>3. Running(r) /\ mint' = mint /\ dropped' = dropped
  <2>1. CASE InsertRow(r)
    BY <2>1 DEF InsertRow, InFlight, caller
  <2>2. CASE Complete(r)
    BY <2>2 DEF Complete
  <2>3. CASE BadParameter(r) \/ UniqueViolation(r)
    BY <2>3 DEF BadParameter, UniqueViolation, Fail, InFlight
  <2>4. CASE DeadlockAbort(r)
    <3>1. InFlight(r)
      BY <2>4 DEF DeadlockAbort, Deadlocked, Holders
    <3> QED
      BY <2>4, <3>1 DEF DeadlockAbort, Fail, InFlight
  <2>5. CASE ConnectionLost(r)
    BY <2>5 DEF ConnectionLost
  <2> QED
    BY <2>1, <2>2, <2>3, <2>4, <2>5 DEF Statement
<1>4. sent' = [sent EXCEPT ![r] = SubSeq(sent[r], 1, settled[r])]
        => sent'[r] = <<>>
  <2> HAVE sent' = [sent EXCEPT ![r] = SubSeq(sent[r], 1, settled[r])]
  <2>1. sent' \in [Tx -> Seq(Event)] /\ Len(sent'[r]) = 0
    BY <1>1, <1>3, SentSettled
  <2>2. sent'[r] \in Seq(Event)
    BY <2>1
  <2> QED
    BY <2>1, <2>2
<1>5. CASE InsertRow(r)
  BY <1>3, <1>5 DEF InsertRow
<1>6. CASE Complete(r)
  BY <1>1, <1>3, <1>6 DEF Complete
<1>7. CASE BadParameter(r) \/ UniqueViolation(r) \/ DeadlockAbort(r)
  <2>1. PICK sqlstate \in {"22P05", "23505", "40P01"} : Fail(r, sqlstate)
    BY <1>7 DEF BadParameter, UniqueViolation, DeadlockAbort
  <2>2. phase'[r] = "failed" /\ sent'[r] = <<>>
    BY <1>1, <1>4, <2>1 DEF Fail
  <2>3. phase[r] = "executing" => faulted'[r]
    BY <1>1, <2>1 DEF Fail
  <2> QED
    BY <1>3, <2>2, <2>3
<1>8. CASE ConnectionLost(r)
  <2>1. phase'[r] = "aborted" /\ sent'[r] = <<>>
    BY <1>1, <1>4, <1>8 DEF ConnectionLost
  <2>2. phase[r] = "executing" => faulted'[r]
    BY <1>1, <1>8 DEF ConnectionLost
  <2> QED
    BY <1>3, <2>1, <2>2
<1> QED
  BY <1>5, <1>6, <1>7, <1>8 DEF Statement

\* What a caller's own step, beside entering and calling, may do.
LEMMA OwnEffect ==
  ASSUME CallersInv, NEW r \in Tx, Proceed(r), ~ Serve(r)
  PROVE  /\ mint' = mint /\ settled' = settled /\ asked' = asked
         /\ at'[r] = "gone" \/ (sent'[r] = sent[r] /\ dropped' = dropped)
         /\ sent'[r] = sent[r] \/ sent'[r] = <<>>
         /\ phase'[r] \in {"executing", "detached"} =>
              phase[r] \in {"executing", "detached"}
         /\ \/ Acquire(r)
            \/ /\ at[r] = "begin" /\ UNCHANGED vars
               /\ at'[r] \in {"no connection", "gone"}
            \/ AppendReturns(r)
            \/ AppendFails(r)
            \/ /\ at[r] = "commit"
               /\ \/ at'[r] = "ok" /\ phase'[r] = "committed"
                  \/ at'[r] = "unsure" /\ phase'[r] \in {"committed", "aborted"}
            \/ at'[r] = "gone" /\ phase'[r] # "executing"
            \/ /\ at[r] = "append failed" /\ at'[r] = at[r]
               /\ phase'[r] = "aborted"
<1>1. /\ phase \in [Tx -> Phase] /\ told_ok \in [Tx -> BOOLEAN]
      /\ at \in [Tx -> {"absent"} \cup Awaiting \cup Outcome]
      /\ TypeOK /\ Progress
      /\ Running(r) => settled[r] = 0
  BY DEF CallersInv, IndInv, TypeOK, CallersTypeOK, AsAsked
<1>2. CASE Acquire(r)
  BY <1>1, <1>2 DEF Acquire, Begin, caller
<1>3. CASE NoConnection(r) \/ AppendReturns(r) \/ AppendFails(r)
  <2>1. UNCHANGED vars /\ asked' = asked
    BY <1>3 DEF NoConnection, AppendReturns, AppendFails
  <2>2. UNCHANGED <<mint, settled, sent, phase, dropped>>
    BY <2>1 DEF vars, caller
  <2>3. \/ AppendReturns(r) \/ AppendFails(r)
        \/ at[r] = "begin" /\ at'[r] = "no connection"
    BY <1>1, <1>3 DEF NoConnection
  <2> QED
    BY <2>1, <2>2, <2>3
<1>4. CASE CommitReturns(r)
  <2>1. /\ at[r] = "commit" /\ Finish(r) /\ asked' = asked
        /\ at'[r] = IF told_ok'[r] THEN "ok" ELSE "unsure"
    BY <1>1, <1>4 DEF CommitReturns
  <2>2. ~ CommitFailed(r)
    BY <2>1 DEF CommitFailed, CallersInv, Linked
  <2>3. CASE CommitApplied(r)
    <3>1. phase'[r] = "committed"
          /\ UNCHANGED <<mint, settled, sent, dropped>>
      BY <1>1, <2>3 DEF CommitApplied, End
    <3> QED
      BY <2>1, <3>1
  <2>4. CASE Rollback(r)
    <3>1. phase'[r] = "aborted"
          /\ UNCHANGED <<mint, settled, sent, dropped>>
      BY <1>1, <2>4 DEF Rollback, End
    <3>2. ~ told_ok'[r]
      BY <1>1, <2>4 DEF Rollback, End
    <3> QED
      BY <2>1, <3>1, <3>2
  <2> QED
    BY <2>1, <2>2, <2>3, <2>4 DEF Finish, Commit
<1>5. CASE Release(r)
  <2>1. /\ at' = at /\ asked' = asked /\ phase'[r] = "aborted"
        /\ at[r] \in {"append failed", "gone"}
        /\ UNCHANGED <<mint, settled, sent, dropped>>
    BY <1>1, <1>5 DEF Release, Rollback, End, callerVars
  <2> QED
    BY <2>1
<1>6. CASE GoAway(r)
  <2>1. at'[r] = "gone" /\ asked' = asked
    BY <1>1, <1>6 DEF GoAway
  <2>2. CASE at[r] = "begin" /\ UNCHANGED vars
    BY <2>1, <2>2 DEF vars
  <2>3. CASE at[r] \in {"appending", "commit"} /\ ~ Running(r) /\ UNCHANGED vars
    BY <2>1, <2>3 DEF vars, Running
  <2>4. CASE CommitApplied(r)
    <3>1. phase'[r] = "committed" /\ UNCHANGED <<mint, settled, sent>>
      BY <1>1, <2>4 DEF CommitApplied, End
    <3> QED
      BY <2>1, <3>1
  <2>5. CASE DropFuture(r)
    <3>1. phase[r] = "executing" /\ UNCHANGED <<mint, settled>>
      BY <2>5 DEF DropFuture
    <3>2. phase'[r] \in {"detached", "open"}
      BY <1>1, <2>5 DEF DropFuture
    <3>3. sent'[r] = sent[r] \/ sent'[r] = <<>>
      <4>1. \/ sent' = sent
            \/ sent' = [sent EXCEPT ![r] = SubSeq(sent[r], 1, settled[r])]
        BY <2>5 DEF DropFuture
      <4>2. CASE sent' = [sent EXCEPT ![r] = SubSeq(sent[r], 1, settled[r])]
        <5>1. sent' \in [Tx -> Seq(Event)] /\ Len(sent'[r]) = 0
          BY <1>1, <3>1, <4>2, SentSettled DEF Running
        <5>2. sent'[r] \in Seq(Event)
          BY <5>1
        <5> QED
          BY <5>1, <5>2
      <4> QED
        BY <4>1, <4>2
    <3> QED
      BY <2>1, <3>1, <3>2, <3>3
  <2> QED
    BY <1>6, <2>2, <2>3, <2>4, <2>5 DEF GoAway
<1> QED
  BY <1>2, <1>3, <1>4, <1>5, <1>6 DEF Proceed

\* A caller's transaction keeps up with the caller.
LEMMA StepLinked ==
  ASSUME CallersInv, NEW r \in Tx,
         \/ \E events \in Seq(Item) : Enter(r, events)
         \/ Calls(r) /\ Step(r)
         \/ Proceed(r)
  PROVE  Linked'
<1> DEFINE LinkedAt(u) ==
    /\ at[u] \in {"absent", "begin", "no connection"} => phase[u] = "new"
    /\ at[u] = "append" => phase[u] = "open"
    /\ at[u] = "appending" =>
         /\ phase[u] \in {"executing", "open", "failed", "aborted"}
         /\ phase[u] = "aborted" => faulted[u]
    /\ at[u] = "commit" => phase[u] = "open"
    /\ at[u] = "ok" => phase[u] = "committed"
    /\ at[u] = "unsure" => phase[u] \in {"committed", "aborted"}
    /\ at[u] = "append failed" => phase[u] \in {"failed", "aborted"}
    /\ at[u] = "gone" => phase[u] # "executing"
    /\ dropped[u] => at[u] = "gone"
<1>1. /\ TypeOK /\ Progress /\ Informed
      /\ phase \in [Tx -> Phase]
      /\ at \in [Tx -> {"absent"} \cup Awaiting \cup Outcome]
      /\ \A u \in Tx : LinkedAt(u)
  BY DEF CallersInv, IndInv, TypeOK, CallersTypeOK, Linked
<1>2. UNCHANGED vars \/ Step(r)
  BY ProceedSteps DEF Enter
<1>3. ASSUME NEW u \in Tx \ {r}
      PROVE  LinkedAt(u)'
  <2>1. at'[u] = at[u]
    BY OtherCallers DEF CallersInv
  <2>2. phase'[u] = phase[u] /\ faulted'[u] = faulted[u]
          /\ dropped'[u] = dropped[u]
    BY <1>1, <1>2, OtherTransactions DEF vars, caller
  <2> QED
    BY <1>1, <2>1, <2>2
<1>4. LinkedAt(r)'
  <2>1. LinkedAt(r)
    BY <1>1
  <2>2. CASE \E events \in Seq(Item) : Enter(r, events)
    <3>1. /\ at[r] = "absent" /\ at'[r] = "begin"
          /\ phase' = phase /\ dropped' = dropped
      BY <1>1, <2>2 DEF Enter, vars, caller
    <3> QED
      BY <2>1, <3>1
  <2>3. CASE Calls(r)
    <3>1. /\ at[r] = "append" /\ at'[r] = "appending"
          /\ phase'[r] = "executing" /\ dropped' = dropped
      BY <1>1, <2>3 DEF Calls, Execute, caller
    <3> QED
      BY <2>1, <3>1
  <2>4. CASE Serve(r)
    <3>1. at' = at /\ dropped' = dropped
      BY <2>4, ServeEffect DEF Serve, callerVars
    <3>2. phase[r] \in {"executing", "detached"}
      BY <2>4, ServeEffect DEF Serve, Running
    <3>3. at[r] = "gone" \/ (at[r] = "appending" /\ phase[r] = "executing")
      <4>1. phase[r] = "detached" => at[r] = "gone"
        BY <1>1, <2>1 DEF Informed
      <4>2. at[r] \in {"absent"} \cup Awaiting \cup Outcome
        BY <1>1
      <4> QED
        BY <2>1, <3>2, <4>1, <4>2 DEF Awaiting, Outcome
    <3>4. \/ phase'[r] = phase[r]
          \/ phase'[r] = "open"
          \/ /\ phase'[r] \in {"failed", "aborted"}
             /\ phase[r] = "executing" => faulted'[r]
      BY <2>4, ServeEffect DEF Serve
    <3> QED
      BY <2>1, <3>1, <3>3, <3>4
  <2>5. CASE Proceed(r) /\ ~ Serve(r)
    <3>1. at'[r] = "gone" \/ dropped' = dropped
      BY <2>5, OwnEffect
    <3>2. CASE Acquire(r)
      BY <1>1, <2>1, <3>1, <3>2 DEF Acquire, Begin
    <3>3. CASE AppendReturns(r)
      BY <1>1, <2>1, <3>1, <3>3 DEF AppendReturns, vars
    <3>4. CASE AppendFails(r)
      <4>1. phase' = phase /\ phase[r] \in {"failed", "aborted"}
        BY <1>1, <3>4 DEF AppendFails, vars, Informed
      <4>2. at'[r] = "append failed" /\ at[r] = "appending"
        BY <1>1, <3>4 DEF AppendFails
      <4> QED
        BY <2>1, <3>1, <4>1, <4>2
    <3>5. CASE ~ Acquire(r) /\ ~ AppendReturns(r) /\ ~ AppendFails(r)
      <4>1. \/ /\ at[r] = "begin" /\ UNCHANGED vars
               /\ at'[r] \in {"no connection", "gone"}
            \/ /\ at[r] = "commit"
               /\ \/ at'[r] = "ok" /\ phase'[r] = "committed"
                  \/ at'[r] = "unsure" /\ phase'[r] \in {"committed", "aborted"}
            \/ at'[r] = "gone" /\ phase'[r] # "executing"
            \/ /\ at[r] = "append failed" /\ at'[r] = at[r]
               /\ phase'[r] = "aborted"
        BY <2>5, <3>5, OwnEffect
      <4>2. UNCHANGED vars => phase' = phase
        BY DEF vars
      <4> QED
        BY <2>1, <3>1, <4>1, <4>2
    <3> QED
      BY <3>2, <3>3, <3>4, <3>5
  <2> QED
    BY <2>2, <2>3, <2>4, <2>5
<1> QED
  BY <1>3, <1>4 DEF Linked

\* What a caller has sent stays what it was asked to append.
LEMMA StepAsAsked ==
  ASSUME CallersInv, NEW r \in Tx,
         \/ \E events \in Seq(Item) : Enter(r, events)
         \/ Calls(r) /\ Step(r)
         \/ Proceed(r)
  PROVE  AsAsked'
<1> DEFINE Matches(u) == /\ Len(sent[u]) = Len(asked[u])
                         /\ \A i \in 1..Len(asked[u]) :
                              sent[u][i].item = asked[u][i]
           AskedAt(u) ==
             /\ at[u] = "append" => sent[u] = <<>>
             /\ at[u] # "absent" => /\ Len(asked[u]) \in 1..MaxBatch
                                    /\ Refusal(asked[u]) = "none"
             /\ Running(u) => settled[u] = 0
             /\ \/ at[u] = "appending" /\ phase[u] \in {"executing", "open"}
                \/ at[u] \in {"commit", "ok"}
                => sent[u] # <<>>
             /\ sent[u] # <<>> => Matches(u)
<1>1. /\ TypeOK /\ Progress /\ Informed /\ Linked
      /\ phase \in [Tx -> Phase]
      /\ asked \in [Tx -> Seq(Item)]
      /\ at \in [Tx -> {"absent"} \cup Awaiting \cup Outcome]
      /\ \A u \in Tx : AskedAt(u)
  BY DEF CallersInv, IndInv, TypeOK, CallersTypeOK, AsAsked
<1>2. UNCHANGED vars \/ Step(r)
  BY ProceedSteps DEF Enter
<1>3. ASSUME NEW u \in Tx \ {r}
      PROVE  AskedAt(u)'
  <2>1. at'[u] = at[u] /\ asked'[u] = asked[u]
    BY OtherCallers DEF CallersInv
  <2>2. phase'[u] = phase[u] /\ sent'[u] = sent[u] /\ settled'[u] = settled[u]
    BY <1>1, <1>2, OtherTransactions DEF vars
  <2>3. Refusal(asked[u])' = Refusal(asked[u])
    BY <2>1 DEF Refusal
  <2> QED
    BY <1>1, <2>1, <2>2, <2>3 DEF Running
<1>4. AskedAt(r)'
  <2>1. AskedAt(r)
    BY <1>1
  <2>2. CASE \E events \in Seq(Item) : Enter(r, events)
    <3>1. PICK events \in Seq(Item) : Enter(r, events)
      BY <2>2
    <3>2. /\ at[r] = "absent" /\ at'[r] = "begin" /\ asked'[r] = events
          /\ UNCHANGED <<phase, sent, settled>>
      BY <1>1, <3>1 DEF Enter, vars
    <3>3. sent'[r] = <<>>
      BY <1>1, <3>2 DEF Linked, Progress
    <3>4. Len(events) \in 1..MaxBatch /\ Refusal(events) = "none"
      BY <3>1 DEF Enter
    <3>5. Refusal(asked[r])' = "none"
      BY <3>2, <3>4 DEF Refusal
    <3> QED
      BY <2>1, <3>2, <3>3, <3>4, <3>5 DEF Running
  <2>3. CASE Calls(r)
    <3>1. /\ at[r] = "append" /\ at'[r] = "appending" /\ asked' = asked
          /\ settled' = settled
          /\ phase[r] = "open"
      BY <1>1, <2>3 DEF Calls, Execute, caller
    <3>2. PICK ids \in [1..Len(asked[r]) -> EventId] : Execute(r, ids, asked[r])
      BY <2>3 DEF Calls
    <3>3. sent[r] = <<>> /\ asked[r] \in Seq(Item) /\ Len(sent[r]) = 0
      BY <1>1, <2>1, <3>1
    <3>4. /\ Len(sent'[r]) = Len(asked[r])
          /\ \A i \in 1..Len(asked[r]) : sent'[r][i].item = asked[r][i]
      <4>1. TypeOK /\ asked[r] \in Seq(Item) /\ Len(asked[r]) \in Nat
        BY <1>1
      <4>2. /\ Len(sent'[r]) = Len(sent[r]) + Len(asked[r])
            /\ \A i \in Len(sent[r]) + 1 .. Len(sent[r]) + Len(asked[r]) :
                 sent'[r][i] = [event_id |-> ids[i - Len(sent[r])],
                                item |-> asked[r][i - Len(sent[r])]]
        BY <3>2, <4>1, ExecuteSends
      <4> SUFFICES ASSUME NEW i \in 1..Len(asked[r])
                   PROVE  /\ Len(sent'[r]) = Len(asked[r])
                          /\ sent'[r][i].item = asked[r][i]
        BY <2>1, <3>1, <3>3, <4>1, <4>2
      <4>3. /\ i \in Len(sent[r]) + 1 .. Len(sent[r]) + Len(asked[r])
            /\ i - Len(sent[r]) = i
        BY <3>3, <4>1
      <4>4. sent'[r][i] = [event_id |-> ids[i], item |-> asked[r][i]]
        BY <4>2, <4>3
      <4> QED
        BY <3>3, <4>1, <4>2, <4>4
    <3>5. sent'[r] # <<>>
      <4>1. Len(asked[r]) > 0
        BY <2>1, <3>1, ConstantsAssumption
      <4> QED
        BY <3>4, <4>1
    <3>6. settled'[r] = 0
      BY <1>1, <3>1, <3>3 DEF Progress, Running
    <3>7. Refusal(asked[r])' = Refusal(asked[r])
      BY <3>1 DEF Refusal
    <3> QED
      BY <2>1, <3>1, <3>4, <3>5, <3>6, <3>7
  <2>4. CASE Serve(r)
    <3>1. at' = at /\ asked' = asked
      BY <2>4 DEF Serve, callerVars
    <3>2. Refusal(asked[r])' = Refusal(asked[r])
      BY <3>1 DEF Refusal
    <3>3. /\ Running(r)
          /\ \/ sent' = sent /\ phase' = phase /\ settled' = settled
             \/ sent' = sent /\ phase'[r] = "open"
             \/ /\ sent'[r] = <<>> /\ phase'[r] \in {"failed", "aborted"}
      BY <2>4, ServeEffect DEF Serve
    <3>4. \/ at[r] = "appending" /\ phase[r] = "executing"
          \/ at[r] = "gone"
      BY <1>1, <3>3 DEF Linked, Running, Informed, Awaiting, Outcome
    <3> QED
      BY <2>1, <3>1, <3>2, <3>3, <3>4 DEF Running
  <2>5. CASE Proceed(r) /\ ~ Serve(r)
    <3>1. /\ settled' = settled /\ asked' = asked
          /\ at'[r] = "gone" \/ sent'[r] = sent[r]
          /\ sent'[r] = sent[r] \/ sent'[r] = <<>>
          /\ phase'[r] \in {"executing", "detached"} =>
               phase[r] \in {"executing", "detached"}
      BY <2>5, OwnEffect
    <3>2. Refusal(asked[r])' = Refusal(asked[r])
      BY <3>1 DEF Refusal
    <3>3. /\ at[r] # "absent"
          /\ at'[r] = "append" => sent[r] = <<>>
          /\ at'[r] # "appending"
          /\ at'[r] \in {"commit", "ok"} => sent[r] # <<>>
      <4>1. CASE Acquire(r)
        BY <1>1, <4>1 DEF Acquire, Linked, Progress
      <4>2. CASE AppendReturns(r) \/ AppendFails(r)
        BY <1>1, <2>1, <4>2 DEF AppendReturns, AppendFails
      <4>3. CASE ~ Acquire(r) /\ ~ AppendReturns(r) /\ ~ AppendFails(r)
        <5>1. \/ at[r] = "begin" /\ at'[r] \in {"no connection", "gone"}
              \/ at[r] = "commit" /\ at'[r] \in {"ok", "unsure"}
              \/ at'[r] = "gone"
              \/ at[r] = "append failed" /\ at'[r] = at[r]
          BY <2>5, <4>3, OwnEffect
        <5>2. at[r] # "absent"
          BY <2>5, <4>3
             DEF Proceed, Serve, NoConnection, CommitReturns, GoAway, Release
        <5> QED
          BY <2>1, <5>1, <5>2
      <4> QED
        BY <4>1, <4>2, <4>3
    <3> QED
      BY <2>1, <3>1, <3>2, <3>3 DEF Running
  <2> QED
    BY <2>2, <2>3, <2>4, <2>5
<1> QED
  BY <1>3, <1>4 DEF AsAsked

\* The events a call sends: its ids are fresh, or it is one event alone.
LEMMA CallsSends ==
  ASSUME CallersInv, NEW r \in Tx, Calls(r)
  PROVE  /\ \A i \in DOMAIN sent'[r] :
              \/ /\ sent'[r][i].event_id \in mint + 1 .. mint'
              \/ /\ sent'[r][i].event_id \in Key /\ Len(sent'[r]) = 1
         /\ mint \in Nat /\ mint' \in Nat /\ mint <= mint'
<1>1. /\ TypeOK /\ sent[r] = <<>> /\ asked[r] \in Seq(Item)
      /\ Len(sent[r]) = 0 /\ Len(asked[r]) \in Nat /\ mint \in Nat
  BY DEF CallersInv, IndInv, TypeOK, CallersTypeOK, AsAsked, Calls
<1>2. PICK ids \in [1..Len(asked[r]) -> EventId] :
        /\ Execute(r, ids, asked[r])
        /\ \/ /\ \A i \in 1..Len(asked[r]) : ids[i] = mint + i
              /\ mint' = mint + Len(asked[r])
           \/ /\ Len(asked[r]) = 1 /\ ids[1] \in Key
              /\ mint' = mint
  BY DEF Calls
<1>3. /\ sent' \in [Tx -> Seq(Event)]
      /\ Len(sent'[r]) = Len(sent[r]) + Len(asked[r])
      /\ \A i \in Len(sent[r]) + 1 .. Len(sent[r]) + Len(asked[r]) :
           sent'[r][i] = [event_id |-> ids[i - Len(sent[r])],
                          item |-> asked[r][i - Len(sent[r])]]
  BY <1>1, <1>2, ExecuteSends
<1>4. Len(sent'[r]) = Len(asked[r]) /\ DOMAIN sent'[r] = 1..Len(asked[r])
  BY <1>1, <1>3
<1>5. \A i \in 1..Len(asked[r]) : sent'[r][i].event_id = ids[i]
  <2> TAKE i \in 1..Len(asked[r])
  <2>1. /\ i \in Len(sent[r]) + 1 .. Len(sent[r]) + Len(asked[r])
        /\ i - Len(sent[r]) = i
    BY <1>1
  <2>2. sent'[r][i] = [event_id |-> ids[i - Len(sent[r])],
                       item |-> asked[r][i - Len(sent[r])]]
    BY <1>3, <2>1
  <2> QED
    BY <2>1, <2>2
<1> QED
  BY <1>1, <1>2, <1>4, <1>5

\* The ids of the events the other callers sent do not reach beyond the mint.
LEMMA StepMinted ==
  ASSUME CallersInv, NEW r \in Tx,
         \/ \E events \in Seq(Item) : Enter(r, events)
         \/ Calls(r) /\ Step(r)
         \/ Proceed(r)
  PROVE  Minted'
<1>1. TypeOK /\ Progress /\ Minted /\ mint \in Nat
  BY DEF CallersInv, IndInv, TypeOK
<1>2. \A u \in Tx \ {r} : sent'[u] = sent[u]
  <2>1. UNCHANGED vars \/ Step(r)
    BY ProceedSteps DEF Enter
  <2> QED
    BY <1>1, <2>1, OtherTransactions DEF vars
<1>3. CASE Calls(r)
  <2>1. /\ \A i \in DOMAIN sent'[r] :
             \/ /\ sent'[r][i].event_id \in mint + 1 .. mint'
             \/ /\ sent'[r][i].event_id \in Key /\ Len(sent'[r]) = 1
        /\ mint' \in Nat /\ mint <= mint'
    BY <1>3, CallsSends
  <2>2. \A t \in Tx : \A i \in DOMAIN sent'[t] :
          \/ sent'[t][i].event_id \in 1..mint'
          \/ sent'[t][i].event_id \in Key /\ Len(sent'[t]) = 1
    <3> TAKE t \in Tx
    <3>1. CASE t = r
      BY <1>1, <2>1, <3>1
    <3>2. CASE t # r
      BY <1>1, <1>2, <2>1, <3>2 DEF Minted
    <3> QED
      BY <3>1, <3>2
  <2>3. \A t \in Tx \ {r} : \A i \in DOMAIN sent'[t], j \in DOMAIN sent'[r] :
          sent'[t][i].event_id = sent'[r][j].event_id =>
            sent'[t][i].event_id \in Key
    <3> TAKE t \in Tx \ {r}
    <3> TAKE i \in DOMAIN sent'[t], j \in DOMAIN sent'[r]
    <3> HAVE sent'[t][i].event_id = sent'[r][j].event_id
    <3>1. sent'[t][i].event_id \in 1..mint \/ sent'[t][i].event_id \in Key
      BY <1>1, <1>2 DEF Minted
    <3>2. \/ sent'[r][j].event_id \in mint + 1 .. mint'
          \/ sent'[r][j].event_id \in Key
      BY <2>1
    <3> QED
      BY <1>1, <2>1, <3>1, <3>2
  <2>4. \A t, u \in Tx \ {r} : \A i \in DOMAIN sent'[t], j \in DOMAIN sent'[u] :
          sent'[t][i].event_id = sent'[u][j].event_id =>
            t = u \/ sent'[t][i].event_id \in Key
    BY <1>1, <1>2 DEF Minted
  <2> QED
    BY <2>2, <2>3, <2>4 DEF Minted
<1>4. CASE ~ Calls(r)
  <2>1. mint' = mint /\ (sent'[r] = sent[r] \/ sent'[r] = <<>>)
    <3>1. CASE \E events \in Seq(Item) : Enter(r, events)
      BY <3>1 DEF Enter, vars
    <3>2. CASE Serve(r)
      BY <3>2, ServeEffect DEF Serve
    <3>3. CASE Proceed(r) /\ ~ Serve(r)
      BY <3>3, OwnEffect
    <3> QED
      BY <1>4, <3>1, <3>2, <3>3
  <2>2. \A t \in Tx : sent'[t] = sent[t] \/ sent'[t] = <<>>
    BY <1>2, <2>1
  <2>3. \A t \in Tx : \A i \in DOMAIN sent'[t] :
          i \in DOMAIN sent[t] /\ sent'[t] = sent[t]
    BY <2>2
  <2>4. \A t \in Tx : \A i \in DOMAIN sent'[t] :
          \/ sent'[t][i].event_id \in 1..mint'
          \/ sent'[t][i].event_id \in Key /\ Len(sent'[t]) = 1
    BY <1>1, <2>1, <2>3 DEF Minted
  <2>5. \A t, u \in Tx : \A i \in DOMAIN sent'[t], j \in DOMAIN sent'[u] :
          sent'[t][i].event_id = sent'[u][j].event_id =>
            t = u \/ sent'[t][i].event_id \in Key
    BY <1>1, <2>3 DEF Minted
  <2> QED
    BY <2>4, <2>5 DEF Minted
<1> QED
  BY <1>3, <1>4

-----------------------------------------------------------------------------
(* The invariant, and what follows from it *)

\* Nobody has arrived at the start.
LEMMA InitCallersInv == CallersInit => CallersInv
<1> SUFFICES ASSUME CallersInit PROVE CallersInv
  OBVIOUS
<1>1. IndInv /\ TypeOK
  BY InitIndInv DEF CallersInit, IndInv
<1>2. \A r \in Tx : /\ phase[r] = "new" /\ sent[r] = <<>> /\ ~ dropped[r]
                    /\ at[r] = "absent"
  BY DEF CallersInit, Init
<1>3. CallersTypeOK /\ Linked
  BY <1>1, <1>2 DEF CallersInit, CallersTypeOK, Linked
<1>4. AsAsked
  BY <1>2 DEF AsAsked, Running
<1>5. Minted
  BY <1>2 DEF Minted
<1> QED
  BY <1>1, <1>3, <1>4, <1>5 DEF CallersInv

\* A step of the callers is a step of the publisher, or leaves it alone.
LEMMA CallersNextSteps ==
  ASSUME CallersInv, CallersNext
  PROVE  \E r \in Tx : /\ \/ \E events \in Seq(Item) : Enter(r, events)
                          \/ Calls(r) /\ Step(r)
                          \/ Proceed(r)
                       /\ UNCHANGED vars \/ Step(r)
<1>1. PICK r \in Tx : \/ \E events \in Seq(Item) : Enter(r, events)
                      \/ CallMinted(r)
                      \/ \E key \in Key :
                           Len(asked[r]) = 1 /\ CallWithId(r, key)
                      \/ Proceed(r)
  BY DEF CallersNext
<1>2. CallMinted(r) => Calls(r) /\ Step(r)
  BY CallMintedCalls
<1>3. (\E key \in Key : Len(asked[r]) = 1 /\ CallWithId(r, key))
        => Calls(r) /\ Step(r)
  BY CallWithIdCalls
<1>4. (\E events \in Seq(Item) : Enter(r, events)) => UNCHANGED vars
  BY DEF Enter
<1> QED
  BY <1>1, <1>2, <1>3, <1>4, ProceedSteps

\* Every step of the callers keeps the invariant.
LEMMA NextCallersInv ==
  CallersInv /\ [CallersNext]_<<vars, callerVars>> => CallersInv'
<1> SUFFICES ASSUME CallersInv, [CallersNext]_<<vars, callerVars>>
             PROVE  CallersInv'
  OBVIOUS
<1>1. CASE CallersNext
  <2>1. PICK r \in Tx : /\ \/ \E events \in Seq(Item) : Enter(r, events)
                           \/ Calls(r) /\ Step(r)
                           \/ Proceed(r)
                        /\ UNCHANGED vars \/ Step(r)
    BY <1>1, CallersNextSteps
  <2>2. IndInv'
    BY <2>1, NextIndInv DEF CallersInv, Next
  <2>3. CallersTypeOK'
    BY <2>1, <2>2, OtherCallers DEF CallersInv, IndInv
  <2> QED
    BY <2>1, <2>2, <2>3, StepLinked, StepAsAsked, StepMinted DEF CallersInv
<1>2. CASE UNCHANGED <<vars, callerVars>>
  <2>1. IndInv'
    BY <1>2, NextIndInv DEF CallersInv
  <2>2. UNCHANGED <<phase, sent, settled, faulted, dropped, mint, at, asked>>
    BY <1>2 DEF vars, caller, callerVars
  <2>3. CallersTypeOK' /\ Linked'
    BY <2>1, <2>2 DEF CallersInv, IndInv, CallersTypeOK, Linked
  <2>4. AsAsked' /\ Minted'
    BY <2>2 DEF CallersInv, AsAsked, Refusal, Running, Minted
  <2> QED
    BY <2>1, <2>3, <2>4 DEF CallersInv
<1> QED
  BY <1>1, <1>2

\* CallersInv holds in every reachable state.
THEOREM CallersInvariance == CallersSpec => []CallersInv
BY InitCallersInv, NextCallersInv, PTL DEF CallersSpec

\* The callers are a way to use the publisher: what is proved of any use of it
\* holds of them.
THEOREM CallersPublish == CallersSpec => Spec
<1>1. CallersInit => Init
  BY DEF CallersInit
<1>2. CallersInv /\ [CallersNext]_<<vars, callerVars>> => [Next]_vars
  <2> SUFFICES ASSUME CallersInv, [CallersNext]_<<vars, callerVars>>
               PROVE  [Next]_vars
    OBVIOUS
  <2>1. CASE CallersNext
    BY <2>1, CallersNextSteps DEF Next
  <2> QED
    BY <2>1
<1> QED
  BY <1>1, <1>2, CallersInvariance, PTL DEF CallersSpec, Spec

\* The types of the callers' variables hold with those of the publisher's.
THEOREM CallersTypeCorrect == CallersSpec => []CallersTypeOK
<1>1. CallersInv => CallersTypeOK
  BY DEF CallersInv
<1> QED
  BY <1>1, CallersInvariance, PTL

\* 200, and Ok of batch-emit, mean that every event is in the outbox.
THEOREM OkPublished == CallersSpec => []OkIsPublished
<1>1. CallersInv => OkIsPublished
  <2> SUFFICES ASSUME CallersInv, NEW r \in Tx, at[r] = "ok"
               PROVE  /\ [i \in DOMAIN sent[r] |-> sent[r][i].item] = asked[r]
                      /\ Range(sent[r]) \subseteq Published
    BY DEF OkIsPublished
  <2>1. /\ TypeOK /\ asked[r] \in Seq(Item) /\ sent[r] # <<>>
        /\ phase[r] = "committed"
    BY DEF CallersInv, IndInv, CallersTypeOK, Linked, AsAsked
  <2>2. /\ Len(sent[r]) = Len(asked[r])
        /\ \A i \in 1..Len(asked[r]) : sent[r][i].item = asked[r][i]
    BY <2>1 DEF CallersInv, AsAsked
  <2>3. [i \in DOMAIN sent[r] |-> sent[r][i].item] = asked[r]
    <3>1. DOMAIN sent[r] = DOMAIN asked[r] /\ DOMAIN asked[r] = 1..Len(asked[r])
      BY <2>1, <2>2, StagedDomains
    <3>2. asked[r] = [i \in DOMAIN asked[r] |-> asked[r][i]]
      BY <2>1
    <3> QED
      BY <2>2, <3>1, <3>2
  <2>4. \A i \in DOMAIN sent[r] : sent[r][i] \in Published
    BY <2>1 DEF CallersInv, IndInv, Committed
  <2> QED
    BY <2>3, <2>4 DEF Range
<1> QED
  BY <1>1, CallersInvariance, PTL

\* The caller of each committed event is past its commit.
LEMMA CommittedCaller ==
  ASSUME CallersInv, NEW e \in Published
  PROVE  \E r \in Tx : /\ phase[r] = "committed" /\ e \in Range(sent[r])
                       /\ at[r] \in {"ok", "unsure", "gone"}
<1>1. PICK row \in outbox : e = [event_id |-> row.event_id, item |-> row.item]
  BY DEF Published
<1>2. PICK r \in Tx : phase[r] = "committed" /\ e \in Range(sent[r])
  BY <1>1 DEF CallersInv, IndInv, Committed
<1>3. at[r] \in {"absent"} \cup Awaiting \cup Outcome
  BY DEF CallersInv, CallersTypeOK
<1>4. at[r] \in {"ok", "unsure", "gone"}
  BY <1>2, <1>3 DEF CallersInv, Linked, Awaiting, Outcome
<1> QED
  BY <1>2, <1>4

\* No event is published for a caller that was told of an error before its
\* commit, or that waits.
THEOREM AllAccounted == CallersSpec => []PublishedIsAccounted
<1>1. CallersInv => PublishedIsAccounted
  BY CommittedCaller DEF PublishedIsAccounted
<1> QED
  BY <1>1, CallersInvariance, PTL

\* No call is published in part.
THEOREM NoneInPart == CallersSpec => []AllOrNothing
<1>1. CallersInv => AllOrNothing
  <2> SUFFICES ASSUME CallersInv, NEW r \in Tx,
                      NEW e \in Range(sent[r]), e \in Published
               PROVE  /\ Range(sent[r]) \subseteq Published
                      /\ Len(sent[r]) = Len(asked[r])
    BY DEF AllOrNothing
  <2>1. /\ TypeOK /\ Minted /\ AsAsked /\ Committed
        /\ sent \in [Tx -> Seq(Event)]
    BY DEF CallersInv, IndInv, TypeOK
  <2>2. PICK i \in DOMAIN sent[r] : e = sent[r][i]
    BY DEF Range
  <2>3. Len(sent[r]) = Len(asked[r])
    <3>1. sent[r] # <<>>
      BY <2>1, <2>2
    <3> QED
      BY <2>1, <3>1 DEF AsAsked
  <2>4. CASE phase[r] = "committed"
    <3>1. \A j \in DOMAIN sent[r] : sent[r][j] \in Published
      BY <2>1, <2>4 DEF Committed
    <3> QED
      BY <2>3, <3>1 DEF Range
  <2>5. CASE phase[r] # "committed"
    <3>1. PICK u \in Tx : phase[u] = "committed" /\ e \in Range(sent[u])
      BY CommittedCaller
    <3>2. PICK j \in DOMAIN sent[u] : e = sent[u][j]
      BY <3>1 DEF Range
    <3>3. e.event_id \in Key
      BY <2>1, <2>2, <2>5, <3>1, <3>2 DEF Minted
    <3>4. e.event_id \notin 1..mint
      BY <3>3, ConstantsAssumption DEF CallersInv, IndInv, TypeOK
    <3>5. Len(sent[r]) = 1
      BY <2>1, <2>2, <3>4 DEF Minted
    <3>6. DOMAIN sent[r] = 1..1
      BY <2>1, <3>5, StagedDomains
    <3>7. \A k \in DOMAIN sent[r] : sent[r][k] = e
      BY <2>2, <3>6
    <3> QED
      BY <2>3, <3>7 DEF Range
  <2> QED
    BY <2>4, <2>5
<1> QED
  BY <1>1, CallersInvariance, PTL

-----------------------------------------------------------------------------
(* What DuplicateEventId means to a caller *)

\* A transaction that has failed sends nothing more.
LEMMA FailedSends ==
  ASSUME CallersInv, NEW r \in Tx, UNCHANGED vars \/ Step(r), dup[r] # {}
  PROVE  sent'[r] = sent[r]
<1>1. TypeOK /\ phase[r] \in {"failed", "aborted"}
  BY DEF CallersInv, IndInv, Informed
<1>2. ~ Begin(r) /\ ~ Fails(r) /\ ~ DropFuture(r) /\ ~ ConnectionLost(r)
  BY <1>1 DEF Begin, Fails, InFlight, DropFuture, ConnectionLost, Running
<1>3. ~ Sends(r)
  BY <1>1 DEF Sends, Execute
<1> QED
  BY <1>1, <1>2, <1>3, StepCases
     DEF vars, RefuseFailed, InsertRow, Complete, CommitApplied, Aborts, End

\* Only the one statement of a call can be told DuplicateEventId, for an id it
\* sent, and then nothing it sent remains.
LEMMA DupEffect ==
  ASSUME CallersInv, NEW r \in Tx, UNCHANGED vars \/ Step(r)
  PROVE  /\ \A u \in Tx \ {r} : dup'[u] = dup[u]
         /\ \/ dup'[r] = dup[r]
            \/ sent'[r] = <<>> /\ dup'[r] \subseteq dup[r] \cup Ids(sent[r])
<1>1. /\ TypeOK /\ Progress /\ dup \in [Tx -> SUBSET EventId]
      /\ Running(r) => settled[r] = 0
  BY DEF CallersInv, IndInv, TypeOK, AsAsked
<1>2. CASE Fails(r)
  <2>1. PICK code \in {"22P05", "23505", "40P01"} : Fail(r, code)
    BY <1>2 DEF Fails
  <2>2. InFlight(r) /\ settled[r] = 0
    BY <1>1, <1>2 DEF Fails, InFlight
  <2>3. sent'[r] = <<>>
    <3>1. sent' = [sent EXCEPT ![r] = SubSeq(sent[r], 1, settled[r])]
      BY <2>1 DEF Fail
    <3>2. sent' \in [Tx -> Seq(Event)] /\ Len(sent'[r]) = 0
      BY <1>1, <2>2, <3>1, SentSettled
    <3>3. sent'[r] \in Seq(Event)
      BY <3>2
    <3> QED
      BY <3>2, <3>3
  <2>4. Current(r).event_id \in Ids(sent[r])
    <3>1. Len(staged[r]) + 1 \in DOMAIN sent[r]
      BY <1>1, <2>2, CurrentEvent, StagedDomains
    <3> QED
      BY <3>1 DEF Current, Ids
  <2>5. \/ dup' = dup
        \/ dup' = [dup EXCEPT ![r] = @ \cup {Current(r).event_id}]
    BY <2>1 DEF Fail
  <2> QED
    BY <1>1, <2>3, <2>4, <2>5
<1>3. CASE ~ Fails(r)
  <2>1. dup' = dup
    BY <1>1, <1>3, StepCases
       DEF vars, caller, Begin, RefuseFailed, Sends, Execute, InsertRow,
           Complete, DropFuture, CommitApplied, Aborts, End, ConnectionLost
  <2> QED
    BY <2>1
<1> QED
  BY <1>2, <1>3

\* A transaction that makes one call has nothing of its own in the outbox, or
\* on its way there, once the call was told DuplicateEventId.
NothingKept == \A r \in Tx : dup[r] # {} => sent[r] = <<>>

\* What a caller's call was told of, it does not send later.
LEMMA NextNothingKept ==
  CallersInv /\ NothingKept /\ [CallersNext]_<<vars, callerVars>>
    => NothingKept'
<1> SUFFICES ASSUME CallersInv, NothingKept,
                    [CallersNext]_<<vars, callerVars>>
             PROVE  NothingKept'
  OBVIOUS
<1>1. TypeOK /\ Progress
  BY DEF CallersInv, IndInv
<1>2. CASE UNCHANGED <<vars, callerVars>>
  BY <1>2 DEF NothingKept, vars, caller
<1>3. CASE CallersNext
  <2>1. PICK r \in Tx : UNCHANGED vars \/ Step(r)
    BY <1>3, CallersNextSteps
  <2>2. ASSUME NEW u \in Tx, u # r, dup'[u] # {}
        PROVE  sent'[u] = <<>>
    <3>1. dup'[u] = dup[u]
      BY <2>1, <2>2, DupEffect
    <3>2. sent'[u] = sent[u]
      BY <1>1, <2>1, <2>2, OtherTransactions DEF vars
    <3> QED
      BY <2>2, <3>1, <3>2 DEF NothingKept
  <2>3. ASSUME dup'[r] # {}
        PROVE  sent'[r] = <<>>
    <3>1. CASE dup'[r] = dup[r]
      <4>1. dup[r] # {}
        BY <2>3, <3>1
      <4>2. sent'[r] = sent[r]
        BY <2>1, <4>1, FailedSends
      <4> QED
        BY <4>1, <4>2 DEF NothingKept
    <3> QED
      BY <2>1, <3>1, DupEffect
  <2> QED
    BY <2>2, <2>3 DEF NothingKept
<1> QED
  BY <1>2, <1>3

\* What the documentation of DuplicateEventId says holds for every caller of
\* the examples, however many there are: each makes one call with its
\* transaction, and one that is told DuplicateEventId finds the id committed.
\* That the publisher in general does not keep it is due to transactions that
\* use an id twice.
THEOREM OneCallDuplicate == CallersSpec => []DuplicateIsInOutbox
<1>1. CallersInit => NothingKept
  BY DEF CallersInit, Init, NothingKept
<1>2. CallersInv /\ NothingKept => DuplicateIsInOutbox
  <2> SUFFICES ASSUME CallersInv, NothingKept, NEW r \in Tx, NEW id \in dup[r]
               PROVE  \E e \in Published : e.event_id = id
    BY DEF DuplicateIsInOutbox
  <2>1. sent[r] = <<>>
    BY DEF NothingKept
  <2>2. id \notin Ids(sent[r])
    BY <2>1 DEF Ids
  <2> QED
    BY <2>2 DEF CallersInv, IndInv, DuplicateMeansPublished
<1> QED
  BY <1>1, <1>2, NextNothingKept, CallersInvariance, PTL DEF CallersSpec

-----------------------------------------------------------------------------
(* What the end of every caller rests on *)

\* A caller whose next step, or that of its Transaction dropped, waits for
\* nothing but its turn.  (The bounds of the model on rows and ids stand for
\* nothing a call would wait for.)
Ready(r) ==
  \/ at[r] = "begin" /\ (r \in Emitter \/ Cardinality(Lent) < PoolSize)
  \/ at[r] = "append" /\ phase[r] = "open"
  \/ at[r] = "appending" /\ (phase[r] = "open" \/ faulted[r])
  \/ at[r] = "commit" /\ phase[r] = "open"
  \/ at[r] \in {"append failed", "gone"} /\ Idle(r)

\* As long as a caller waits, for a connection or for another's event id, or
\* one that is gone holds a connection, somebody can go on.
NoStandstill ==
  (\E r \in Tx : at[r] \in Awaiting \/ Live(r)) =>
    \E u \in Tx : Ready(u) \/ Movable(u)

\* The awaits a caller has before it, with room for what an await may start.
Ahead(r) ==
  CASE at[r] = "absent"    -> 7
    [] at[r] = "begin"     -> 6
    [] at[r] = "append"    -> 4
    [] at[r] = "appending" -> 3
    [] at[r] = "commit"    -> 2
    [] OTHER               -> 0

\* The connection it has to give back.
Held(r) == IF Live(r) THEN 1 ELSE 0

\* What the server has to do for it; before the call, the most this may be.
ToServe(r) ==
  IF at[r] \in {"absent", "begin", "append"} THEN MaxBatch + 1 ELSE Remaining(r)

\* What a caller, its Transaction and its statement have yet to do.
ToDo(r) == Ahead(r) + Held(r) + ToServe(r)

ToDoOK ==
  \A r \in Tx : Ahead(r) \in Nat /\ Held(r) \in 0..1 /\ ToServe(r) \in Nat

\* Each step of anybody shortens what one caller has to do, and nobody's is
\* lengthened by it.
EveryStepCounts ==
  [][\E r \in Tx : /\ ToDo(r)' < ToDo(r)
                   /\ \A u \in Tx \ {r} : ToDo(u)' = ToDo(u)
  ]_<<vars, callerVars>>

\* A caller's step does not touch what the others have to do.
LEMMA OthersKeepToDo ==
  ASSUME CallersInv, NEW r \in Tx,
         \/ \E events \in Seq(Item) : Enter(r, events)
         \/ Calls(r) /\ Step(r)
         \/ Proceed(r),
         NEW u \in Tx \ {r}
  PROVE  ToDo(u)' = ToDo(u)
<1>1. TypeOK /\ Progress
  BY DEF CallersInv, IndInv
<1>2. at'[u] = at[u]
  BY OtherCallers DEF CallersInv
<1>3. UNCHANGED vars \/ Step(r)
  BY ProceedSteps DEF Enter
<1>4. phase'[u] = phase[u] /\ Remaining(u)' = Remaining(u)
  <2>1. CASE UNCHANGED vars
    BY <2>1 DEF vars, table, Remaining, Running
  <2>2. CASE Step(r)
    BY <1>1, <2>2, OtherTransactions, OthersKeepRemaining
  <2> QED
    BY <1>3, <2>1, <2>2
<1> QED
  BY <1>2, <1>4 DEF ToDo, Ahead, Held, Live, ToServe

\* The parts of the work are natural numbers.
LEMMA ToDoParts == CallersInv => ToDoOK
<1> SUFFICES ASSUME CallersInv, NEW r \in Tx
             PROVE  Ahead(r) \in Nat /\ Held(r) \in 0..1 /\ ToServe(r) \in Nat
  BY DEF ToDoOK
<1>1. /\ phase \in [Tx -> Phase] /\ Len(sent[r]) \in Nat
      /\ Len(staged[r]) \in Nat /\ settled[r] \in Nat
      /\ Running(r) => Len(staged[r]) \in settled[r]..Len(sent[r])
  BY DEF CallersInv, IndInv, TypeOK, Progress
<1>2. Remaining(r) \in Nat
  BY <1>1 DEF Remaining
<1>3. ToServe(r) \in Nat
  BY <1>2, ConstantsAssumption DEF ToServe
<1> QED
  BY <1>3 DEF Ahead, Held

\* What a caller's call adds to the server's work.
LEMMA CallsToDo ==
  ASSUME CallersInv, NEW r \in Tx, Calls(r)
  PROVE  Remaining(r)' <= MaxBatch + 1
<1>1. /\ TypeOK /\ Progress /\ asked[r] \in Seq(Item)
      /\ phase[r] = "open" /\ Len(sent[r]) = 0
      /\ Len(asked[r]) \in 1..MaxBatch
  <2>1. /\ at[r] = "append" /\ TypeOK /\ Progress /\ asked \in [Tx -> Seq(Item)]
        /\ Linked /\ AsAsked
    BY DEF CallersInv, IndInv, CallersTypeOK, Calls
  <2>2. sent[r] = <<>> /\ Len(asked[r]) \in 1..MaxBatch
    BY <2>1 DEF AsAsked
  <2>3. Len(sent[r]) = 0
    BY <2>2
  <2> QED
    BY <2>1, <2>2, <2>3 DEF Linked
<1>2. PICK ids \in [1..Len(asked[r]) -> EventId] : Execute(r, ids, asked[r])
  BY DEF Calls
<1>3. Len(sent'[r]) = Len(asked[r])
  BY <1>1, <1>2, ExecuteSends
<1>4. staged'[r] = staged[r] /\ Len(staged[r]) = 0
  BY <1>1, <1>2 DEF Execute, table, Progress
<1>5. Remaining(r)' \in {0, Len(asked[r]) - 0 + 1}
  BY <1>3, <1>4 DEF Remaining
<1> QED
  BY <1>1, <1>5, ConstantsAssumption

\* When the parts of a caller's work make less of it.
LEMMA SumShrinks ==
  ASSUME NEW a \in Nat, NEW b \in Nat, NEW l \in 0..1, NEW m \in 0..1,
         NEW s \in Nat, NEW w \in Nat,
         \/ a < b /\ l <= m /\ s <= w
         \/ a + 1 < b /\ s <= w
         \/ a <= b /\ l <= m /\ s < w
         \/ a <= b /\ l < m /\ s <= w
  PROVE  a + l + s < b + m + w
OBVIOUS

\* A caller's own step, or the server's for it, brings it nearer to its end.
LEMMA ToDoShrinks ==
  ASSUME CallersInv, ToDoOK, ToDoOK', NEW r \in Tx,
         \/ \E events \in Seq(Item) : Enter(r, events)
         \/ Calls(r) /\ Step(r)
         \/ Proceed(r)
  PROVE  ToDo(r)' < ToDo(r)
<1>1. /\ TypeOK /\ Progress /\ Linked
      /\ phase \in [Tx -> Phase]
      /\ at \in [Tx -> {"absent"} \cup Awaiting \cup Outcome]
  BY DEF CallersInv, IndInv, TypeOK, CallersTypeOK
<1>2. /\ Ahead(r) \in Nat /\ Held(r) \in 0..1 /\ ToServe(r) \in Nat
      /\ Ahead(r)' \in Nat /\ Held(r)' \in 0..1 /\ ToServe(r)' \in Nat
  BY DEF ToDoOK
<1>3. SUFFICES
        \/ Ahead(r)' < Ahead(r) /\ Held(r)' <= Held(r) /\ ToServe(r)' <= ToServe(r)
        \/ Ahead(r)' + 1 < Ahead(r) /\ ToServe(r)' <= ToServe(r)
        \/ Ahead(r)' <= Ahead(r) /\ Held(r)' <= Held(r) /\ ToServe(r)' < ToServe(r)
        \/ Ahead(r)' <= Ahead(r) /\ Held(r)' < Held(r) /\ ToServe(r)' <= ToServe(r)
  BY <1>2, SumShrinks DEF ToDo
<1>4. MaxBatch + 1 \in Nat
  BY ConstantsAssumption
<1>5. CASE \E events \in Seq(Item) : Enter(r, events)
  <2>1. at[r] = "absent" /\ at'[r] = "begin" /\ phase' = phase
    BY <1>1, <1>5 DEF Enter, vars
  <2>2. Ahead(r) = 7 /\ Ahead(r)' = 6
    BY <2>1 DEF Ahead
  <2>3. ToServe(r)' = ToServe(r) /\ Held(r)' = Held(r)
    BY <2>1 DEF ToServe, Held, Live
  <2> QED
    BY <1>2, <2>2, <2>3
<1>6. CASE Calls(r)
  <2>1. /\ at[r] = "append" /\ at'[r] = "appending"
        /\ phase[r] = "open" /\ phase'[r] = "executing"
    BY <1>1, <1>6 DEF Calls, Execute
  <2>2. Ahead(r) = 4 /\ Ahead(r)' = 3 /\ Held(r) = 1 /\ Held(r)' = 1
    BY <2>1 DEF Ahead, Held, Live
  <2>3. ToServe(r) = MaxBatch + 1 /\ ToServe(r)' = Remaining(r)'
    BY <2>1 DEF ToServe
  <2>4. ToServe(r)' <= ToServe(r)
    BY <1>6, <2>3, CallsToDo
  <2>5. Ahead(r)' < Ahead(r) /\ Held(r)' <= Held(r)
    BY <2>2
  <2> QED
    BY <2>4, <2>5
<1>7. CASE Acquire(r)
  <2>1. at[r] = "begin" /\ at'[r] = "append"
    BY <1>1, <1>7 DEF Acquire
  <2>2. Ahead(r) = 6 /\ Ahead(r)' = 4
    BY <2>1 DEF Ahead
  <2>3. ToServe(r)' = ToServe(r)
    BY <2>1 DEF ToServe
  <2> QED
    BY <1>2, <2>2, <2>3
<1>8. CASE NoConnection(r)
  <2>1. /\ at[r] = "begin" /\ at'[r] = "no connection" /\ phase' = phase
        /\ phase[r] = "new"
    BY <1>1, <1>8 DEF NoConnection, vars, Linked
  <2>2. Ahead(r) = 6 /\ Ahead(r)' = 0
    BY <2>1 DEF Ahead
  <2>3. ToServe(r) = MaxBatch + 1 /\ ToServe(r)' = 0
    BY <2>1 DEF ToServe, Remaining, Running
  <2> QED
    BY <1>4, <2>2, <2>3
<1>9. CASE AppendReturns(r) \/ AppendFails(r)
  <2>1. /\ at[r] = "appending" /\ at'[r] \in {"commit", "append failed"}
        /\ UNCHANGED <<phase, sent, staged>>
    BY <1>1, <1>9 DEF AppendReturns, AppendFails, vars, table
  <2>2. Ahead(r) = 3 /\ Ahead(r)' \in {0, 2}
    BY <2>1 DEF Ahead
  <2>3. ToServe(r)' = ToServe(r) /\ Held(r)' = Held(r)
    BY <2>1 DEF ToServe, Remaining, Running, Held, Live
  <2> QED
    BY <1>2, <2>2, <2>3
<1>10. CASE CommitReturns(r)
  <2>1. /\ at[r] = "commit" /\ at'[r] \in {"ok", "unsure"}
        /\ phase'[r] \in {"committed", "aborted"}
    <3>1. at[r] = "commit" /\ Proceed(r)
      BY <1>10 DEF CommitReturns, Proceed
    <3>2. ~ Serve(r)
      <4>1. ~ Running(r)
        BY <1>1, <3>1 DEF Linked, Running
      <4> QED
        BY <4>1, ServeEffect DEF Serve
    <3>3. at'[r] \in {"ok", "unsure"}
      BY <1>1, <1>10 DEF CommitReturns
    <3> QED
      BY <3>1, <3>2, <3>3, OwnEffect DEF Acquire, AppendReturns, AppendFails
  <2>2. Ahead(r) = 2 /\ Ahead(r)' = 0
    BY <2>1 DEF Ahead
  <2>3. ToServe(r)' = 0 /\ Held(r)' = 0
    BY <2>1 DEF ToServe, Remaining, Running, Held, Live
  <2> QED
    BY <1>2, <2>2, <2>3
<1>11. CASE Release(r)
  <2>1. /\ at[r] \in {"append failed", "gone"} /\ at' = at
        /\ phase[r] \in {"open", "failed"} /\ phase'[r] = "aborted"
    BY <1>1, <1>11 DEF Release, Rollback, End, Idle, callerVars
  <2>2. Ahead(r) = 0 /\ Ahead(r)' = 0
    BY <2>1 DEF Ahead
  <2>3. ToServe(r)' = 0 /\ Held(r) = 1 /\ Held(r)' = 0
    BY <2>1 DEF ToServe, Remaining, Running, Held, Live
  <2> QED
    BY <1>2, <2>2, <2>3
<1>12. CASE Serve(r)
  <2>1. /\ at' = at /\ Running(r)
        /\ at[r] \notin {"absent", "begin", "append"}
    BY <1>1, <1>12, ServeEffect DEF Serve, callerVars, Linked, Running
  <2>2. Remaining(r)' < Remaining(r)
    <3>1. Step(r)
      BY <1>12 DEF Serve, Step
    <3> QED
      BY <1>1, <1>12, <3>1, StepShrinks DEF Serve
  <2>3. Ahead(r)' = Ahead(r) /\ Held(r) = 1
    BY <2>1 DEF Ahead, Held, Live, Running
  <2>4. ToServe(r)' < ToServe(r)
    BY <2>1, <2>2 DEF ToServe
  <2> QED
    BY <1>2, <2>3, <2>4
<1>13. CASE GoAway(r)
  <2>1. /\ at[r] \in {"begin", "appending", "commit"} /\ at'[r] = "gone"
    BY <1>1, <1>13 DEF GoAway
  <2>2. Ahead(r) \in {2, 3, 6} /\ Ahead(r)' = 0
    BY <2>1 DEF Ahead
  <2>3. ToServe(r)' <= ToServe(r)
    <3>1. ToServe(r)' = Remaining(r)'
      BY <2>1 DEF ToServe
    <3>2. CASE ~ Running(r)'
      BY <1>2, <3>1, <3>2 DEF Remaining
    <3>3. CASE DropFuture(r) /\ at[r] = "appending"
      <4>1. Running(r) /\ ToServe(r) = Remaining(r) /\ Step(r)
        BY <3>3 DEF DropFuture, Running, ToServe, Step
      <4> QED
        BY <1>1, <3>1, <4>1, StepShrinks
    <3>4. CASE ~ Running(r)
      <4>1. UNCHANGED vars \/ CommitApplied(r)
        BY <1>13, <3>4 DEF GoAway, DropFuture, Running
      <4>2. ~ Running(r)'
        BY <1>1, <3>4, <4>1 DEF vars, Running, CommitApplied, End
      <4> QED
        BY <3>2, <4>2
    <3>5. (at[r] = "appending" /\ DropFuture(r)) \/ ~ Running(r)
      BY <1>1, <1>13 DEF GoAway, Linked, Running, CommitApplied
    <3> QED
      BY <3>3, <3>4, <3>5
  <2> QED
    BY <1>2, <2>2, <2>3
<1> QED
  BY <1>5, <1>6, <1>7, <1>8, <1>9, <1>10, <1>11, <1>12, <1>13 DEF Proceed

\* What a caller has to do at its start.
LEMMA ToDoAtFirst == CallersInit => \A r \in Tx : ToDo(r) = MaxBatch + 8
<1> SUFFICES ASSUME CallersInit, NEW r \in Tx PROVE ToDo(r) = MaxBatch + 8
  OBVIOUS
<1>1. at[r] = "absent" /\ phase[r] = "new"
  BY DEF CallersInit, Init
<1>2. Ahead(r) = 7 /\ Held(r) = 0 /\ ToServe(r) = MaxBatch + 1
  BY <1>1 DEF Ahead, Held, Live, ToServe
<1> QED
  BY <1>2, ConstantsAssumption DEF ToDo

\* The examples' callers cannot go on for ever: each step, whoever takes it,
\* leaves less to do, so that at most MaxBatch + 8 steps are taken for a caller.
THEOREM CallersAdvance ==
  CallersSpec => /\ \A r \in Tx : ToDo(r) = MaxBatch + 8
                 /\ []ToDoOK
                 /\ EveryStepCounts
<1> DEFINE Counts == \E r \in Tx : /\ ToDo(r)' < ToDo(r)
                                   /\ \A u \in Tx \ {r} : ToDo(u)' = ToDo(u)
<1>1. CallersInv /\ ToDoOK /\ ToDoOK' /\ [CallersNext]_<<vars, callerVars>>
        => [Counts]_<<vars, callerVars>>
  <2> SUFFICES ASSUME CallersInv, ToDoOK, ToDoOK', CallersNext PROVE Counts
    OBVIOUS
  <2>1. PICK r \in Tx : \/ \E events \in Seq(Item) : Enter(r, events)
                        \/ Calls(r) /\ Step(r)
                        \/ Proceed(r)
    BY CallersNextSteps
  <2> QED
    BY <2>1, ToDoShrinks, OthersKeepToDo
<1> QED
  BY <1>1, ToDoParts, ToDoAtFirst, CallersInvariance, PTL
     DEF CallersSpec, EveryStepCounts

\* A connection that no statement is using is its holder's to give back, or to
\* go on with.
LEMMA IdleIsReady ==
  ASSUME CallersInv, NEW r \in Tx, Idle(r)
  PROVE  Ready(r)
<1>1. /\ phase[r] \in {"open", "failed"}
      /\ at[r] \in {"absent"} \cup Awaiting \cup Outcome
  BY DEF Idle, CallersInv, CallersTypeOK
<1>2. at[r] \in {"append", "appending", "commit", "append failed", "gone"}
  BY <1>1 DEF CallersInv, Linked, Awaiting, Outcome
<1>3. at[r] = "appending" => phase[r] = "open" \/ faulted[r]
  BY <1>1 DEF CallersInv, IndInv, Linked, Informed
<1>4. at[r] \in {"append", "commit"} => phase[r] = "open"
  BY DEF CallersInv, Linked
<1> QED
  BY <1>2, <1>3, <1>4 DEF Ready

\* The callers do not come to a standstill, however few connections the pool
\* has and whatever ids they use: a caller that waits for a connection holds
\* none, and what holds one gives it back.
THEOREM NobodyWaitsForever ==
  ASSUME IsFiniteSet(Tx)
  PROVE  CallersSpec => []NoStandstill
<1>1. CallersInv => NoStandstill
  <2> SUFFICES ASSUME CallersInv, NEW r \in Tx, at[r] \in Awaiting \/ Live(r)
               PROVE  \E u \in Tx : Ready(u) \/ Movable(u)
    BY DEF NoStandstill
  <2>1. CASE \E t \in Tx : Running(t)
    <3>1. PICK t \in Tx : Running(t)
      BY <2>1
    <3>2. NobodyStuck
      BY WaitsEnd DEF CallersInv
    <3>3. \A v \in Tx : Holders(v) \subseteq Tx
      BY DEF Holders
    <3>4. PICK u \in Tx : Movable(u) \/ Idle(u)
      BY <3>1, <3>2, <3>3 DEF NobodyStuck
    <3> QED
      BY <3>4, IdleIsReady
  <2>2. CASE \A t \in Tx : ~ Running(t)
    <3>1. \A t \in Tx : Live(t) => Idle(t)
      BY <2>2 DEF Live, Running, Idle
    <3>2. CASE Live(r)
      BY <3>1, <3>2, IdleIsReady
    <3>3. CASE at[r] = "begin" /\ Lent = {}
      <4>1. Cardinality(Lent) < PoolSize
        BY <3>3, FS_EmptySet, CallersAssumption
      <4> QED
        BY <3>3, <4>1 DEF Ready
    <3>4. CASE Lent # {}
      BY <3>1, <3>4, IdleIsReady DEF Lent
    <3>5. CASE at[r] \in {"append", "commit"}
      BY <3>5 DEF CallersInv, Linked, Ready
    <3>6. CASE at[r] = "appending"
      BY <2>2, <3>6 DEF CallersInv, IndInv, Linked, Informed, Running, Ready
    <3> QED
      BY <3>2, <3>3, <3>4, <3>5, <3>6 DEF Awaiting
  <2> QED
    BY <2>1, <2>2
<1> QED
  BY <1>1, CallersInvariance, PTL

=============================================================================
