------------------------ MODULE ExampleCallersProofs ------------------------
(* The theorems of CallersProofs hold of the examples. *)
EXTENDS ExampleCallers, CallersProofs

\* axum-handler and batch-emit are such callers: the theorems hold of them.
THEOREM ExamplesAreCallers == ExamplesSpec => CallersSpec
<1>1. ASSUME NEW r \in Tx, Register(r)
      PROVE  \E events \in Seq(Item) : Enter(r, events)
  <2>1. PICK email \in Item \ {Order} : Enter(r, <<email>>)
    BY <1>1 DEF Register
  <2>2. <<email>> \in Seq(Item)
    OBVIOUS
  <2> QED
    BY <2>1, <2>2
<1>2. ASSUME NEW r \in Tx, Emit(r)
      PROVE  \E events \in Seq(Item) : Enter(r, events)
  <2> DEFINE orders == [i \in 1..MaxBatch |-> Order]
  <2>1. orders \in Seq(Item)
    BY ConstantsAssumption, ExamplesAssumption
  <2>2. Enter(r, orders)
    BY <1>2 DEF Emit
  <2> QED
    BY <2>1, <2>2
<1>3. ExamplesNext => CallersNext
  BY <1>1, <1>2 DEF ExamplesNext, CallersNext
<1> QED
  BY <1>3, PTL DEF ExamplesSpec, CallersSpec, exampleVars

\* The steps of the examples run out, and before they do somebody can take the
\* next: the argument behind EveryCallerEnds, of which the fairness alone is
\* left to the runs.
THEOREM ExamplesRunOut ==
  ASSUME IsFiniteSet(Tx)
  PROVE  ExamplesSpec => /\ []NoStandstill
                         /\ []ToDoOK
                         /\ EveryStepCounts
BY ExamplesAreCallers, NobodyWaitsForever, CallersAdvance, PTL

=============================================================================
