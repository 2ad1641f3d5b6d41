--------------------------- MODULE MCOutboxPolling ---------------------------
\* Transactions and keys are interchangeable, also for the dispatcher.
EXTENDS OutboxPolling, TLC

Symmetry == Permutations(Tx) \cup Permutations(Key)

=============================================================================
