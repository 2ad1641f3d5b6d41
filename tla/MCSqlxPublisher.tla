--------------------------- MODULE MCSqlxPublisher ---------------------------
(* Small instances of SqlxPublisher for TLC. *)
EXTENDS SqlxPublisher, TLC

\* The transactions, and the ids callers supply, are interchangeable.
Symmetry == Permutations(Tx) \cup Permutations(Key)

=============================================================================
