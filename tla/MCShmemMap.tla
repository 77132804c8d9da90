----------------------------- MODULE MCShmemMap -----------------------------
(* One producer process and its clients, for TLC.                          *)
EXTENDS ShmemMap, TLC

CONSTANT p

\* Every thread belongs to the one producer.
MCHome == [w \in Writers |-> p]

\* Threads, keys and values are interchangeable: nothing orders or chooses among
\* them, and MCHome is the same for all threads.
MCSymmetry == Permutations(Writers) \cup Permutations(Keys) \cup Permutations(Vals)

=============================================================================
