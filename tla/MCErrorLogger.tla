--------------------------- MODULE MCErrorLogger ---------------------------
(* The error table of one process, for TLC.                                *)
EXTENDS ErrorLogger, TLC

\* Nothing tells one thread from another, or one message from another.
MCSymmetry == Permutations(Threads) \cup Permutations(Messages)

=============================================================================
