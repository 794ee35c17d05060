---------------------------- MODULE MCDataChannel ----------------------------
(* DataChannel on small instances.                                          *)
EXTENDS DataChannel, TLC

\* Calls and sessions are interchangeable.
Symmetry == Permutations(Openers) \cup Permutations(Conns)

=============================================================================
