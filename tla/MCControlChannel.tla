-------------------------- MODULE MCControlChannel ---------------------------
(* Small instances of ControlChannel for TLC.                               *)
EXTENDS ControlChannel, TLC

\* Sessions, agents and hosts are interchangeable: no definition names one.
Symmetry == Permutations(Sessions) \cup Permutations(Agents) \cup Permutations(Hosts)

=============================================================================
