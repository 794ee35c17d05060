-------------------------- MODULE MCMachineIdentity --------------------------
(* MachineIdentity on small sets.                                           *)
EXTENDS MachineIdentity, TLC

Symmetry == Permutations(Processes \ Legacy) \cup Permutations(MachineIDs)
                \cup Permutations(Serials)

=============================================================================
