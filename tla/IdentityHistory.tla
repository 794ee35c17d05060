--------------------------- MODULE IdentityHistory ---------------------------
(***************************************************************************)
(* MachineIdentity with a history variable, for what a comment in the code *)
(* says about the past of a connection: what the machine last reported.    *)
(* It only records; every behaviour of MachineIdentity is one of this      *)
(* module.                                                                 *)
(***************************************************************************)
EXTENDS MachineIdentity

VARIABLE last \* what Original reported when it was last admitted

HistoryInit == Init /\ last = Reports(Original)

Comes(p, from, to) == pc[p] = from /\ pc'[p] = to

Observe ==
    last' = IF \E p \in Processes : Comes(p, "adding", "online") /\ onMachine[p] = Original
            THEN conn[CHOOSE p \in Processes : Comes(p, "adding", "online")].fp
            ELSE last

HistorySpec == HistoryInit /\ [][Next /\ Observe]_<<vars, last>>

\* VerdictHardwareChanged: "Admitted and the stored UUID is updated to the new
\* one."  Then a machine that changes one identifier between two admissions is
\* never taken for another machine.
OneChangeAtATime ==
    [][\A p \in Processes :
          Comes(p, "hello", "none") /\ onMachine[p] = Original /\ conn[p].fp = Reports(Original)
              => /\ ~sameProductUUID(conn[p].fp.uuid, last.uuid)
                 /\ (conn[p].fp.mid = None \/ conn[p].fp.mid # last.mid)]_<<vars, last>>

=============================================================================
