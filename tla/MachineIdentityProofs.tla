------------------------- MODULE MachineIdentityProofs -------------------------
(***************************************************************************)
(* Proofs about MachineIdentity, for any number of machines, processes and *)
(* identifiers, and any sequence of resets, migrations and faults.         *)
(***************************************************************************)
EXTENDS MachineIdentity, TLAPS

\* What a handler knows: while it has yet to judge, the row it read had the
\* row's UUID and a machine-id of the lineage; afterwards it is no stranger's.
HandlerInv(p) ==
    /\ pc[p] = "hello" =>
         /\ conn[p].read.uuid = row.uuid
         /\ row.uuid # None => conn[p].read.mid \in lineage \cup {None}
         /\ sameProductUUID(conn[p].fp.uuid, row.uuid) => conn[p].fp.mid \in lineage \cup {None}
    /\ pc[p] \notin {"none", "hello"} => ~Stranger(conn[p].fp)

\* The inductive invariant behind StrangersRefused and RowStaysInLineage.
LineageInv ==
    /\ \A m \in Machines : sameProductUUID(uuidOf[m], row.uuid) => midOf[m] \in lineage \cup {None}
    /\ RowStaysInLineage
    /\ \A p \in Processes : HandlerInv(p)

-----------------------------------------------------------------------------
(* Types                                                                   *)

\* What the statements that write the row do to its fields.
LEMMA RowWrites ==
    ASSUME TypeOK
    PROVE  /\ \A f \in Fingerprints : RefreshFingerprint(f) =>
                  row' \in Rows /\ row'.uuid = row.uuid /\ row'.mid = f.mid
           /\ \A p \in Processes : CheckIdentity(p) =>
                  row' \in Rows /\ row'.uuid = row.uuid /\ row'.mid = row.mid
           /\ ClearVerdicts => row' \in Rows /\ row'.uuid = row.uuid /\ row'.mid = row.mid
           /\ CooldownLapses => row' \in Rows /\ row'.uuid = row.uuid /\ row'.mid = row.mid
           /\ row' = [row EXCEPT !.foreign = TRUE] =>
                  row' \in Rows /\ row'.uuid = row.uuid /\ row'.mid = row.mid
<1> row \in Rows
  BY DEF TypeOK
<1>1. ASSUME NEW f \in Fingerprints, RefreshFingerprint(f)
      PROVE  row' \in Rows /\ row'.uuid = row.uuid /\ row'.mid = f.mid
  BY <1>1 DEF RefreshFingerprint, Rows, Fingerprints
<1>2. ASSUME NEW p \in Processes, CheckIdentity(p)
      PROVE  row' \in Rows /\ row'.uuid = row.uuid /\ row'.mid = row.mid
  <2>1. Retire(Nonce(p)) \in Processes \cup {None} /\ Nonce(p) \in Processes \cup {None}
    BY DEF Retire, Nonce, Rows
  <2> QED
    BY <1>2, <2>1 DEF CheckIdentity, Rows
<1>3. ASSUME ClearVerdicts
      PROVE  row' \in Rows /\ row'.uuid = row.uuid /\ row'.mid = row.mid
  BY <1>3 DEF ClearVerdicts, Rows
<1>4. ASSUME CooldownLapses
      PROVE  row' \in Rows /\ row'.uuid = row.uuid /\ row'.mid = row.mid
  BY <1>4 DEF CooldownLapses, Rows
<1>5. ASSUME row' = [row EXCEPT !.foreign = TRUE]
      PROVE  row' \in Rows /\ row'.uuid = row.uuid /\ row'.mid = row.mid
  BY <1>5 DEF Rows
<1> QED
  BY <1>1, <1>2, <1>3, <1>4, <1>5

\* Every initial state is typed.
LEMMA TypeInit == Init => TypeOK
<1> SUFFICES ASSUME Init PROVE TypeOK
  OBVIOUS
<1>1. uuidOf \in [Machines -> UUIDs \cup {None}] /\ midOf \in [Machines -> MachineIDs \cup {None}]
  BY DEF Init
<1>2. row \in Rows
  BY <1>1, OriginalAssumption DEF Init, Rows
<1>3. lineage \subseteq MachineIDs
  BY <1>1 DEF Init
<1>4. born \subseteq Processes /\ alive \subseteq born /\ faults \in Nat /\ onMachine \in [Processes -> Machines]
  BY DEF Init
<1>5. pc \in [Processes -> PCs] /\ conn \in [Processes -> Conns \cup {None}] /\ holder \in Processes \cup {None}
        /\ stopped \subseteq Processes
  BY DEF Init, PCs
<1>6. \A p \in Processes : pc[p] = "none"
  BY DEF Init
<1> QED
  BY <1>1, <1>2, <1>3, <1>4, <1>5, <1>6 DEF TypeOK

\* Moving one handler, and giving it locals unless it returns, is typed.
LEMMA HandlerTyped ==
    ASSUME TypeOK, NEW p \in Processes, NEW to \in PCs,
           Goto(p, to),
           \/ conn' = [conn EXCEPT ![p] = None] /\ to = "none"
           \/ \E c \in Conns : conn' = [conn EXCEPT ![p] = c]
           \/ UNCHANGED conn /\ pc[p] # "none"
    PROVE  /\ pc' \in [Processes -> PCs]
           /\ conn' \in [Processes -> Conns \cup {None}]
           /\ \A q \in Processes : pc'[q] # "none" => conn'[q] \in Conns
<1>1. /\ pc \in [Processes -> PCs] /\ conn \in [Processes -> Conns \cup {None}]
      /\ \A q \in Processes : pc[q] # "none" => conn[q] \in Conns
  BY DEF TypeOK
<1>2. pc' = [pc EXCEPT ![p] = to]
  BY DEF Goto
<1>3. CASE conn' = [conn EXCEPT ![p] = None] /\ to = "none"
  BY <1>1, <1>2, <1>3
<1>4. CASE \E c \in Conns : conn' = [conn EXCEPT ![p] = c]
  BY <1>1, <1>2, <1>4
<1>5. CASE UNCHANGED conn /\ pc[p] # "none"
  BY <1>1, <1>2, <1>5
<1> QED
  BY <1>3, <1>4, <1>5

\* What a machine reports, and what a handler holds, are fingerprints.
LEMMA Locals ==
    ASSUME TypeOK, NEW p \in Processes
    PROVE  /\ [read |-> [uuid |-> row.uuid, mid |-> row.mid], fp |-> Reports(onMachine[p])] \in Conns
           /\ pc[p] # "none" => /\ conn[p].fp \in Fingerprints
                                /\ [read |-> NoEvidence, fp |-> conn[p].fp] \in Conns
<1>1. [uuid |-> row.uuid, mid |-> row.mid] \in Fingerprints
  BY DEF TypeOK, Rows, Fingerprints
<1>2. Reports(onMachine[p]) \in Fingerprints
  <2>1. onMachine[p] \in Machines /\ uuidOf \in [Machines -> UUIDs \cup {None}]
           /\ midOf \in [Machines -> MachineIDs \cup {None}]
    BY DEF TypeOK
  <2> QED
    BY <2>1 DEF Reports, Fingerprints
<1>3. pc[p] # "none" => conn[p] \in Conns
  BY DEF TypeOK
<1>4. NoEvidence \in Fingerprints
  BY DEF NoEvidence, Fingerprints
<1> QED
  BY <1>1, <1>2, <1>3, <1>4 DEF Conns

\* Every step keeps the types: one case per action.
LEMMA TypeStep == TypeOK /\ [Next]_vars => TypeOK'
<1> SUFFICES ASSUME TypeOK, [Next]_vars PROVE TypeOK'
  OBVIOUS
<1> USE DEF PCs
<1>1. ASSUME NEW p \in Processes, Dial(p) PROVE TypeOK'
  <2>1. /\ pc' \in [Processes -> PCs] /\ conn' \in [Processes -> Conns \cup {None}]
        /\ \A q \in Processes : pc'[q] # "none" => conn'[q] \in Conns
    BY <1>1, HandlerTyped, Locals DEF Dial
  <2> QED
    BY <1>1, <2>1 DEF Dial, TypeOK, world, registry
<1>2. ASSUME NEW p \in Processes, VerifyRefuses(p) PROVE TypeOK'
  <2>1. /\ pc' \in [Processes -> PCs] /\ conn' \in [Processes -> Conns \cup {None}]
        /\ \A q \in Processes : pc'[q] # "none" => conn'[q] \in Conns
    BY <1>2, HandlerTyped DEF VerifyRefuses, Return
  <2>2. row' \in Rows
    BY <1>2, RowWrites DEF VerifyRefuses, TypeOK
  <2>3. faults' \in Nat
    BY <1>2 DEF VerifyRefuses, Fault, TypeOK
  <2> QED
    BY <1>2, <2>1, <2>2, <2>3 DEF VerifyRefuses, TypeOK, world, registry
<1>3. ASSUME NEW p \in Processes, VerifyAdmits(p) PROVE TypeOK'
  <2>1. /\ pc' \in [Processes -> PCs] /\ conn' \in [Processes -> Conns \cup {None}]
        /\ \A q \in Processes : pc'[q] # "none" => conn'[q] \in Conns
    BY <1>3, HandlerTyped, Locals DEF VerifyAdmits, Verified
  <2> QED
    BY <1>3, <2>1 DEF VerifyAdmits, TypeOK, world, registry
<1>4. ASSUME NEW p \in Processes, VerifyRefreshes(p) PROVE TypeOK'
  <2>1. /\ pc' \in [Processes -> PCs] /\ conn' \in [Processes -> Conns \cup {None}]
        /\ \A q \in Processes : pc'[q] # "none" => conn'[q] \in Conns
    BY <1>4, HandlerTyped, Locals DEF VerifyRefreshes, Verified
  <2>2. row' \in Rows
    BY <1>4, RowWrites, Locals DEF VerifyRefreshes, TypeOK
  <2>3. faults' \in Nat
    BY <1>4 DEF VerifyRefreshes, Fault, TypeOK
  <2> QED
    BY <1>4, <2>1, <2>2, <2>3 DEF VerifyRefreshes, TypeOK, world, registry
<1>5. ASSUME NEW p \in Processes, CheckIdentity(p) PROVE TypeOK'
  <2>1. /\ pc' \in [Processes -> PCs] /\ conn' \in [Processes -> Conns \cup {None}]
        /\ \A q \in Processes : pc'[q] # "none" => conn'[q] \in Conns
    BY <1>5, HandlerTyped DEF CheckIdentity
  <2>2. row' \in Rows
    BY <1>5, RowWrites
  <2> QED
    BY <1>5, <2>1, <2>2 DEF CheckIdentity, TypeOK, world, registry
<1>6. ASSUME NEW p \in Processes, CheckFails(p) \/ AddSwap(p) \/ MarkOnlineCancelled(p)
      PROVE  TypeOK'
  <2>1. /\ pc' \in [Processes -> PCs] /\ conn' \in [Processes -> Conns \cup {None}]
        /\ \A q \in Processes : pc'[q] # "none" => conn'[q] \in Conns
    BY <1>6, HandlerTyped DEF CheckFails, AddSwap, MarkOnlineCancelled
  <2>2. faults' \in Nat
    BY <1>6 DEF CheckFails, AddSwap, MarkOnlineCancelled, Fault, TypeOK
  <2> QED
    BY <1>6, <2>1, <2>2 DEF CheckFails, AddSwap, MarkOnlineCancelled, TypeOK, world, registry
<1>7. ASSUME NEW p \in Processes, MarkOnline(p) PROVE TypeOK'
  <2>1. /\ pc' \in [Processes -> PCs] /\ conn' \in [Processes -> Conns \cup {None}]
        /\ \A q \in Processes : pc'[q] # "none" => conn'[q] \in Conns
    BY <1>7, HandlerTyped DEF MarkOnline
  <2>2. row' \in Rows
    BY <1>7, RowWrites DEF MarkOnline
  <2> QED
    BY <1>7, <2>1, <2>2 DEF MarkOnline, TypeOK, world, registry
<1>8. ASSUME NEW p \in Processes, Evict(p) \/ Remove(p) PROVE TypeOK'
  <2>1. /\ pc' \in [Processes -> PCs] /\ conn' \in [Processes -> Conns \cup {None}]
        /\ \A q \in Processes : pc'[q] # "none" => conn'[q] \in Conns
    BY <1>8, HandlerTyped DEF Evict, Remove, Return
  <2>2. faults' \in Nat
    BY <1>8 DEF Evict, Remove, Fault, TypeOK
  <2> QED
    BY <1>8, <2>1, <2>2 DEF Evict, Remove, TypeOK, world
<1>9. ASSUME NEW p \in Processes, Reclaim(p) PROVE TypeOK'
  <2>1. row' \in Rows
    BY <1>9, RowWrites DEF Reclaim
  <2>2. faults' \in Nat
    BY <1>9 DEF Reclaim, Fault, TypeOK
  <2> QED
    BY <1>9, <2>1, <2>2 DEF Reclaim, TypeOK, world, registry
<1>10. ASSUME NEW p \in Processes, Boot(p) \/ Die(p) PROVE TypeOK'
  BY <1>10 DEF Boot, Die, TypeOK, registry
<1>11. ASSUME NEW m \in Machines, NEW id \in MachineIDs, ResetMachineID(m, id) PROVE TypeOK'
  BY <1>11 DEF ResetMachineID, Descends, Fault, TypeOK, registry
<1>12. ASSUME NEW m \in Machines, NEW u \in UUIDs, ChangeHardware(m, u) PROVE TypeOK'
  <2>1. lineage' \subseteq MachineIDs
    BY <1>12, NoneAssumption DEF ChangeHardware, Descends, TypeOK
  <2>2. faults' \in Nat
    BY <1>12 DEF ChangeHardware, Fault, TypeOK
  <2> QED
    BY <1>12, <2>1, <2>2 DEF ChangeHardware, TypeOK, registry
<1>13. ASSUME CooldownLapses PROVE TypeOK'
  <2>1. row' \in Rows
    BY <1>13, RowWrites
  <2> QED
    BY <1>13, <2>1 DEF CooldownLapses, TypeOK, world, registry
<1>14. ASSUME UNCHANGED vars PROVE TypeOK'
  BY <1>14 DEF vars, world, registry, TypeOK
<1> QED
  BY <1>1, <1>2, <1>3, <1>4, <1>5, <1>6, <1>7, <1>8, <1>9, <1>10, <1>11, <1>12, <1>13,
     <1>14 DEF Next, HandlerStep

\* The row and the handlers are well formed in every reachable state.
THEOREM TypeCorrect == Spec => []TypeOK
<1> QED
  BY TypeInit, TypeStep, PTL DEF Spec

-----------------------------------------------------------------------------
(* Who gets past verifyMachine                                             *)

\* What each verdict says of the two fingerprints.
LEMMA Verdicts ==
    ASSUME NEW r, NEW f
    PROVE  /\ VerifyMachine(r, f) = "unverifiable" => r.uuid = None \/ f.uuid = None
           /\ VerifyMachine(r, f) \in {"same", "midReset"} => sameProductUUID(f.uuid, r.uuid)
           /\ VerifyMachine(r, f) = "hardwareChanged" => f.mid # None /\ f.mid = r.mid
BY DEF VerifyMachine

\* A UUID agrees with itself.
LEMMA SameItself == \A u : u # None => sameProductUUID(u, u)
BY DEF sameProductUUID

\* Nobody has dialled, and the machines with the row's UUID are its lineage.
LEMMA LineageInit == Init => LineageInv
<1> SUFFICES ASSUME Init PROVE LineageInv
  OBVIOUS
<1>1. \A m \in Machines : sameProductUUID(uuidOf[m], row.uuid) => midOf[m] \in lineage \cup {None}
  BY DEF Init
<1>2. row.uuid = uuidOf[Original] /\ row.mid = midOf[Original]
  BY DEF Init
<1>3. RowStaysInLineage
  BY <1>1, <1>2, SameItself, OriginalAssumption DEF RowStaysInLineage
<1>4. \A p \in Processes : pc[p] = "none"
  BY DEF Init
<1> QED
  BY <1>1, <1>3, <1>4 DEF LineageInv, HandlerInv

\* A step of one handler that keeps the row's UUID, and the row in its lineage,
\* has to be judged on that handler alone.
LEMMA OneHandler ==
    ASSUME LineageInv, NEW p \in Processes,
           UNCHANGED <<world, lineage>>,
           row'.uuid = row.uuid,
           row.uuid # None => row'.mid \in lineage \cup {None},
           \A q \in Processes \ {p} : pc'[q] = pc[q] /\ conn'[q] = conn[q],
           HandlerInv(p)'
    PROVE  LineageInv'
<1>1. (\A m \in Machines : sameProductUUID(uuidOf[m], row.uuid) => midOf[m] \in lineage \cup {None})'
  BY DEF LineageInv, world
<1>2. RowStaysInLineage'
  BY DEF RowStaysInLineage
<1>3. ASSUME NEW q \in Processes \ {p} PROVE HandlerInv(q)'
  <2>1. HandlerInv(q)
    BY DEF LineageInv
  <2> QED
    BY <2>1 DEF HandlerInv, Stranger
<1> QED
  BY <1>1, <1>2, <1>3 DEF LineageInv

\* The lineage only grows, and a machine joins it when it takes the row's UUID.
LEMMA MachineChanges ==
    ASSUME LineageInv, UNCHANGED <<row, pc, conn>>, lineage \subseteq lineage',
           \A m \in Machines : sameProductUUID(uuidOf'[m], row.uuid)
                                  => midOf'[m] \in lineage' \cup {None}
    PROVE  LineageInv'
<1>1. (\A m \in Machines : sameProductUUID(uuidOf[m], row.uuid) => midOf[m] \in lineage \cup {None})'
  OBVIOUS
<1>2. RowStaysInLineage'
  BY DEF LineageInv, RowStaysInLineage
<1>3. ASSUME NEW q \in Processes PROVE HandlerInv(q)'
  <2>1. HandlerInv(q)
    BY DEF LineageInv
  <2> QED
    BY <2>1 DEF HandlerInv, Stranger
<1> QED
  BY <1>1, <1>2, <1>3 DEF LineageInv

\* The handler that judges: it goes on only with a fingerprint that is kin.
LEMMA JudgedIsKin ==
    ASSUME LineageInv, NEW p \in Processes, pc[p] = "hello",
           VerifyMachine(conn[p].read, conn[p].fp) # "foreign"
    PROVE  /\ ~Stranger(conn[p].fp)
           /\ VerifyMachine(conn[p].read, conn[p].fp) \in {"midReset", "hardwareChanged"}
                 /\ row.uuid # None => conn[p].fp.mid \in lineage \cup {None}
<1>1. /\ conn[p].read.uuid = row.uuid
      /\ row.uuid # None => conn[p].read.mid \in lineage \cup {None}
      /\ sameProductUUID(conn[p].fp.uuid, row.uuid) => conn[p].fp.mid \in lineage \cup {None}
  BY DEF LineageInv, HandlerInv
<1>2. VerifyMachine(conn[p].read, conn[p].fp)
          \in {"unverifiable", "same", "midReset", "hardwareChanged", "foreign"}
  BY DEF VerifyMachine
<1> QED
  BY <1>1, <1>2, Verdicts DEF Stranger

\* A return forgets the handler's locals; a move past the verdict keeps them.
LEMMA HandlerMoves ==
    ASSUME LineageInv, TypeOK, NEW p \in Processes, UNCHANGED <<world, lineage>>,
           row'.uuid = row.uuid, row'.mid = row.mid,
           \/ Return(p)
           \/ \E to \in PCs \ {"hello"} :
                  pc[p] \notin {"none", "hello"} /\ Goto(p, to) /\ UNCHANGED conn
    PROVE  LineageInv'
<1>1. row.uuid # None => row'.mid \in lineage \cup {None}
  BY DEF LineageInv, RowStaysInLineage
<1>2. pc \in [Processes -> PCs] /\ conn \in [Processes -> Conns \cup {None}]
  BY DEF TypeOK
<1>3. \A q \in Processes \ {p} : pc'[q] = pc[q] /\ conn'[q] = conn[q]
  BY <1>2 DEF Return, Goto
<1>4. CASE Return(p)
  <2>1. pc'[p] = "none"
    BY <1>2, <1>4 DEF Return, Goto
  <2>2. HandlerInv(p)'
    BY <2>1 DEF HandlerInv
  <2> QED
    BY <1>1, <1>3, <2>2, OneHandler
<1>5. ASSUME NEW to \in PCs \ {"hello"}, pc[p] \notin {"none", "hello"}, Goto(p, to), UNCHANGED conn
      PROVE  LineageInv'
  <2>1. pc'[p] # "hello"
    BY <1>2, <1>5 DEF Goto
  <2>2. ~Stranger(conn[p].fp)
    BY <1>5 DEF LineageInv, HandlerInv
  <2>3. ~Stranger(conn[p].fp)'
    BY <1>5, <2>2 DEF Stranger
  <2>4. HandlerInv(p)'
    BY <2>1, <2>3 DEF HandlerInv
  <2> QED
    BY <1>1, <1>3, <2>4, OneHandler
<1> QED
  BY <1>4, <1>5

\* Every step keeps the row in its lineage and strangers out.
LEMMA LineageStep == TypeOK /\ LineageInv /\ [Next]_vars => LineageInv'
<1> SUFFICES ASSUME TypeOK, LineageInv, [Next]_vars PROVE LineageInv'
  OBVIOUS
<1>0. pc \in [Processes -> PCs] /\ conn \in [Processes -> Conns \cup {None}]
  BY DEF TypeOK
<1>1. ASSUME NEW p \in Processes, Dial(p) PROVE LineageInv'
  <2>1. pc'[p] = "hello" /\ conn'[p] = [read |-> [uuid |-> row.uuid, mid |-> row.mid],
                                        fp |-> Reports(onMachine[p])]
    BY <1>0, <1>1 DEF Dial, Goto
  <2>2. onMachine[p] \in Machines
    BY DEF TypeOK
  <2>3. /\ row.uuid # None => row.mid \in lineage \cup {None}
        /\ sameProductUUID(uuidOf[onMachine[p]], row.uuid) => midOf[onMachine[p]] \in lineage \cup {None}
    BY <2>2 DEF LineageInv, RowStaysInLineage
  <2>4. row' = row /\ lineage' = lineage
    BY <1>1 DEF Dial
  <2>5. HandlerInv(p)'
    BY <2>1, <2>3, <2>4 DEF HandlerInv, Reports
  <2>6. \A q \in Processes \ {p} : pc'[q] = pc[q] /\ conn'[q] = conn[q]
    BY <1>0, <1>1 DEF Dial, Goto
  <2> QED
    BY <1>1, <2>3, <2>5, <2>6, OneHandler DEF Dial
<1>2. ASSUME NEW p \in Processes, VerifyRefuses(p) PROVE LineageInv'
  <2>1. row'.uuid = row.uuid /\ row'.mid = row.mid
    BY <1>2, RowWrites DEF VerifyRefuses
  <2> QED
    BY <1>2, <2>1, HandlerMoves DEF VerifyRefuses
<1>3. ASSUME NEW p \in Processes, VerifyAdmits(p) \/ VerifyRefreshes(p) PROVE LineageInv'
  <2>1. pc[p] = "hello" /\ VerifyMachine(conn[p].read, conn[p].fp) # "foreign"
    BY <1>3 DEF VerifyAdmits, VerifyRefreshes
  <2>2. /\ pc'[p] = "verified" /\ conn'[p].fp = conn[p].fp
        /\ \A q \in Processes \ {p} : pc'[q] = pc[q] /\ conn'[q] = conn[q]
    BY <1>0, <1>3 DEF VerifyAdmits, VerifyRefreshes, Verified, Goto
  <2>3. UNCHANGED <<world, lineage>>
    BY <1>3 DEF VerifyAdmits, VerifyRefreshes
  <2>4. row'.uuid = row.uuid
    BY <1>3, <2>1, RowWrites, Locals DEF VerifyAdmits, VerifyRefreshes
  <2>5. row.uuid # None => row'.mid \in lineage \cup {None}
    <3>1. row.uuid # None => row.mid \in lineage \cup {None}
      BY DEF LineageInv, RowStaysInLineage
    <3>2. CASE row' = row
      BY <3>1, <3>2
    <3>3. CASE RefreshFingerprint(conn[p].fp) /\ VerifyRefreshes(p)
      BY <2>1, <3>3, RowWrites, Locals, JudgedIsKin DEF VerifyRefreshes
    <3> QED
      BY <1>3, <3>2, <3>3 DEF VerifyAdmits, VerifyRefreshes
  <2>6. ~Stranger(conn[p].fp)
    BY <2>1, JudgedIsKin
  <2>7. HandlerInv(p)'
    BY <2>2, <2>3, <2>4, <2>6 DEF HandlerInv, Stranger
  <2> QED
    BY <2>2, <2>3, <2>4, <2>5, <2>7, OneHandler
<1>4. ASSUME NEW p \in Processes, CheckIdentity(p) \/ MarkOnline(p) PROVE LineageInv'
  <2>1. row'.uuid = row.uuid /\ row'.mid = row.mid
    BY <1>4, RowWrites DEF MarkOnline
  <2> QED
    BY <1>4, <2>1, HandlerMoves DEF CheckIdentity, MarkOnline, PCs
<1>5. ASSUME NEW p \in Processes,
             CheckFails(p) \/ AddSwap(p) \/ MarkOnlineCancelled(p) \/ Evict(p) \/ Remove(p)
      PROVE  LineageInv'
  BY <1>5, HandlerMoves DEF CheckFails, AddSwap, MarkOnlineCancelled, Evict, Remove, PCs
<1>6. ASSUME NEW p \in Processes, Boot(p) \/ Die(p) PROVE LineageInv'
  BY <1>6, MachineChanges DEF Boot, Die, LineageInv
<1>7. ASSUME NEW m \in Machines, NEW id \in MachineIDs, ResetMachineID(m, id) PROVE LineageInv'
  <2>1. midOf \in [Machines -> MachineIDs \cup {None}]
    BY DEF TypeOK
  <2>2. /\ uuidOf' = uuidOf /\ lineage \subseteq lineage'
        /\ \A n \in Machines : midOf'[n] = IF n = m THEN id ELSE midOf[n]
        /\ sameProductUUID(uuidOf[m], row.uuid) => id \in lineage' \cup {None}
    BY <1>7, <2>1 DEF ResetMachineID, Descends
  <2> QED
    BY <1>7, <2>2, MachineChanges DEF ResetMachineID, LineageInv
<1>8. ASSUME NEW m \in Machines, NEW u \in UUIDs, ChangeHardware(m, u) PROVE LineageInv'
  <2>1. uuidOf \in [Machines -> UUIDs \cup {None}]
    BY DEF TypeOK
  <2>2. /\ midOf' = midOf /\ lineage \subseteq lineage'
        /\ \A n \in Machines : uuidOf'[n] = IF n = m THEN u ELSE uuidOf[n]
        /\ sameProductUUID(u, row.uuid) => midOf[m] \in lineage' \cup {None}
    BY <1>8, <2>1 DEF ChangeHardware, Descends
  <2> QED
    BY <1>8, <2>2, MachineChanges DEF ChangeHardware, LineageInv
<1>9. ASSUME CooldownLapses \/ (\E p \in Processes : Reclaim(p)) PROVE LineageInv'
  <2>1. row'.uuid = row.uuid /\ row'.mid = row.mid
    BY <1>9, RowWrites DEF Reclaim
  <2>2. UNCHANGED <<uuidOf, midOf, lineage, pc, conn>>
    BY <1>9 DEF CooldownLapses, Reclaim, world
  <2> QED
    BY <2>1, <2>2 DEF LineageInv, RowStaysInLineage, HandlerInv, Stranger
<1>10. ASSUME UNCHANGED vars PROVE LineageInv'
  BY <1>10, MachineChanges DEF vars, world, LineageInv
<1> QED
  BY <1>1, <1>2, <1>3, <1>4, <1>5, <1>6, <1>7, <1>8, <1>9, <1>10 DEF Next, HandlerStep

\* A machine that shares neither the UUID nor a machine-id of the row's lineage
\* never gets past verifyMachine, whatever stale row its handler read.
THEOREM StrangersNeverAdmitted == Spec => []StrangersRefused
<1>1. LineageInv => StrangersRefused
  BY DEF LineageInv, HandlerInv, StrangersRefused
<1> QED
  BY <1>1, TypeInit, TypeStep, LineageInit, LineageStep, PTL DEF Spec

\* RefreshFingerprint never records the machine-id of a machine that did not have
\* the row's UUID.
THEOREM RowNeverDrifts == Spec => []RowStaysInLineage
<1>1. LineageInv => RowStaysInLineage
  BY DEF LineageInv
<1> QED
  BY <1>1, TypeInit, TypeStep, LineageInit, LineageStep, PTL DEF Spec

=============================================================================
