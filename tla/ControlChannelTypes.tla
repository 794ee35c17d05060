------------------------ MODULE ControlChannelTypes -------------------------
(***************************************************************************)
(* ControlChannel is well typed, for any number of instances, agents,      *)
(* hosts, sessions and disturbances.                                       *)
(***************************************************************************)
EXTENDS ControlChannelSessions

\* A sweep, of orphaned or of stale rows, writes rows.
LEMMA SweepPreservesRows ==
    ASSUME row \in [Hosts -> Rows \cup {None}], NEW expired, SweepOffline(expired)
    PROVE  row' \in [Hosts -> Rows \cup {None}]
<1>1. \A r \in Rows : [r EXCEPT !.status = "offline"] \in Rows
  BY DEF Rows
<1> QED
  BY <1>1 DEF SweepOffline, HasRow

\* Every initial state is typed.
LEMMA TypeInit == Init => TypeOK
BY DEF Init, TypeOK, PCs, InUse, InstanceStates

\* Every step keeps the types: one case per action.
LEMMA TypeStep == TypeOK /\ [Next]_vars => TypeOK'
<1> SUFFICES ASSUME TypeOK, [Next]_vars
             PROVE  TypeOK'
  OBVIOUS
<1> USE DEF tables, registry, session, cluster, peer, Fault, InUse
<1>1. ASSUME NEW s \in Sessions, SessionStep(s)
      PROVE  TypeOK'
  BY <1>1, SessionStepTyped
<1>2. ASSUME NEW s \in Sessions, NEW a \in Agents, NEW i \in Instances, NEW h \in Hosts,
             Accept(s, a, i, h)
      PROVE  TypeOK'
  BY <1>2 DEF TypeOK, Accept, PCs
<1>3. ASSUME NEW i \in Instances, InstanceStep(i)
      PROVE  TypeOK'
  <2>1. CASE BootSweep(i)
    BY <2>1, SweepPreservesRows DEF TypeOK, BootSweep, InstanceStates
  <2>2. CASE BootRegister(i)
    BY <2>2 DEF TypeOK, BootRegister, InstanceStates
  <2>3. CASE Crash(i)
    <3>1. /\ inst' \in [Instances -> InstanceStates] /\ faults' \in Nat
          /\ byAgent' \in [Instances -> [Agents -> Sessions \cup {None}]]
          /\ byHost' \in [Instances -> [Hosts -> Sessions \cup {None}]]
          /\ connLock' \in [Instances -> [Agents -> Sessions \cup {None}]]
      BY <2>3 DEF TypeOK, Crash, InstanceStates
    <3>2. UNCHANGED <<hosts, row, issued, clock, lease, agentUp, token, merge>>
      BY <2>3 DEF Crash
    <3>3. PICK S : Forget(S)
      BY <2>3 DEF Crash
    <3> QED
      BY <3>1, <3>2, <3>3, ForgetTyped DEF TypeOK
  <2>4. CASE Shutdown(i)
    BY <2>4 DEF TypeOK, Shutdown, InstanceStates
  <2>5. CASE LeaseLapses(i)
    BY <2>5 DEF TypeOK, LeaseLapses
  <2>6. CASE LeaseRenew(i)
    BY <2>6 DEF TypeOK, LeaseRenew
  <2>7. CASE SweepStale(i)
    BY <2>7, SweepPreservesRows DEF TypeOK, SweepStale
  <2>8. CASE \E h \in Hosts : EvictContended(i, h)
    BY <2>8 DEF TypeOK, EvictContended
  <2> QED
    BY <1>3, <2>1, <2>2, <2>3, <2>4, <2>5, <2>6, <2>7, <2>8 DEF InstanceStep
<1>4. ASSUME NEW a \in Agents, NEW h \in Hosts, Register(a, h)
      PROVE  TypeOK'
  <2>1. [agent |-> a, status |-> "offline", inst |-> None, epoch |-> 0, fresh |-> FALSE]
          \in Rows
    BY DEF Rows
  <2> QED
    BY <1>4, <2>1 DEF TypeOK, Register
<1>5. ASSUME NEW a \in Agents, AgentDies(a)
      PROVE  TypeOK'
  BY <1>5 DEF TypeOK, AgentDies
<1>6. ASSUME NEW h \in Hosts, RowAges(h)
      PROVE  TypeOK'
  <2>1. row[h] \in Rows
    BY <1>6 DEF TypeOK, RowAges, HasRow
  <2>2. [row[h] EXCEPT !.fresh = FALSE] \in Rows
    BY <2>1 DEF Rows
  <2> QED
    BY <1>6, <2>2 DEF TypeOK, RowAges
<1>7. ASSUME NEW from \in Hosts, NEW to \in Hosts, MergeCheck(from, to)
      PROVE  TypeOK'
  BY <1>7 DEF TypeOK, MergeCheck, Merges
<1>8. ASSUME NEW step \in {"moving", "copying", "deleting"}, merge \in Merges
      PROVE  /\ [merge EXCEPT !.step = step] \in Merges
             /\ merge.from \in Hosts /\ merge.to \in Hosts
  BY <1>8 DEF Merges
<1>9. CASE MergeRead
  <2>1. merge \in Merges
    BY <1>9 DEF TypeOK, MergeRead, At
  <2> QED
    BY <1>9, <2>1, <1>8 DEF TypeOK, MergeRead, MergeGoto
<1>10. CASE MergeMove
  <2>1. merge \in Merges
    BY <1>10 DEF TypeOK, MergeMove, At
  <2> QED
    BY <1>10, <2>1, <1>8 DEF TypeOK, MergeMove, MergeGoto
<1>11. CASE MergeCopyFacts \/ MergeNotFound \/ MergeDelete
  <2>1. CASE MergeCopyFacts
    <3>1. merge \in Merges
      BY <2>1 DEF TypeOK, MergeCopyFacts, At
    <3> QED
      BY <2>1, <3>1, <1>8 DEF TypeOK, MergeCopyFacts, MergeGoto
  <2>2. CASE MergeNotFound
    BY <2>2 DEF TypeOK, MergeNotFound
  <2>3. CASE MergeDelete
    BY <2>3 DEF TypeOK, MergeDelete, RemoveHost
  <2> QED
    BY <1>11, <2>1, <2>2, <2>3
<1>12. CASE MergeFails
  BY <1>12 DEF TypeOK, MergeFails
<1>13. CASE UNCHANGED vars
  BY <1>13 DEF TypeOK, vars
<1>14. ASSUME NEW h \in Hosts, DeleteHost(h)
       PROVE  TypeOK'
  BY <1>14 DEF TypeOK, DeleteHost, RemoveHost
<1> QED
  BY <1>1, <1>2, <1>3, <1>4, <1>5, <1>6, <1>7, <1>9, <1>10, <1>11, <1>12,
     <1>13, <1>14 DEF Next

\* Every reachable state is well typed, and a session in use always belongs to
\* some agent, host and instance.
THEOREM TypeCorrect == Spec => []TypeOK
  BY TypeInit, TypeStep, PTL DEF Spec

=============================================================================
