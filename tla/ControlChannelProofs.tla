------------------------ MODULE ControlChannelProofs ------------------------
(***************************************************************************)
(* The registry of ControlChannel is consistent, for any number of         *)
(* instances, agents, hosts, sessions and disturbances: every step keeps   *)
(* RegistryInv.                                                            *)
(***************************************************************************)
EXTENDS ControlChannelRemove

\* Every step keeps the registry consistent: one case per action that touches it.
LEMMA RegistryStep ==
    ASSUME TypeOK, RegistryInv, [Next]_vars
    PROVE  RegistryInv'
<1>0. TypeOK'
  BY TypeStep
<1> USE DEF session, registry, Registered
<1>1. ASSUME NEW s \in Sessions, SessionStep(s)
      PROVE  RegistryInv'
  <2>1. CASE AddSwap(s)
    BY <1>0, <2>1, AddSwapSafe
  <2>2. CASE AddClaim(s) \/ AddClaimFails(s)
    BY <1>0, <2>2, AddReleaseSafe, SMTT(30)
  <2>3. CASE RemoveSuperseded(s)
    BY <1>0, <2>3, RemoveSupersededSafe
  <2>4. CASE RemoveSwap(s)
    BY <1>0, <2>4, RemoveSwapSafe
  <2>5. CASE RemoveMarkOffline(s)
    BY <1>0, <2>5, RemoveMarkOfflineSafe
  <2>6. CASE IssueToken(s) \/ RefreshRead(s) \/ RefreshWrite(s)
    BY <1>0, <2>6, QuietStep, SMTT(30) DEF TypeOK, IssueToken, RefreshRead, RefreshWrite
  <2>7. CASE ReadBeat(s)
    BY <1>0, <2>7, QuietStep, SMTT(30) DEF TypeOK, ReadBeat
  <2>8. CASE TouchClaimed(s)
    BY <1>0, <2>8, QuietStep, SMTT(30) DEF TypeOK, TouchClaimed, AfterBeat
  <2>9. CASE TouchMissed(s) \/ TouchFails(s)
    BY <1>0, <2>9, QuietStep, SMTT(30) DEF TypeOK, TouchMissed, TouchFails, AfterBeat
  <2>10. CASE Reclaim(s) \/ ReclaimNotFound(s)
    BY <1>0, <2>10, QuietStep, SMTT(30) DEF TypeOK, Reclaim, ReclaimNotFound
  <2>11. CASE ReadLoopEnds(s) \/ Drop(s)
    BY <1>0, <2>11, QuietStep DEF TypeOK, ReadLoopEnds, Drop
  <2> QED
    BY <1>1, <2>1, <2>2, <2>3, <2>4, <2>5, <2>6, <2>7, <2>8, <2>9, <2>10, <2>11
       DEF SessionStep
<1>2. ASSUME NEW s \in Sessions, NEW a \in Agents, NEW i \in Instances, NEW h \in Hosts,
             Accept(s, a, i, h)
      PROVE  RegistryInv'
  BY <1>0, <1>2, AcceptSafe
<1>3. ASSUME NEW i \in Instances, InstanceStep(i)
      PROVE  RegistryInv'
  <2>1. CASE Crash(i)
    BY <1>0, <2>1, CrashSafe
  <2>2. CASE BootSweep(i) \/ BootRegister(i)
    BY <1>0, <2>2, QuietStep, SMTT(30) DEF BootSweep, BootRegister
  <2>3. CASE LeaseLapses(i) \/ LeaseRenew(i) \/ SweepStale(i)
    BY <1>0, <2>3, QuietStep, SMTT(30) DEF LeaseLapses, LeaseRenew, SweepStale
  <2>4. CASE Shutdown(i)
    BY <1>0, <2>4, QuietStep DEF Shutdown
  <2>5. CASE \E h \in Hosts : EvictContended(i, h)
    BY <1>0, <2>5, QuietStep DEF TypeOK, EvictContended
  <2> QED
    BY <1>3, <2>1, <2>2, <2>3, <2>4, <2>5 DEF InstanceStep
<1>4. CASE \E a \in Agents : AgentDies(a) \/ \E h \in Hosts : Register(a, h)
  BY <1>0, <1>4, QuietStep DEF AgentDies, Register
<1>5. CASE \E h \in Hosts : RowAges(h) \/ DeleteHost(h)
  BY <1>0, <1>5, QuietStep DEF RowAges, DeleteHost
<1>6. CASE \/ \E from, to \in Hosts : MergeCheck(from, to)
           \/ MergeRead \/ MergeMove \/ MergeCopyFacts
           \/ MergeDelete \/ MergeNotFound \/ MergeFails
  BY <1>0, <1>6, QuietStep
     DEF MergeCheck, MergeRead, MergeMove, MergeCopyFacts, MergeDelete,
         MergeNotFound, MergeFails
<1>7. CASE UNCHANGED vars
  BY <1>0, <1>7, QuietStep DEF vars
<1> QED
  BY <1>1, <1>2, <1>3, <1>4, <1>5, <1>6, <1>7 DEF Next

\* The per-agent lock orders connects: a session that is being added is the
\* current one until its MarkOnline has returned, and nobody is current while a
\* Remove has its MarkOffline to run.
THEOREM ConnectsOrdered == Spec => []ConnectOrder
<1>1. TypeOK /\ RegistryInv /\ [Next]_vars => (TypeOK /\ RegistryInv)'
  BY TypeStep, RegistryStep
<1>2. RegistryInv => ConnectOrder
  BY DEF RegistryInv
<1> QED
  BY TypeInit, RegistryInit, <1>1, <1>2, PTL DEF Spec

\* On one instance every registered channel of an agent but the current one has
\* been cancelled.
THEOREM SupersededAreStopped == Spec => []OneLiveChannel
<1>1. TypeOK /\ RegistryInv /\ [Next]_vars => (TypeOK /\ RegistryInv)'
  BY TypeStep, RegistryStep
<1>2. RegistryInv => OneLiveChannel
  BY DEF RegistryInv
<1> QED
  BY TypeInit, RegistryInit, <1>1, <1>2, PTL DEF Spec

\* GetByHost only ever returns the current session of an agent, opened for the
\* host that was asked for.
THEOREM HostMapFollowsAgentMap == Spec => []NoDanglingHost
<1>1. TypeOK /\ RegistryInv /\ [Next]_vars => (TypeOK /\ RegistryInv)'
  BY TypeStep, RegistryStep
<1>2. RegistryInv => NoDanglingHost
  BY DEF RegistryInv
<1> QED
  BY TypeInit, RegistryInit, <1>1, <1>2, PTL DEF Spec

=============================================================================
