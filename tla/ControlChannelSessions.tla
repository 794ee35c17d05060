----------------------- MODULE ControlChannelSessions -----------------------
(***************************************************************************)
(* The steps of a session of ControlChannel keep the types: lemmas for     *)
(* ControlChannelTypes.                                                    *)
(***************************************************************************)
EXTENDS ControlChannel, TLAPS

\* The statements on one row of host_agents write rows.
LEMMA RowsPreserved ==
    ASSUME row \in [Hosts -> Rows \cup {None}], clock \in Nat
    PROVE  /\ \A h \in Hosts, i \in Instances :
                  MarkOnline(h, i) => row' \in [Hosts -> Rows \cup {None}] /\ clock' \in Nat
           /\ \A h \in Hosts, i \in Instances :
                  Claimed(h, i) /\ Touch(h) => row' \in [Hosts -> Rows \cup {None}]
           /\ \A h \in Hosts, i \in Instances :
                  MarkOffline(h, i) => row' \in [Hosts -> Rows \cup {None}]
<1>1. ASSUME NEW h \in Hosts, NEW i \in Instances, MarkOnline(h, i)
      PROVE  row' \in [Hosts -> Rows \cup {None}] /\ clock' \in Nat
  <2>1. row[h] \in Rows
    BY <1>1 DEF MarkOnline, HasRow
  <2>2. [agent |-> row[h].agent, status |-> "online", inst |-> i,
         epoch |-> clock + 1, fresh |-> TRUE] \in Rows
    BY <2>1 DEF Rows
  <2> QED
    BY <1>1, <2>2 DEF MarkOnline
<1>2. ASSUME NEW h \in Hosts, NEW i \in Instances, Claimed(h, i), Touch(h)
      PROVE  row' \in [Hosts -> Rows \cup {None}]
  <2>1. row[h] \in Rows
    BY <1>2 DEF Claimed, HasRow
  <2>2. [row[h] EXCEPT !.fresh = TRUE] \in Rows
    BY <2>1 DEF Rows
  <2> QED
    BY <1>2, <2>2 DEF Touch
<1>3. ASSUME NEW h \in Hosts, NEW i \in Instances, MarkOffline(h, i)
      PROVE  row' \in [Hosts -> Rows \cup {None}]
  <2>1. CASE Claimed(h, i)
    <3>1. row[h] \in Rows
      BY <2>1 DEF Claimed, HasRow
    <3>2. [row[h] EXCEPT !.status = "offline"] \in Rows
      BY <3>1 DEF Rows
    <3> QED
      BY <1>3, <2>1, <3>2 DEF MarkOffline
  <2>2. CASE ~Claimed(h, i)
    BY <1>3, <2>2 DEF MarkOffline
  <2> QED
    BY <2>1, <2>2
<1> QED
  BY <1>1, <1>2, <1>3

\* A session.token frame, delivered, lost or never signed, leaves tokens and flags typed.
LEMMA DeliveryTyped ==
    ASSUME TypeOK, NEW s \in Sessions, InUse(s), NEW e \in Nat,
           Deliver(s, e) \/ DeliverFails(s) \/ SignFails
    PROVE  /\ token' \in [Agents -> Tokens \cup {None}]
           /\ tokenSent' \in [Sessions -> BOOLEAN]
           /\ faults' \in Nat
<1>1. sAgent[s] \in Agents /\ [host |-> sHost[s], epoch |-> e] \in Tokens
  BY DEF TypeOK, Tokens
<1>2. CASE Deliver(s, e)
  BY <1>1, <1>2 DEF TypeOK, Deliver
<1>3. CASE DeliverFails(s)
  BY <1>3 DEF TypeOK, DeliverFails, Fault
<1>4. CASE SignFails
  BY <1>4 DEF TypeOK, SignFails, Fault
<1> QED
  BY <1>2, <1>3, <1>4

\* Sessions that are forgotten go back to the unused state.
LEMMA ForgetTyped ==
    ASSUME TypeOK, NEW S, Forget(S)
    PROVE  /\ pc' \in [Sessions -> PCs]
           /\ sAgent' \in [Sessions -> Agents \cup {None}]
           /\ sHost' \in [Sessions -> Hosts \cup {None}]
           /\ sInst' \in [Sessions -> Instances \cup {None}]
           /\ epoch' \in [Sessions -> Nat]
           /\ tokenSent' \in [Sessions -> BOOLEAN]
           /\ refresh' \in [Sessions -> Nat]
           /\ stopped' \in [Sessions -> BOOLEAN]
           /\ linked' \in [Sessions -> BOOLEAN]
           /\ \A s \in Sessions : InUse(s)' =>
                  sAgent'[s] \in Agents /\ sHost'[s] \in Hosts /\ sInst'[s] \in Instances
BY DEF TypeOK, Forget, PCs, InUse

\* Every step of a channel's goroutines keeps the types: one case per action.
LEMMA SessionStepTyped ==
    ASSUME TypeOK, NEW s \in Sessions, SessionStep(s)
    PROVE  TypeOK'
<1> USE DEF tables, registry, session, cluster, peer, Fault, InUse
<1>1. CASE AddSwap(s)
  BY <1>1 DEF TypeOK, AddSwap, FileByHost, Cancel, SetLock, PCs
<1>2. CASE AddClaim(s)
  BY <1>2, RowsPreserved DEF TypeOK, AddClaim, SetLock, PCs
<1>3. CASE AddClaimFails(s)
  BY <1>3 DEF TypeOK, AddClaimFails, SetLock, PCs
<1>4. CASE IssueToken(s)
  <2>1. InUse(s) /\ epoch[s] \in Nat /\ (Deliver(s, epoch[s]) \/ DeliverFails(s) \/ SignFails)
    BY <1>4 DEF TypeOK, IssueToken
  <2> QED
    BY <1>4, <2>1, DeliveryTyped DEF TypeOK, IssueToken, PCs
<1>5. CASE RefreshRead(s)
  BY <1>5 DEF TypeOK, RefreshRead
<1>6. CASE RefreshWrite(s)
  <2>1. InUse(s) /\ refresh[s] \in Nat /\ (Deliver(s, refresh[s]) \/ DeliverFails(s))
    BY <1>6 DEF TypeOK, RefreshWrite
  <2> QED
    BY <1>6, <2>1, DeliveryTyped DEF TypeOK, RefreshWrite
<1>7. CASE ReadBeat(s)
  BY <1>7 DEF TypeOK, ReadBeat, PCs
<1>8. CASE TouchClaimed(s)
  BY <1>8, RowsPreserved DEF TypeOK, TouchClaimed, AfterBeat, PCs
<1>9. CASE TouchMissed(s)
  BY <1>9 DEF TypeOK, TouchMissed, AfterBeat, PCs
<1>10. CASE TouchFails(s)
  BY <1>10 DEF TypeOK, TouchFails, AfterBeat, PCs
<1>11. CASE Reclaim(s)
  BY <1>11, RowsPreserved, SMTT(20) DEF TypeOK, Reclaim, PCs
<1>12. CASE ReclaimNotFound(s)
  BY <1>12 DEF TypeOK, ReclaimNotFound, PCs
<1>13. CASE ReadLoopEnds(s)
  BY <1>13 DEF TypeOK, ReadLoopEnds, PCs
<1>14. CASE RemoveSuperseded(s)
  BY <1>14 DEF TypeOK, RemoveSuperseded, Forget, PCs
<1>15. CASE RemoveSwap(s)
  BY <1>15 DEF TypeOK, RemoveSwap, SetLock, PCs
<1>16. CASE RemoveMarkOffline(s)
  <2>1. row' \in [Hosts -> Rows \cup {None}] /\ faults' \in Nat
    BY <1>16, RowsPreserved, SMTT(20) DEF TypeOK, RemoveMarkOffline
  <2> QED
    BY <1>16, <2>1 DEF TypeOK, RemoveMarkOffline, SetLock, Forget, PCs
<1>17. CASE Drop(s)
  BY <1>17 DEF TypeOK, Drop
<1> QED
  BY <1>1, <1>2, <1>3, <1>4, <1>5, <1>6, <1>7, <1>8, <1>9, <1>10, <1>11,
     <1>12, <1>13, <1>14, <1>15, <1>16, <1>17 DEF SessionStep

=============================================================================
