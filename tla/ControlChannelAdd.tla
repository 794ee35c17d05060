------------------------- MODULE ControlChannelAdd --------------------------
(***************************************************************************)
(* Registry.Add of ControlChannel, and every step that leaves the registry *)
(* alone, keep the registry consistent.                                    *)
(***************************************************************************)
EXTENDS ControlChannelTypes

\* A step that leaves the maps and the locks alone, moves goroutines only inside
\* their registered life, and un-cancels nobody.
LEMMA QuietStep ==
    ASSUME TypeOK, TypeOK', RegistryInv,
           UNCHANGED <<registry, sAgent, sHost, sInst>>,
           \A s \in Sessions : \/ pc'[s] = pc[s]
                               \/ /\ pc[s] \in Registered \ {"adding"}
                                  /\ pc'[s] \in Registered \ {"adding"},
           \A s \in Sessions : stopped[s] => stopped'[s]
    PROVE  RegistryInv'
<1> USE DEF Current
<1>1. /\ UNCHANGED <<connLock, byAgent, byHost, sAgent, sHost, sInst>>
      /\ connLock \in [Instances -> [Agents -> Sessions \cup {None}]]
      /\ byAgent \in [Instances -> [Agents -> Sessions \cup {None}]]
      /\ byHost \in [Instances -> [Hosts -> Sessions \cup {None}]]
  BY DEF TypeOK, registry
<1>2. \A s \in Sessions : pc[s] \in {"adding", "removing"} \/ pc'[s] \in {"adding", "removing"}
                            => pc'[s] = pc[s]
  BY DEF Registered
<1>3. \A s \in Sessions : pc[s] \in Registered <=> pc'[s] \in Registered
  OBVIOUS
<1>4. LockDiscipline'
  BY <1>1, <1>2 DEF RegistryInv, LockDiscipline
<1>5. MapDiscipline'
  BY <1>1, <1>3 DEF RegistryInv, MapDiscipline
<1>6. ConnectOrder'
  BY <1>1, <1>2 DEF RegistryInv, ConnectOrder
<1>7. OneLiveChannel'
  BY <1>1, <1>3 DEF RegistryInv, OneLiveChannel
<1>8. NoDanglingHost'
  BY <1>1, <1>3 DEF RegistryInv, NoDanglingHost
<1> QED
  BY <1>4, <1>5, <1>6, <1>7, <1>8 DEF RegistryInv

\* Empty maps and free locks are consistent.
LEMMA RegistryInit == Init => RegistryInv
BY NoneAssumption DEF Init, RegistryInv, LockDiscipline, MapDiscipline, ConnectOrder, OneLiveChannel,
       NoDanglingHost, Registered, Current

\* Add's critical section: the new session becomes current under the lock, and the one
\* it replaces is cancelled in the same step.
LEMMA AddSwapSafe ==
    ASSUME TypeOK, TypeOK', RegistryInv, NEW s \in Sessions, AddSwap(s)
    PROVE  RegistryInv'
<1> DEFINE i == sInst[s]
           a == sAgent[s]
           h == sHost[s]
           prev == byAgent[i][a]
<1>1. /\ i \in Instances /\ a \in Agents /\ h \in Hosts
      /\ pc[s] = "accepted" /\ connLock[i][a] = None
      /\ UNCHANGED <<sAgent, sHost, sInst>>
  BY DEF TypeOK, AddSwap, InUse, LockFree
<1>2. \A j \in Instances, b \in Agents :
          /\ byAgent[j][b] \in Sessions \cup {None}
          /\ connLock[j][b] \in Sessions \cup {None}
          /\ byAgent'[j][b] = IF j = i /\ b = a THEN s ELSE byAgent[j][b]
          /\ connLock'[j][b] = IF j = i /\ b = a THEN (IF stopped[s] THEN None ELSE s)
                                                   ELSE connLock[j][b]
  BY <1>1, SMTT(20) DEF TypeOK, AddSwap, SetLock
<1>3. \A j \in Instances, g \in Hosts :
          /\ byHost[j][g] \in Sessions \cup {None}
          /\ byHost'[j][g] = IF j # i THEN byHost[j][g]
                             ELSE IF g = h THEN s
                             ELSE IF prev # None /\ sHost[prev] # h /\ g = sHost[prev] THEN None
                             ELSE byHost[j][g]
  BY <1>1 DEF TypeOK, AddSwap, FileByHost, Current
<1>4. \A t \in Sessions :
          /\ pc'[t] = IF t = s THEN (IF stopped[s] THEN "serving" ELSE "adding") ELSE pc[t]
          /\ t = prev \/ stopped[t] => stopped'[t]
          /\ pc[t] # "free" => sInst[t] \in Instances /\ sAgent[t] \in Agents
  <2>1. \A t \in Sessions :
            pc'[t] = IF t = s THEN (IF stopped[s] THEN "serving" ELSE "adding") ELSE pc[t]
    BY DEF TypeOK, AddSwap
  <2>2. stopped' = [t \in Sessions |-> stopped[t] \/ t = prev]
    BY DEF AddSwap, Cancel, Current
  <2>3. \A t \in Sessions : pc[t] # "free" => sInst[t] \in Instances /\ sAgent[t] \in Agents
    BY DEF TypeOK, InUse
  <2> QED
    BY <2>1, <2>2, <2>3
<1> HIDE DEF i, a, h, prev
<1>5. LockDiscipline'
  BY <1>1, <1>2, <1>4, NoneAssumption DEF RegistryInv, LockDiscipline, i, a
<1>6. MapDiscipline'
  BY <1>1, <1>2, <1>4 DEF RegistryInv, MapDiscipline, i, a, Registered
<1>7. ConnectOrder'
  BY <1>1, <1>2, <1>4, NoneAssumption DEF RegistryInv, ConnectOrder, LockDiscipline, Current, i, a
<1>8. OneLiveChannel'
  BY <1>1, <1>2, <1>4 DEF RegistryInv, OneLiveChannel, Registered, Current, i, a, prev
<1>9. NoDanglingHost'
  <2> SUFFICES ASSUME NEW j \in Instances, NEW g \in Hosts, NEW t \in Sessions, byHost'[j][g] = t
               PROVE  pc'[t] \in Registered /\ sInst'[t] = j /\ sHost'[t] = g /\ Current(t)' = t
    BY DEF NoDanglingHost
  <2>1. CASE j = i /\ g = h
    BY <1>1, <1>2, <1>3, <1>4, <2>1 DEF Registered, Current, i, a, h
  <2>2. CASE ~(j = i /\ g = h)
    <3>1. byHost[j][g] = t
      BY <1>3, <2>2, NoneAssumption
    <3>2. pc[t] \in Registered /\ sInst[t] = j /\ sHost[t] = g /\ byAgent[j][sAgent[t]] = t
      BY <3>1 DEF RegistryInv, NoDanglingHost, Current
    <3>3. t # s /\ pc'[t] = pc[t] /\ sAgent[t] \in Agents
      BY <1>1, <1>4, <3>2 DEF Registered
    <3>4. ~(j = i /\ sAgent[t] = a)
      BY <1>3, <2>2, <3>1, <3>2, NoneAssumption DEF prev, h
    <3> QED
      BY <1>1, <1>2, <3>2, <3>3, <3>4 DEF Current
  <2> QED
    BY <2>1, <2>2
<1> QED
  BY <1>5, <1>6, <1>7, <1>8, <1>9 DEF RegistryInv

\* The end of Add: MarkOnline has returned or failed and the lock is released.
LEMMA AddReleaseSafe ==
    ASSUME TypeOK, TypeOK', RegistryInv, NEW s \in Sessions,
           AddClaim(s) \/ AddClaimFails(s)
    PROVE  RegistryInv'
<1> DEFINE i == sInst[s]
           a == sAgent[s]
<1>1. /\ i \in Instances /\ a \in Agents
      /\ pc[s] = "adding"
      /\ UNCHANGED <<byAgent, byHost, sAgent, sHost, sInst, stopped>>
  BY DEF TypeOK, AddClaim, AddClaimFails, InUse, session
<1>2. \A j \in Instances, b \in Agents :
          /\ connLock[j][b] \in Sessions \cup {None}
          /\ connLock'[j][b] = IF j = i /\ b = a THEN None ELSE connLock[j][b]
  BY <1>1 DEF TypeOK, AddClaim, AddClaimFails, SetLock
<1>3. \A t \in Sessions :
          /\ pc'[t] = pc[t] \/ (t = s /\ pc'[t] \in {"issuing", "serving"})
          /\ pc[t] # "free" => sInst[t] \in Instances /\ sAgent[t] \in Agents
  <2>1. pc' = [pc EXCEPT ![s] = "issuing"] \/ pc' = [pc EXCEPT ![s] = "serving"]
    BY DEF AddClaim, AddClaimFails
  <2>2. pc \in [Sessions -> PCs]
    BY DEF TypeOK
  <2>3. \A t \in Sessions : pc'[t] = pc[t] \/ (t = s /\ pc'[t] \in {"issuing", "serving"})
    BY <2>1, <2>2
  <2>4. \A t \in Sessions : pc[t] # "free" => sInst[t] \in Instances /\ sAgent[t] \in Agents
    BY DEF TypeOK, InUse
  <2> QED
    BY <2>3, <2>4, SMTT(20)
<1>4. pc'[s] \in {"issuing", "serving"}
  BY SMTT(20) DEF TypeOK, AddClaim, AddClaimFails
<1> HIDE DEF i, a
<1>5. LockDiscipline'
  BY <1>1, <1>2, <1>3, <1>4, NoneAssumption DEF RegistryInv, LockDiscipline, i, a
<1>6. MapDiscipline'
  BY <1>1, <1>3 DEF RegistryInv, MapDiscipline, Registered
<1>7. ConnectOrder'
  BY <1>1, <1>3 DEF RegistryInv, ConnectOrder, Current
<1>8. OneLiveChannel'
  BY <1>1, <1>3 DEF RegistryInv, OneLiveChannel, Registered, Current
<1>9. NoDanglingHost'
  BY <1>1, <1>3 DEF RegistryInv, NoDanglingHost, Registered, Current
<1> QED
  BY <1>5, <1>6, <1>7, <1>8, <1>9 DEF RegistryInv

\* A channel that has been accepted is in no map yet.
LEMMA AcceptSafe ==
    ASSUME TypeOK, TypeOK', RegistryInv, NEW s \in Sessions, NEW a \in Agents,
           NEW i \in Instances, NEW h \in Hosts, Accept(s, a, i, h)
    PROVE  RegistryInv'
<1>1. UNCHANGED <<connLock, byAgent, byHost, stopped>>
  BY DEF Accept, registry
<1>2. pc[s] = "free" /\ pc'[s] = "accepted"
  BY DEF TypeOK, Accept
<1>3. \A t \in Sessions \ {s} : pc'[t] = pc[t] /\ sAgent'[t] = sAgent[t]
                                /\ sInst'[t] = sInst[t] /\ sHost'[t] = sHost[t]
  BY DEF TypeOK, Accept
<1>4. LockDiscipline'
  BY <1>1, <1>2, <1>3 DEF RegistryInv, LockDiscipline
<1>5. MapDiscipline'
  BY <1>1, <1>2, <1>3 DEF RegistryInv, MapDiscipline, Registered
<1>6. ConnectOrder'
  BY <1>1, <1>2, <1>3 DEF RegistryInv, ConnectOrder, Current
<1>7. OneLiveChannel'
  BY <1>1, <1>2, <1>3 DEF RegistryInv, OneLiveChannel, Registered, Current
<1>8. NoDanglingHost'
  BY <1>1, <1>2, <1>3 DEF RegistryInv, NoDanglingHost, Registered, Current
<1> QED
  BY <1>4, <1>5, <1>6, <1>7, <1>8 DEF RegistryInv

=============================================================================
