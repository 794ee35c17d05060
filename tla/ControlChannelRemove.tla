------------------------ MODULE ControlChannelRemove ------------------------
(***************************************************************************)
(* Registry.Remove of ControlChannel, and the crash of an instance, keep   *)
(* the registry consistent.                                                *)
(***************************************************************************)
EXTENDS ControlChannelAdd

\* Remove of a superseded session changes neither map.
LEMMA RemoveSupersededSafe ==
    ASSUME TypeOK, TypeOK', RegistryInv, NEW s \in Sessions, RemoveSuperseded(s)
    PROVE  RegistryInv'
<1>1. UNCHANGED <<connLock, byAgent, byHost>> /\ pc[s] = "closing" /\ pc'[s] = "free"
  BY DEF RemoveSuperseded, Forget, registry
<1>2. \A t \in Sessions \ {s} : /\ pc'[t] = pc[t] /\ sAgent'[t] = sAgent[t]
                                /\ sInst'[t] = sInst[t] /\ sHost'[t] = sHost[t]
                                /\ stopped'[t] = stopped[t]
  BY DEF TypeOK, RemoveSuperseded, Forget
<1>3. \A i \in Instances, a \in Agents : byAgent[i][a] # s
  BY DEF RegistryInv, MapDiscipline, RemoveSuperseded, Current
<1>4. \A i \in Instances, h \in Hosts : byHost[i][h] # s
  BY DEF RegistryInv, NoDanglingHost, RemoveSuperseded
<1>5. LockDiscipline'
  BY <1>1, <1>2 DEF RegistryInv, LockDiscipline
<1>6. MapDiscipline'
  BY <1>1, <1>2, <1>3 DEF RegistryInv, MapDiscipline
<1>7. ConnectOrder'
  BY <1>1, <1>2 DEF RegistryInv, ConnectOrder, Current
<1>8. OneLiveChannel'
  BY <1>1, <1>2 DEF RegistryInv, OneLiveChannel, Registered, Current
<1>9. NoDanglingHost'
  BY <1>1, <1>2, <1>4 DEF RegistryInv, NoDanglingHost, Current
<1> QED
  BY <1>5, <1>6, <1>7, <1>8, <1>9 DEF RegistryInv

\* Remove of the current session takes its keys, and only its keys, out of both maps.
LEMMA RemoveSwapSafe ==
    ASSUME TypeOK, TypeOK', RegistryInv, NEW s \in Sessions, RemoveSwap(s)
    PROVE  RegistryInv'
<1> DEFINE i == sInst[s]
           a == sAgent[s]
           h == sHost[s]
<1>1. /\ i \in Instances /\ a \in Agents /\ h \in Hosts
      /\ pc[s] = "closing" /\ connLock[i][a] = None /\ byAgent[i][a] = s
      /\ UNCHANGED <<sAgent, sHost, sInst, stopped>>
  BY DEF TypeOK, RemoveSwap, InUse, LockFree, Current, session
<1>2. \A j \in Instances, b \in Agents :
          /\ byAgent'[j][b] = IF j = i /\ b = a THEN None ELSE byAgent[j][b]
          /\ connLock'[j][b] = IF j = i /\ b = a THEN s ELSE connLock[j][b]
  BY <1>1 DEF TypeOK, RemoveSwap, SetLock
<1>3. \A j \in Instances, g \in Hosts :
          byHost'[j][g] = IF j = i /\ g = h /\ byHost[j][g] = s THEN None ELSE byHost[j][g]
  BY <1>1 DEF TypeOK, RemoveSwap
<1>4. \A t \in Sessions :
          /\ pc'[t] = IF t = s THEN "removing" ELSE pc[t]
          /\ pc[t] # "free" => sInst[t] \in Instances /\ sAgent[t] \in Agents
  BY DEF TypeOK, RemoveSwap, InUse
<1> HIDE DEF i, a, h
<1>5. LockDiscipline'
  BY <1>1, <1>2, <1>4, NoneAssumption DEF RegistryInv, LockDiscipline, i, a
<1>6. MapDiscipline'
  BY <1>1, <1>2, <1>4, NoneAssumption DEF RegistryInv, MapDiscipline, i, a
<1>7. ConnectOrder'
  BY <1>1, <1>2, <1>4, NoneAssumption DEF RegistryInv, ConnectOrder, LockDiscipline, Current, i, a
<1>8. OneLiveChannel'
  BY <1>1, <1>2, <1>4 DEF RegistryInv, OneLiveChannel, Registered, Current, i, a
<1>9. NoDanglingHost'
  <2> SUFFICES ASSUME NEW j \in Instances, NEW g \in Hosts, NEW t \in Sessions, byHost'[j][g] = t
               PROVE  pc'[t] \in Registered /\ sInst'[t] = j /\ sHost'[t] = g /\ Current(t)' = t
    BY DEF NoDanglingHost
  <2>1. byHost[j][g] = t
    BY <1>3, NoneAssumption
  <2>2. pc[t] \in Registered /\ sInst[t] = j /\ sHost[t] = g /\ byAgent[j][sAgent[t]] = t
    BY <2>1 DEF RegistryInv, NoDanglingHost, Current
  <2>3. t # s
    BY <1>1, <1>3, <2>1, <2>2, NoneAssumption DEF i, h
  <2>4. sAgent[t] \in Agents /\ ~(j = i /\ sAgent[t] = a)
    BY <1>1, <1>4, <2>2, <2>3 DEF Registered
  <2> QED
    BY <1>1, <1>2, <1>4, <2>2, <2>3, <2>4 DEF Current
<1> QED
  BY <1>5, <1>6, <1>7, <1>8, <1>9 DEF RegistryInv

\* The end of Remove: the lock is released and the session forgotten.
LEMMA RemoveMarkOfflineSafe ==
    ASSUME TypeOK, TypeOK', RegistryInv, NEW s \in Sessions, RemoveMarkOffline(s)
    PROVE  RegistryInv'
<1> DEFINE i == sInst[s]
           a == sAgent[s]
<1>1. /\ i \in Instances /\ a \in Agents
      /\ pc[s] = "removing" /\ pc'[s] = "free" /\ connLock[i][a] = s
      /\ UNCHANGED <<byAgent, byHost>>
  BY DEF TypeOK, RemoveMarkOffline, InUse, Forget, RegistryInv, LockDiscipline
<1>2. \A j \in Instances, b \in Agents :
          connLock'[j][b] = IF j = i /\ b = a THEN None ELSE connLock[j][b]
  BY <1>1 DEF TypeOK, RemoveMarkOffline, SetLock
<1>3. \A t \in Sessions \ {s} : /\ pc'[t] = pc[t] /\ sAgent'[t] = sAgent[t]
                                /\ sInst'[t] = sInst[t] /\ sHost'[t] = sHost[t]
                                /\ stopped'[t] = stopped[t]
  BY DEF TypeOK, RemoveMarkOffline, Forget
<1>4. \A t \in Sessions : pc[t] # "free" => sInst[t] \in Instances /\ sAgent[t] \in Agents
  BY DEF TypeOK, InUse
<1> HIDE DEF i, a
<1>5. LockDiscipline'
  BY <1>1, <1>2, <1>3, <1>4, NoneAssumption DEF RegistryInv, LockDiscipline, i, a
<1>6. MapDiscipline'
  BY <1>1, <1>3 DEF RegistryInv, MapDiscipline, Registered
<1>7. ConnectOrder'
  BY <1>1, <1>3 DEF RegistryInv, ConnectOrder, Current
<1>8. OneLiveChannel'
  BY <1>1, <1>3 DEF RegistryInv, OneLiveChannel, Registered, Current
<1>9. NoDanglingHost'
  BY <1>1, <1>3 DEF RegistryInv, NoDanglingHost, Registered, Current
<1> QED
  BY <1>5, <1>6, <1>7, <1>8, <1>9 DEF RegistryInv

\* A crash empties the maps of its instance together with its sessions.
LEMMA CrashSafe ==
    ASSUME TypeOK, TypeOK', RegistryInv, NEW i \in Instances, Crash(i)
    PROVE  RegistryInv'
<1>1. \A j \in Instances, b \in Agents :
          /\ byAgent'[j][b] = IF j = i THEN None ELSE byAgent[j][b]
          /\ connLock'[j][b] = IF j = i THEN None ELSE connLock[j][b]
  BY DEF TypeOK, Crash
<1>2. \A j \in Instances, g \in Hosts : byHost'[j][g] = IF j = i THEN None ELSE byHost[j][g]
  BY DEF TypeOK, Crash
<1>3. \A t \in Sessions : sInst[t] = i => pc'[t] = "free"
  BY DEF Crash, Forget
<1>4. \A t \in Sessions : sInst[t] # i => /\ pc'[t] = pc[t] /\ sAgent'[t] = sAgent[t]
                                         /\ sInst'[t] = sInst[t] /\ sHost'[t] = sHost[t]
                                         /\ stopped'[t] = stopped[t]
  BY DEF TypeOK, Crash, Forget
<1>5. \A t \in Sessions : pc[t] # "free" => sInst[t] \in Instances /\ sAgent[t] \in Agents
  BY SMTT(20) DEF TypeOK, InUse
<1>6. LockDiscipline'
  BY <1>1, <1>3, <1>4, <1>5, NoneAssumption DEF RegistryInv, LockDiscipline
<1>7. MapDiscipline'
  BY <1>1, <1>3, <1>4, NoneAssumption DEF RegistryInv, MapDiscipline
<1>8. ConnectOrder'
  BY <1>1, <1>3, <1>4, <1>5 DEF RegistryInv, ConnectOrder, Current
<1>9. OneLiveChannel'
  BY <1>1, <1>3, <1>4, <1>5 DEF RegistryInv, OneLiveChannel, Registered, Current
<1>10. NoDanglingHost'
  BY <1>1, <1>2, <1>3, <1>4, <1>5, NoneAssumption
     DEF RegistryInv, NoDanglingHost, Registered, Current
<1> QED
  BY <1>6, <1>7, <1>8, <1>9, <1>10 DEF RegistryInv

=============================================================================
