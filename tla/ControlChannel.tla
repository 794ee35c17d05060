---------------------------- MODULE ControlChannel ----------------------------
(***************************************************************************)
(* The agent control channel: the per-instance Registry of live sessions   *)
(* (pkg/apis/agentgw/registry.go), the handler that drives one session     *)
(* from upgrade to close (channel.go), and the host_agents table that all  *)
(* server instances share (pkg/db/query/host_agent.sql).                   *)
(*                                                                         *)
(* A session is one goroutine of the server.  Each database statement is   *)
(* one step of it, and so is each critical section on Registry.mu; between *)
(* two steps every other goroutine of every instance may run.  The agent's *)
(* end of the socket is linked[s]: the server learns that it has gone only *)
(* when its read loop notices.                                             *)
(***************************************************************************)
EXTENDS Naturals, FiniteSets

CONSTANTS
    Instances,   \* server instances; a restart is a new one (the id has the pid)
    Agents,      \* agent ids, each allocated once by a registration
    Hosts,       \* rows of hosts
    Sessions,    \* session objects, reused after the session has ended
    None,        \* no session, no row, no instance
    Disturbances,\* bound: the kinds of fault and operator request that may happen
    MaxFaults,   \* bound: how many of them happen
    MaxClaims    \* bound: MarkOnline statements that take effect

ASSUME BoundsAssumption == MaxFaults \in Nat /\ MaxClaims \in Nat
ASSUME NoneAssumption == None \notin Sessions /\ None \notin Instances
                         /\ None \notin Agents /\ None \notin Hosts

VARIABLES
    hosts,      \* the rows of hosts that exist
    row,        \* host_agents, keyed by host id; None when the host has no agent
    issued,     \* agent ids allocated so far
    clock,      \* the database clock: one tick per connected_at written
    inst,       \* where each instance is: not started, in NewModule, serving, gone
    lease,      \* instances whose server_instances row is fresh
    agentUp,    \* agents whose process is running
    byAgent,    \* Registry.byAgent of each instance
    byHost,     \* Registry.byHost of each instance
    connLock,   \* Registry.connLock of each instance: which session holds it
    pc,         \* where each session's goroutine is
    sAgent, sHost, sInst,  \* Session.AgentID, Session.HostID, the instance
    epoch,      \* Session.epoch; 0 is "not claimed yet"
    tokenSent,  \* Session.tokenSent
    token,      \* the session token each agent received last; None before the first
    refresh,    \* epoch read by a refreshSessionToken still to be written; 0 none
    stopped,    \* Session.ctx is cancelled
    linked,     \* the agent's end of the socket is open
    merge,      \* the host merge in progress
    faults      \* disturbances so far

tables == <<hosts, row, issued, clock>>
registry == <<byAgent, byHost, connLock>>
session == <<sAgent, sHost, sInst, epoch, tokenSent, refresh, stopped, linked>>
cluster == <<inst, lease>>
peer == <<agentUp, token>>
vars == <<tables, registry, session, cluster, peer, pc, merge, faults>>

-----------------------------------------------------------------------------
(* Types                                                                   *)

PCs == {"free", "accepted", "adding", "issuing", "serving", "beating",
        "reclaiming", "closing", "removing"}

\* In Registry.byAgent, or on the way out of it.
Registered == {"adding", "issuing", "serving", "beating", "reclaiming", "closing"}

Rows == [agent: Agents, status: {"online", "offline"},
         inst: Instances \cup {None}, epoch: Nat, fresh: BOOLEAN]

\* SessionClaims: the host and the connection epoch the token is signed for.
Tokens == [host: Hosts, epoch: Nat]

Merges == [from: Hosts, to: Hosts, step: {"checked", "moving", "copying", "deleting"}]

InstanceStates == {"unborn", "booting", "up", "down"}

InUse(s) == pc[s] # "free" \/ linked[s] \/ refresh[s] # 0

\* The type invariant: the maps of each Registry hold sessions, host_agents
\* holds rows, epochs are clock readings, and a session in use is some agent's.
TypeOK ==
    /\ hosts \subseteq Hosts
    /\ row \in [Hosts -> Rows \cup {None}]
    /\ issued \subseteq Agents
    /\ clock \in Nat
    /\ inst \in [Instances -> InstanceStates]
    /\ lease \subseteq Instances
    /\ agentUp \subseteq Agents
    /\ byAgent \in [Instances -> [Agents -> Sessions \cup {None}]]
    /\ byHost \in [Instances -> [Hosts -> Sessions \cup {None}]]
    /\ connLock \in [Instances -> [Agents -> Sessions \cup {None}]]
    /\ pc \in [Sessions -> PCs]
    /\ sAgent \in [Sessions -> Agents \cup {None}]
    /\ sHost \in [Sessions -> Hosts \cup {None}]
    /\ sInst \in [Sessions -> Instances \cup {None}]
    /\ epoch \in [Sessions -> Nat]
    /\ tokenSent \in [Sessions -> BOOLEAN]
    /\ token \in [Agents -> Tokens \cup {None}]
    /\ refresh \in [Sessions -> Nat]
    /\ stopped \in [Sessions -> BOOLEAN]
    /\ linked \in [Sessions -> BOOLEAN]
    /\ merge \in Merges \cup {None}
    /\ faults \in Nat
    /\ \A s \in Sessions : InUse(s) =>
           sAgent[s] \in Agents /\ sHost[s] \in Hosts /\ sInst[s] \in Instances

Init ==
    /\ hosts = Hosts
    /\ row = [h \in Hosts |-> None]
    /\ issued = {}
    /\ clock = 0
    /\ inst = [i \in Instances |-> "unborn"]
    /\ lease = {}
    /\ agentUp = {}
    /\ byAgent = [i \in Instances |-> [a \in Agents |-> None]]
    /\ byHost = [i \in Instances |-> [h \in Hosts |-> None]]
    /\ connLock = [i \in Instances |-> [a \in Agents |-> None]]
    /\ pc = [s \in Sessions |-> "free"]
    /\ sAgent = [s \in Sessions |-> None]
    /\ sHost = [s \in Sessions |-> None]
    /\ sInst = [s \in Sessions |-> None]
    /\ epoch = [s \in Sessions |-> 0]
    /\ tokenSent = [s \in Sessions |-> FALSE]
    /\ token = [a \in Agents |-> None]
    /\ refresh = [s \in Sessions |-> 0]
    /\ stopped = [s \in Sessions |-> FALSE]
    /\ linked = [s \in Sessions |-> FALSE]
    /\ merge = None
    /\ faults = 0

-----------------------------------------------------------------------------
(* host_agents: one operator per statement.                                *)

Fault(kind) == kind \in Disturbances /\ faults < MaxFaults /\ faults' = faults + 1

HasRow(h) == row[h] # None

\* MarkHostAgentOnline: the row is claimed for instance i at the next instant.
MarkOnline(h, i) ==
    /\ HasRow(h)
    /\ clock < MaxClaims
    /\ clock' = clock + 1
    /\ row' = [row EXCEPT ![h] = [agent |-> row[h].agent, status |-> "online", inst |-> i,
                                  epoch |-> clock + 1, fresh |-> TRUE]]

\* The guard of TouchHostAgent: the row is ours and it is online.
Claimed(h, i) == HasRow(h) /\ row[h].inst = i /\ row[h].status = "online"

Touch(h) == row' = [row EXCEPT ![h] = [@ EXCEPT !.fresh = TRUE]]

\* Mutant of MarkOffline: without the instance_id guard.
MarkOfflineUnguarded(h, i) ==
    row' = IF HasRow(h) THEN [row EXCEPT ![h] = [@ EXCEPT !.status = "offline"]] ELSE row

\* MarkHostAgentOffline, guarded by instance_id.
MarkOffline(h, i) ==
    row' = IF Claimed(h, i) THEN [row EXCEPT ![h] = [@ EXCEPT !.status = "offline"]]
                            ELSE row

\* MarkOrphanedHostAgentsOffline and MarkStaleHostAgentsOffline.
SweepOffline(expired) ==
    row' = [h \in Hosts |-> IF h \in expired /\ HasRow(h) /\ row[h].status = "online"
                            THEN [row[h] EXCEPT !.status = "offline"] ELSE row[h]]

\* Mutant of SessionRowValid: without the connected_at comparison.
SessionRowOnline(t) == t # None /\ HasRow(t.host) /\ row[t.host].status = "online"

\* sessionRowValid: the row is online and connected_at is the token's epoch.
SessionRowValid(t) ==
    t # None /\ HasRow(t.host) /\ row[t.host].status = "online" /\ row[t.host].epoch = t.epoch

-----------------------------------------------------------------------------
(* Accepting a channel: handleChannel up to Registry.Add.                   *)

Unlinked(a) == \A s \in Sessions : sAgent[s] = a => ~linked[s]

\* authAgent reads the agent's row, verifyMachine and identityContended admit
\* it, and the Session is built with the host id the row named at that moment.
Accept(s, a, i, h) ==
    /\ pc[s] = "free" /\ inst[i] = "up"
    /\ a \in agentUp /\ Unlinked(a)
    /\ HasRow(h) /\ row[h].agent = a
    /\ pc' = [pc EXCEPT ![s] = "accepted"]
    /\ sAgent' = [sAgent EXCEPT ![s] = a]
    /\ sHost' = [sHost EXCEPT ![s] = h]
    /\ sInst' = [sInst EXCEPT ![s] = i]
    /\ linked' = [linked EXCEPT ![s] = TRUE]
    /\ UNCHANGED <<tables, registry, epoch, tokenSent, refresh, stopped,
                   cluster, peer, merge, faults>>

\* identityContended found a second process dialling with the identity of host
\* h: that connection is refused and Evict stops the channel this instance holds.
EvictContended(i, h) ==
    /\ Fault("evict")
    /\ inst[i] = "up" /\ HasRow(h) /\ byHost[i][h] # None
    /\ stopped' = [stopped EXCEPT ![byHost[i][h]] = TRUE]
    /\ UNCHANGED <<tables, registry, sAgent, sHost, sInst, epoch, tokenSent,
                   refresh, linked, cluster, peer, pc, merge>>

-----------------------------------------------------------------------------
(* Registry.Add                                                            *)

\* Mutant of LockFree: the per-agent lock does not exclude anybody.
LockIgnored(s) == TRUE

LockFree(s) == connLock[sInst[s]][sAgent[s]] = None

SetLock(s, v) == connLock' = [connLock EXCEPT ![sInst[s]][sAgent[s]] = v]

Current(s) == byAgent[sInst[s]][sAgent[s]]

\* Mutant of Cancel: the superseded session is left running.
CancelNobody(prev) == UNCHANGED stopped

\* prev.stop(); there may be no previous session.
Cancel(prev) == stopped' = [t \in Sessions |-> stopped[t] \/ t = prev]

\* Mutant of FileByHost: the key of the host the agent moved away from stays.
FileByHostOnly(s, prev) == byHost' = [byHost EXCEPT ![sInst[s]][sHost[s]] = s]

\* byHost[s.HostID] = s, after dropping the key prev had under another host.
FileByHost(s, prev) ==
    LET moved == prev # None /\ sHost[prev] # sHost[s] IN
    byHost' = [byHost EXCEPT ![sInst[s]] = [h \in Hosts |->
                  IF h = sHost[s] THEN s
                  ELSE IF moved /\ h = sHost[prev] THEN None ELSE @[h]]]

\* Take the per-agent lock, swap both maps and cancel the previous session.  The
\* lock is kept for MarkOnline, which a cancelled context fails at once.
AddSwap(s) ==
    /\ pc[s] = "accepted" /\ LockFree(s)
    /\ SetLock(s, IF stopped[s] THEN None ELSE s)
    /\ byAgent' = [byAgent EXCEPT ![sInst[s]][sAgent[s]] = s]
    /\ FileByHost(s, Current(s))
    /\ Cancel(Current(s))
    /\ pc' = [pc EXCEPT ![s] = IF stopped[s] THEN "serving" ELSE "adding"]
    /\ UNCHANGED <<tables, sAgent, sHost, sInst, epoch, tokenSent, refresh,
                   linked, cluster, peer, merge, faults>>

\* MarkOnline returned connected_at: the session takes it as its epoch and goes
\* on to issue a token; the lock is released.
AddClaim(s) ==
    /\ pc[s] = "adding"
    /\ MarkOnline(sHost[s], sInst[s])
    /\ epoch' = [epoch EXCEPT ![s] = clock + 1]
    /\ SetLock(s, None)
    /\ pc' = [pc EXCEPT ![s] = "issuing"]
    /\ UNCHANGED <<hosts, issued, byAgent, byHost, sAgent, sHost, sInst, tokenSent,
                   refresh, stopped, linked, cluster, peer, merge, faults>>

\* MarkOnline failed (a database error, a cancelled session context, or no row
\* left): no epoch, no token, straight to the read loop.
AddClaimFails(s) ==
    /\ pc[s] = "adding"
    /\ IF stopped[s] \/ ~HasRow(sHost[s]) THEN UNCHANGED faults ELSE Fault("database")
    /\ SetLock(s, None)
    /\ pc' = [pc EXCEPT ![s] = "serving"]
    /\ UNCHANGED <<tables, byAgent, byHost, session, cluster, peer, merge>>

-----------------------------------------------------------------------------
(* Session tokens: issueSessionToken and refreshSessionToken.               *)

\* The frame is written: the agent replaces whatever token it holds.
Deliver(s, e) ==
    /\ linked[s] /\ ~stopped[s]
    /\ token' = [token EXCEPT ![sAgent[s]] = [host |-> sHost[s], epoch |-> e]]
    /\ tokenSent' = [tokenSent EXCEPT ![s] = TRUE]
    /\ UNCHANGED faults

\* The write fails: the context is cancelled, the socket is dead, or it timed out.
DeliverFails(s) ==
    /\ IF stopped[s] \/ ~linked[s] THEN UNCHANGED faults ELSE Fault("write")
    /\ tokenSent' = [tokenSent EXCEPT ![s] = FALSE]
    /\ UNCHANGED token

\* The token could not be signed: nothing is written, tokenSent says what it said.
SignFails == Fault("sign") /\ UNCHANGED <<token, tokenSent>>

IssueToken(s) ==
    /\ pc[s] = "issuing"
    /\ Deliver(s, epoch[s]) \/ DeliverFails(s) \/ SignFails
    /\ pc' = [pc EXCEPT ![s] = "serving"]
    /\ UNCHANGED <<tables, registry, sAgent, sHost, sInst, epoch, refresh, stopped,
                   linked, cluster, agentUp, merge>>

\* The refresh goroutine reads the epoch and signs; the write comes later.
RefreshRead(s) ==
    /\ pc[s] \in {"serving", "beating", "reclaiming"}
    /\ refresh[s] = 0 /\ epoch[s] # 0 /\ ~stopped[s]
    /\ Fault("refresh")
    /\ refresh' = [refresh EXCEPT ![s] = epoch[s]]
    /\ UNCHANGED <<tables, registry, sAgent, sHost, sInst, epoch, tokenSent, stopped,
                   linked, cluster, peer, pc, merge>>

RefreshWrite(s) ==
    /\ refresh[s] # 0
    /\ Deliver(s, refresh[s]) \/ DeliverFails(s)
    /\ refresh' = [refresh EXCEPT ![s] = 0]
    /\ UNCHANGED <<tables, registry, sAgent, sHost, sInst, epoch, stopped, linked,
                   cluster, agentUp, pc, merge>>

-----------------------------------------------------------------------------
(* The heartbeat: readLoop, touch and Registry.Touch.                       *)

ReadBeat(s) ==
    /\ pc[s] = "serving" /\ linked[s] /\ ~stopped[s]
    /\ pc' = [pc EXCEPT ![s] = "beating"]
    /\ UNCHANGED <<tables, registry, session, cluster, peer, merge, faults>>

\* After a beat that claimed nothing, touch retries a token that did not get
\* through; issueSessionToken returns at once when the session has no epoch.
AfterBeat(s) == IF ~tokenSent[s] /\ epoch[s] # 0 THEN "issuing" ELSE "serving"

\* The row was ours: freshen it.
TouchClaimed(s) ==
    /\ pc[s] = "beating" /\ Claimed(sHost[s], sInst[s])
    /\ Touch(sHost[s])
    /\ pc' = [pc EXCEPT ![s] = AfterBeat(s)]
    /\ UNCHANGED <<hosts, issued, clock, registry, session, cluster, peer, merge, faults>>

\* Mutant of TouchMissed: a beat that matched no row is not followed by a claim.
TouchMissedIgnored(s) ==
    /\ pc[s] = "beating" /\ ~Claimed(sHost[s], sInst[s])
    /\ pc' = [pc EXCEPT ![s] = AfterBeat(s)]
    /\ UNCHANGED <<tables, registry, session, cluster, peer, merge, faults>>

\* No row matched: go on to re-claim it.  A cancelled context fails MarkOnline
\* before it is sent.
TouchMissed(s) ==
    /\ pc[s] = "beating" /\ ~Claimed(sHost[s], sInst[s])
    /\ pc' = [pc EXCEPT ![s] = IF stopped[s] THEN AfterBeat(s) ELSE "reclaiming"]
    /\ UNCHANGED <<tables, registry, session, cluster, peer, merge, faults>>

\* Touch, or the MarkOnline after it, failed.
TouchFails(s) ==
    /\ pc[s] \in {"beating", "reclaiming"}
    /\ IF stopped[s] THEN UNCHANGED faults ELSE Fault("database")
    /\ pc' = [pc EXCEPT ![s] = AfterBeat(s)]
    /\ UNCHANGED <<tables, registry, session, cluster, peer, merge>>

\* The re-claim.  It does not hold the per-agent lock.  A statement that was on
\* its way when the session was cancelled may still take effect.
Reclaim(s) ==
    /\ pc[s] = "reclaiming"
    /\ MarkOnline(sHost[s], sInst[s])
    /\ epoch' = [epoch EXCEPT ![s] = clock + 1]
    /\ pc' = [pc EXCEPT ![s] = "issuing"]
    /\ UNCHANGED <<hosts, issued, registry, sAgent, sHost, sInst, tokenSent, refresh,
                   stopped, linked, cluster, peer, merge, faults>>

\* Mutant of ReclaimNotFound: the error is logged and the channel stays.
ReclaimNotFoundIgnored(s) ==
    /\ pc[s] = "reclaiming" /\ ~HasRow(sHost[s])
    /\ pc' = [pc EXCEPT ![s] = "serving"]
    /\ UNCHANGED <<tables, registry, session, cluster, peer, merge, faults>>

\* The row this session was opened against is gone: drop the channel.
ReclaimNotFound(s) ==
    /\ pc[s] = "reclaiming" /\ ~HasRow(sHost[s])
    /\ stopped' = [stopped EXCEPT ![s] = TRUE]
    /\ pc' = [pc EXCEPT ![s] = "serving"]
    /\ UNCHANGED <<tables, registry, sAgent, sHost, sInst, epoch, tokenSent, refresh,
                   linked, cluster, peer, merge, faults>>

-----------------------------------------------------------------------------
(* The end of a channel: readLoop returns, Registry.Remove.                 *)

\* The read failed (peer gone, idle deadline, cancelled); the socket is closed.
ReadLoopEnds(s) ==
    /\ pc[s] = "serving" /\ (stopped[s] \/ ~linked[s])
    /\ linked' = [linked EXCEPT ![s] = FALSE]
    /\ pc' = [pc EXCEPT ![s] = "closing"]
    /\ UNCHANGED <<tables, registry, sAgent, sHost, sInst, epoch, tokenSent, refresh,
                   stopped, cluster, peer, merge, faults>>

\* Mutant of Forget: the refresh goroutine outlives its session.
ForgetButRefresh(S) ==
    /\ sAgent' = [s \in Sessions |-> IF s \in S THEN None ELSE sAgent[s]]
    /\ sHost' = [s \in Sessions |-> IF s \in S THEN None ELSE sHost[s]]
    /\ sInst' = [s \in Sessions |-> IF s \in S THEN None ELSE sInst[s]]
    /\ epoch' = [s \in Sessions |-> IF s \in S THEN 0 ELSE epoch[s]]
    /\ tokenSent' = [s \in Sessions |-> s \notin S /\ tokenSent[s]]
    /\ stopped' = [s \in Sessions |-> s \notin S /\ stopped[s]]
    /\ linked' = [s \in Sessions |-> s \notin S /\ linked[s]]
    /\ pc' = [s \in Sessions |-> IF s \in S THEN "free" ELSE pc[s]]
    /\ UNCHANGED refresh

\* The session objects of the set S are garbage, and their goroutines are gone.
Forget(S) ==
    /\ sAgent' = [s \in Sessions |-> IF s \in S THEN None ELSE sAgent[s]]
    /\ sHost' = [s \in Sessions |-> IF s \in S THEN None ELSE sHost[s]]
    /\ sInst' = [s \in Sessions |-> IF s \in S THEN None ELSE sInst[s]]
    /\ epoch' = [s \in Sessions |-> IF s \in S THEN 0 ELSE epoch[s]]
    /\ tokenSent' = [s \in Sessions |-> s \notin S /\ tokenSent[s]]
    /\ refresh' = [s \in Sessions |-> IF s \in S THEN 0 ELSE refresh[s]]
    /\ stopped' = [s \in Sessions |-> s \notin S /\ stopped[s]]
    /\ linked' = [s \in Sessions |-> s \notin S /\ linked[s]]
    /\ pc' = [s \in Sessions |-> IF s \in S THEN "free" ELSE pc[s]]

\* Remove of a session that was superseded: the lock, the check, nothing else.
RemoveSuperseded(s) ==
    /\ pc[s] = "closing" /\ LockFree(s) /\ Current(s) # s
    /\ Forget({s})
    /\ UNCHANGED <<tables, registry, cluster, peer, merge, faults>>

\* Remove of the current session: drop both keys under the lock.
RemoveSwap(s) ==
    LET i == sInst[s] IN
    /\ pc[s] = "closing" /\ LockFree(s) /\ Current(s) = s
    /\ SetLock(s, s)
    /\ byAgent' = [byAgent EXCEPT ![i][sAgent[s]] = None]
    /\ byHost' = [byHost EXCEPT ![i][sHost[s]] = IF @ = s THEN None ELSE @]
    /\ pc' = [pc EXCEPT ![s] = "removing"]
    /\ UNCHANGED <<tables, session, cluster, peer, merge, faults>>

\* MarkOffline, which may fail; then the lock is released and the handler returns.
RemoveMarkOffline(s) ==
    /\ pc[s] = "removing"
    /\ \/ MarkOffline(sHost[s], sInst[s]) /\ UNCHANGED faults
       \/ Fault("database") /\ UNCHANGED row
    /\ SetLock(s, None)
    /\ Forget({s})
    /\ UNCHANGED <<hosts, issued, clock, byAgent, byHost, cluster, peer, merge>>

-----------------------------------------------------------------------------
(* Agents, instances and the sweeps.                                        *)

\* A machine redeems a join token: Bind with no prior row allocates an agent id
\* and binds it to host h, detaching whatever agent held the host.
Register(a, h) ==
    /\ a \notin issued /\ h \in hosts
    /\ IF HasRow(h) THEN Fault("rebind") ELSE UNCHANGED faults
    /\ issued' = issued \cup {a}
    /\ agentUp' = agentUp \cup {a}
    /\ row' = [row EXCEPT ![h] = [agent |-> a, status |-> "offline", inst |-> None,
                                  epoch |-> 0, fresh |-> FALSE]]
    /\ UNCHANGED <<hosts, clock, registry, session, cluster, token, pc, merge>>

\* The network, or the agent, drops the connection; the server is not told.
Drop(s) ==
    /\ linked[s] /\ Fault("drop")
    /\ linked' = [linked EXCEPT ![s] = FALSE]
    /\ UNCHANGED <<tables, registry, sAgent, sHost, sInst, epoch, tokenSent, refresh,
                   stopped, cluster, peer, pc, merge>>

\* The machine is switched off for good.
AgentDies(a) ==
    /\ a \in agentUp /\ Fault("die")
    /\ agentUp' = agentUp \ {a}
    /\ linked' = [s \in Sessions |-> linked[s] /\ sAgent[s] # a]
    /\ UNCHANGED <<tables, registry, sAgent, sHost, sInst, epoch, tokenSent, refresh,
                   stopped, cluster, token, pc, merge>>

\* NewModule: sweep the rows of instances without a lease.  A failure is logged.
BootSweep(i) ==
    /\ inst[i] = "unborn"
    /\ \/ SweepOffline({h \in Hosts : HasRow(h) /\ row[h].inst \notin lease}) /\ UNCHANGED faults
       \/ Fault("database") /\ UNCHANGED row
    /\ inst' = [inst EXCEPT ![i] = "booting"]
    /\ UNCHANGED <<hosts, issued, clock, registry, session, lease, peer, pc, merge>>

\* Lease.Start registers the instance, then it serves.  A failure is logged.
BootRegister(i) ==
    /\ inst[i] = "booting"
    /\ \/ lease' = lease \cup {i} /\ UNCHANGED faults
       \/ Fault("database") /\ UNCHANGED lease
    /\ inst' = [inst EXCEPT ![i] = "up"]
    /\ UNCHANGED <<tables, registry, session, peer, pc, merge>>

\* The process dies: its sessions and maps are gone, its sockets are closed.
Crash(i) ==
    /\ inst[i] \in {"booting", "up"} /\ Fault("crash")
    /\ inst' = [inst EXCEPT ![i] = "down"]
    /\ Forget({s \in Sessions : sInst[s] = i})
    /\ byAgent' = [byAgent EXCEPT ![i] = [a \in Agents |-> None]]
    /\ byHost' = [byHost EXCEPT ![i] = [h \in Hosts |-> None]]
    /\ connLock' = [connLock EXCEPT ![i] = [a \in Agents |-> None]]
    /\ UNCHANGED <<tables, lease, peer, merge>>

\* SIGTERM: every session context is cancelled and unwinds, no dial is accepted.
\* LeaseLapses is what becomes of the instance's own row.
Shutdown(i) ==
    /\ inst[i] = "up" /\ Fault("shutdown")
    /\ inst' = [inst EXCEPT ![i] = "down"]
    /\ stopped' = [s \in Sessions |-> stopped[s] \/ sInst[s] = i]
    /\ UNCHANGED <<tables, registry, sAgent, sHost, sInst, epoch, tokenSent, refresh,
                   linked, lease, peer, pc, merge>>

\* A lease is gone: it is 30 s old, because the instance is dead or could not reach
\* the database, or Lease.run deleted it on the way out.
LeaseLapses(i) ==
    /\ i \in lease
    /\ IF inst[i] = "up" THEN Fault("lease") ELSE UNCHANGED faults
    /\ lease' = lease \ {i}
    /\ UNCHANGED <<tables, registry, session, inst, peer, pc, merge>>

\* A tick of Lease.run is two statements.  Neither reads what the other writes, and
\* ticks are far apart, so each is a step of its own.  The first is Touch: it renews
\* the lease or re-creates it; a failure is logged, and changes nothing, like no tick.
\* DeleteStale only removes what lease does not count any more.
LeaseRenew(i) ==
    /\ inst[i] = "up"
    /\ lease' = lease \cup {i}
    /\ UNCHANGED <<tables, registry, session, inst, peer, pc, merge, faults>>

\* Mutant of SweepStale: OnTick is not wired, nobody sweeps stale rows.
SweepNothing(i) == inst[i] = "up" /\ UNCHANGED vars

\* The second, whether or not the renewal worked: OnTick's MarkStaleOffline.
SweepStale(i) ==
    /\ inst[i] = "up"
    /\ SweepOffline({h \in Hosts : HasRow(h) /\ ~row[h].fresh})
    /\ UNCHANGED <<hosts, issued, clock, registry, session, cluster, peer, pc, merge, faults>>

\* A live channel whose beats should be reaching the row.
Beating(h) == \E s \in Sessions : /\ linked[s] /\ ~stopped[s]
                                  /\ sHost[s] = h /\ Claimed(h, sInst[s])

\* last_seen_at is 60 s old: nobody beats, or the writes could not be made.
RowAges(h) ==
    /\ HasRow(h) /\ row[h].status = "online" /\ row[h].fresh
    /\ IF Beating(h) THEN Fault("age") ELSE UNCHANGED faults
    /\ row' = [row EXCEPT ![h] = [@ EXCEPT !.fresh = FALSE]]
    /\ UNCHANGED <<hosts, issued, clock, registry, session, cluster, peer, pc, merge>>

-----------------------------------------------------------------------------
(* Deleting a host, and merging two (pkg/apis/compute/host_merge.go).        *)

\* An operator deletes the record of host h; its agent row cascades.
RemoveHost(h) ==
    /\ hosts' = hosts \ {h}
    /\ row' = [row EXCEPT ![h] = None]

DeleteHost(h) ==
    /\ h \in hosts /\ Fault("delete")
    /\ RemoveHost(h)
    /\ UNCHANGED <<issued, clock, registry, session, cluster, peer, pc, merge>>

\* The survivor must have no live agent of its own.
MergeCheck(from, to) ==
    /\ merge = None /\ from # to /\ {from, to} \subseteq hosts
    /\ HasRow(to) => row[to].status # "online"
    /\ Fault("merge")
    /\ merge' = [from |-> from, to |-> to, step |-> "checked"]
    /\ UNCHANGED <<tables, registry, session, cluster, peer, pc>>

At(step) == merge # None /\ merge.step = step

MergeGoto(step) == merge' = [merge EXCEPT !.step = step]

\* The source's binding is looked up; without one there is nothing to move.
MergeRead ==
    /\ At("checked")
    /\ MergeGoto(IF HasRow(merge.from) THEN "moving" ELSE "deleting")
    /\ UNCHANGED <<tables, registry, session, cluster, peer, pc, faults>>

\* MoveBinding, one transaction: the survivor's binding is deleted and the source's
\* moves over, status and owner included.
MergeMove ==
    /\ At("moving") /\ HasRow(merge.from) /\ merge.to \in hosts
    /\ row' = [row EXCEPT ![merge.to] = row[merge.from], ![merge.from] = None]
    /\ MergeGoto("copying")
    /\ UNCHANGED <<hosts, issued, clock, registry, session, cluster, peer, pc, faults>>

\* UpdateFacts: the survivor takes over what the source reported.
MergeCopyFacts ==
    /\ At("copying") /\ merge.to \in hosts
    /\ MergeGoto("deleting")
    /\ UNCHANGED <<tables, registry, session, cluster, peer, pc, faults>>

\* The source record goes, with any agent row still attached to it.
MergeDelete ==
    /\ At("deleting") /\ merge.from \in hosts
    /\ RemoveHost(merge.from)
    /\ merge' = None
    /\ UNCHANGED <<issued, clock, registry, session, cluster, peer, pc, faults>>

\* What the next statement needs is gone (a binding to move, a record to move it to, to
\* write to or to delete): the statement, or its transaction, does nothing and the
\* request fails where it stands.
MergeNotFound ==
    /\ \/ At("moving") /\ (~HasRow(merge.from) \/ merge.to \notin hosts)
       \/ At("copying") /\ merge.to \notin hosts
       \/ At("deleting") /\ merge.from \notin hosts
    /\ merge' = None
    /\ UNCHANGED <<tables, registry, session, cluster, peer, pc, faults>>

\* A database error at any step: the request fails where it stands.
MergeFails ==
    /\ merge # None /\ Fault("database")
    /\ merge' = None
    /\ UNCHANGED <<tables, registry, session, cluster, peer, pc>>

-----------------------------------------------------------------------------

SessionStep(s) ==
    \/ AddSwap(s) \/ AddClaim(s) \/ AddClaimFails(s)
    \/ IssueToken(s) \/ RefreshRead(s) \/ RefreshWrite(s)
    \/ ReadBeat(s) \/ TouchClaimed(s) \/ TouchMissed(s) \/ TouchFails(s)
    \/ Reclaim(s) \/ ReclaimNotFound(s)
    \/ ReadLoopEnds(s) \/ RemoveSuperseded(s) \/ RemoveSwap(s) \/ RemoveMarkOffline(s)
    \/ Drop(s)

InstanceStep(i) ==
    \/ BootSweep(i) \/ BootRegister(i) \/ Crash(i) \/ Shutdown(i)
    \/ LeaseLapses(i) \/ LeaseRenew(i) \/ SweepStale(i)
    \/ \E h \in Hosts : EvictContended(i, h)

Next ==
    \/ \E s \in Sessions : SessionStep(s)
    \/ \E s \in Sessions, a \in Agents, i \in Instances, h \in Hosts : Accept(s, a, i, h)
    \/ \E i \in Instances : InstanceStep(i)
    \/ \E a \in Agents, h \in Hosts : Register(a, h)
    \/ \E a \in Agents : AgentDies(a)
    \/ \E h \in Hosts : RowAges(h)
    \/ \E from, to \in Hosts : MergeCheck(from, to)
    \/ \E h \in Hosts : DeleteHost(h)
    \/ MergeRead \/ MergeMove \/ MergeCopyFacts \/ MergeDelete \/ MergeNotFound \/ MergeFails

Spec == Init /\ [][Next]_vars

-----------------------------------------------------------------------------
(* Safety                                                                  *)

\* The per-agent lock is held exactly by the goroutine that is inside Add or
\* Remove for that agent on that instance.
LockDiscipline ==
    /\ \A i \in Instances, a \in Agents, s \in Sessions :
           connLock[i][a] = s
               => pc[s] \in {"adding", "removing"} /\ sInst[s] = i /\ sAgent[s] = a
    /\ \A s \in Sessions : pc[s] \in {"adding", "removing"} => connLock[sInst[s]][sAgent[s]] = s

\* byAgent files a session only under its own agent and instance, from its Add
\* to its Remove.
MapDiscipline ==
    \A i \in Instances, a \in Agents, s \in Sessions :
        byAgent[i][a] = s => pc[s] \in Registered /\ sInst[s] = i /\ sAgent[s] = a

\* While Add is between its map swap and the result of its MarkOnline, the
\* session it is adding is the current one; while Remove is between its map
\* delete and its MarkOffline, the agent has no current session.  This is what
\* the per-agent lock is for: the row's last writer is the map's last writer.
ConnectOrder ==
    \A s \in Sessions : /\ pc[s] = "adding" => Current(s) = s
                        /\ pc[s] = "removing" => Current(s) = None

\* One instance never serves two uncancelled channels of one agent: whoever is
\* not the current session has been told to stop (Add's prev.stop()).
OneLiveChannel ==
    \A s \in Sessions : pc[s] \in Registered /\ Current(s) # s => stopped[s]

\* byHost never hands out a session that byAgent has let go, nor one opened for
\* another host, even after the agent came back under a different host id.
NoDanglingHost ==
    \A i \in Instances, h \in Hosts, s \in Sessions :
        byHost[i][h] = s
            => pc[s] \in Registered /\ sInst[s] = i /\ sHost[s] = h /\ Current(s) = s

\* What the Registry's own steps preserve together.
RegistryInv ==
    LockDiscipline /\ MapDiscipline /\ ConnectOrder /\ OneLiveChannel /\ NoDanglingHost

\* Two agents never both hold a session token that validates for one host, even
\* when one was bound to the host while the other was still connected.
OneValidToken ==
    \A a, b \in Agents :
        SessionRowValid(token[a]) /\ SessionRowValid(token[b])
            /\ token[a].host = token[b].host => a = b

\* Instance i's row of host h goes offline.
GoesOffline(h, i) ==
    Claimed(h, i) /\ HasRow(h)' /\ row'[h] = [row[h] EXCEPT !.status = "offline"]

\* The owner has no channel for the row's agent any more, or the heartbeat is stale, or
\* the owner has lost its lease.
OfflineDue(h, i) == byAgent[i][row[h].agent] = None \/ ~row[h].fresh \/ i \notin lease

\* Remove is closing, on instance i, a channel that an agent since detached had for host h.
DetachedLeaves(h, i) ==
    \E s \in Sessions : /\ pc[s] = "removing" /\ pc'[s] = "free"
                        /\ sInst[s] = i /\ sHost[s] = h /\ sAgent[s] # row[h].agent

\* A row goes offline only when that is due, or with the channel of an agent that was
\* detached from the host while connected to the same instance (OfflineIsTrue).
OfflineUnlessDetached ==
    [][\A h \in Hosts, i \in Instances :
          GoesOffline(h, i) => OfflineDue(h, i) \/ DetachedLeaves(h, i)]_vars

-----------------------------------------------------------------------------
(* Liveness                                                                *)

\* Goroutines run, the idle deadline fires, agents redial and beat, instances
\* boot and tick, rows nobody beats grow old.  Nothing that needs a fault, the
\* refresh ticker or an operator is assumed to happen.
Fairness ==
    /\ \A s \in Sessions :
         /\ WF_vars(AddSwap(s)) /\ WF_vars(AddClaim(s) \/ AddClaimFails(s))
         /\ WF_vars(IssueToken(s)) /\ WF_vars(RefreshWrite(s))
         /\ WF_vars(ReadBeat(s)) /\ WF_vars(TouchClaimed(s) \/ TouchMissed(s))
         /\ WF_vars(Reclaim(s) \/ ReclaimNotFound(s)) /\ WF_vars(ReadLoopEnds(s))
         /\ WF_vars(RemoveSuperseded(s) \/ RemoveSwap(s)) /\ WF_vars(RemoveMarkOffline(s))
    /\ \A a \in Agents : WF_vars(\E s \in Sessions, i \in Instances, h \in Hosts :
                                     Accept(s, a, i, h))
    /\ \A i \in Instances :
         /\ WF_vars(BootSweep(i)) /\ WF_vars(BootRegister(i))
         /\ WF_vars(LeaseRenew(i)) /\ WF_vars(SweepStale(i))
    /\ \A h \in Hosts : WF_vars(RowAges(h) /\ ~Beating(h))
    /\ WF_vars(MergeRead) /\ WF_vars(MergeMove) /\ WF_vars(MergeCopyFacts)
    /\ WF_vars(MergeDelete) /\ WF_vars(MergeNotFound)

FairSpec == Spec /\ Fairness

Serving == \E i \in Instances : inst[i] = "up"

\* The agent has a channel that the registry hands out for the agent's host, and
\* host_agents says so: online, under the instance that holds it.
Settled(a) ==
    \E s \in Sessions :
        /\ sAgent[s] = a /\ linked[s] /\ ~stopped[s]
        /\ HasRow(sHost[s]) /\ row[sHost[s]].agent = a
        /\ Claimed(sHost[s], sInst[s])
        /\ byHost[sInst[s]][sHost[s]] = s

Bound(a) == \E h \in Hosts : HasRow(h) /\ row[h].agent = a

\* An agent that stays up and bound, and is the only one there ever was, ends with a
\* reachable channel and an online row, whatever drops, crashes, sweeps, merges and
\* deletions came before: Touch re-claims a row that drifted, and drops a channel whose row has moved.
\* A rebind is excluded: see OfflineIsTrue and GetByHostFinds, and on two instances the
\* channels of both agents would re-claim the row from each other for ever.
LiveAgentSettles ==
    \A a \in Agents :
        <>[](issued = {a} /\ a \in agentUp /\ Serving /\ Bound(a)) => <>[]Settled(a)

\* The row of a machine that is gone for good ends up offline, whichever of Remove,
\* the orphan sweep and the stale sweep is the one to notice.  The agent is the only
\* one there ever was: the open channel of an agent detached from the host by a rebind
\* would re-claim the row and keep it online.
GoneAgentOffline ==
    \A a \in Agents :
        <>[](issued = {a} /\ a \notin agentUp /\ Serving)
            => <>[](\A h \in Hosts : HasRow(h) => row[h].status = "offline")

-----------------------------------------------------------------------------
(* What the comments promise and the code does not keep (see the README).   *)

\* Add's comment: connects and claims stay in the same order, so the row never
\* ends up with a dead connection's timestamp while the live agent's token can
\* not validate.  Touch's re-claim takes no lock.
EpochFollowsRow ==
    \A s \in Sessions :
        /\ pc[s] = "serving" /\ linked[s] /\ Current(s) = s /\ epoch[s] # 0
        /\ Claimed(sHost[s], sInst[s]) /\ row[sHost[s]].agent = sAgent[s]
        /\ \A t \in Sessions : sAgent[t] = sAgent[s] => pc[t] \notin {"adding", "reclaiming"}
        => row[sHost[s]].epoch = epoch[s]

\* handleChannel's comment: when MarkOnline fails the first heartbeat re-claims
\* the row and issues the token then.  Touch re-claims nothing while the row is
\* still online under this instance from the channel before.
FailedClaimHeals ==
    \A s \in Sessions :
        pc[s] = "serving" /\ epoch[s] = 0 /\ linked[s] ~> epoch[s] # 0 \/ ~linked[s]

\* Remove's comment: the identity check and the guard on instance_id keep it from
\* marking a connected agent offline.  Both are about the session's own agent and about
\* other instances; a second agent bound to the same host meanwhile is neither.  (A
\* channel still in Add is about to claim the row again and does not count.)
OfflineIsTrue ==
    [][\A h \in Hosts, i \in Instances :
          GoesOffline(h, i) => \/ OfflineDue(h, i)
                               \/ pc[byAgent[i][row[h].agent]] = "adding"]_vars

\* A registered channel whose agent is connected and which nobody told to stop.
LiveChannel(s) == pc[s] \in Registered /\ Current(s) = s /\ linked[s] /\ ~stopped[s]

\* GetByHost's comment: it returns the live session for a host.  A channel accepted
\* before a rebind and added after the new agent's takes the key over, and its Remove
\* then deletes the key; the new agent's beats match, so nothing files it again.
GetByHostFinds ==
    \A s \in Sessions :
        LiveChannel(s) ~> ~LiveChannel(s) \/ byHost[sInst[s]][sHost[s]] # None

=============================================================================
