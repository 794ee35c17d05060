--------------------------- MODULE MachineIdentity ---------------------------
(***************************************************************************)
(* Who may hold a host's control channel: the fingerprint check of a       *)
(* reconnecting agent (pkg/apis/agentgw/identity.go, verifyMachine in      *)
(* channel.go) and the boot-nonce check for two live processes on one      *)
(* credential (CheckHostAgentIdentity in pkg/db/query/host_agent.sql).     *)
(*                                                                         *)
(* One host_agents row, one server instance.  The credential was issued to *)
(* Original; the other machines hold a copy of it.  Each database          *)
(* statement is one step, and a connection handler that is under way goes  *)
(* on when the process that dialled has died.                              *)
(***************************************************************************)
EXTENDS Naturals, FiniteSets

CONSTANTS
    Machines,
    Original,     \* the machine that registered
    Processes,    \* agent processes; a process is its own boot nonce
    Legacy,       \* the processes that send no nonce
    Serials,      \* what an SMBIOS UUID says, in either byte order
    MachineIDs,   \* values of /etc/machine-id
    None,         \* "", or nobody
    Disturbances, \* bound: the kinds of fault and change that may happen
    MaxFaults     \* bound: how many of them happen

ASSUME BoundAssumption == MaxFaults \in Nat
ASSUME OriginalAssumption == Original \in Machines /\ Legacy \subseteq Processes
ASSUME NoneAssumption == None \notin Processes /\ None \notin MachineIDs /\ None \notin Serials

\* One serial has two spellings (SMBIOS 2.6 byte order).
UUIDs == [serial: Serials, order: {"big", "little"}]

VARIABLES
    uuidOf, midOf, \* what each machine reports
    onMachine,     \* the machine each process runs on
    born, alive,   \* the processes that have started, and that run
    row,           \* the host_agents row
    pc,            \* where the handler of each process's connection is
    conn,          \* the handler's locals: the row it read and the fingerprint
    holder,        \* Registry.byHost: the process whose session is current
    stopped,       \* the processes whose session has been told to stop
    lineage,       \* lineage: machine-ids of machines with the row's UUID
    faults

world == <<uuidOf, midOf, onMachine, born, alive>>
registry == <<holder, stopped>>
vars == <<world, row, pc, conn, registry, lineage, faults>>

Fingerprints == [uuid: UUIDs \cup {None}, mid: MachineIDs \cup {None}]

Rows == [uuid: UUIDs \cup {None}, mid: MachineIDs \cup {None},
         nonce: Processes \cup {None}, prev: Processes \cup {None},
         conflict: {"none", "fresh", "lapsed"}, foreign: BOOLEAN]

NoEvidence == [uuid |-> None, mid |-> None]

Conns == [read: Fingerprints, fp: Fingerprints]

PCs == {"none", "hello", "verified", "contended", "checked", "adding", "online"}

-----------------------------------------------------------------------------
(* Fingerprints                                                            *)

swapUUIDByteOrder(u) == [u EXCEPT !.order = IF @ = "big" THEN "little" ELSE "big"]

sameProductUUID(a, b) == a # None /\ b # None /\ (a = b \/ a = swapUUIDByteOrder(b))

\* Mutant of VerifyMachine: two empty machine-ids are taken to agree.
VerifyMachineLoosely(r, f) ==
    CASE r.uuid = None \/ f.uuid = None -> "unverifiable"
      [] sameProductUUID(f.uuid, r.uuid) ->
             IF f.mid # None /\ r.mid # None /\ f.mid # r.mid THEN "midReset" ELSE "same"
      [] OTHER -> IF f.mid = r.mid THEN "hardwareChanged" ELSE "foreign"

\* Mutant of VerifyMachine: other hardware is taken for a reset.
VerifyMachineAlways(r, f) ==
    IF r.uuid = None \/ f.uuid = None THEN "unverifiable"
    ELSE IF f.mid = r.mid THEN "same" ELSE "midReset"

\* The verdict on a machine that reports f and holds the credential of row r.
VerifyMachine(r, f) ==
    CASE r.uuid = None \/ f.uuid = None -> "unverifiable"
      [] sameProductUUID(f.uuid, r.uuid) ->
             IF f.mid # None /\ r.mid # None /\ f.mid # r.mid THEN "midReset" ELSE "same"
      [] OTHER -> IF f.mid # None /\ f.mid = r.mid THEN "hardwareChanged" ELSE "foreign"

-----------------------------------------------------------------------------

\* The type invariant: the row and the handlers hold fingerprints, and a handler
\* that is under way has read a row.
TypeOK ==
    /\ uuidOf \in [Machines -> UUIDs \cup {None}]
    /\ midOf \in [Machines -> MachineIDs \cup {None}]
    /\ onMachine \in [Processes -> Machines]
    /\ born \subseteq Processes /\ alive \subseteq born
    /\ row \in Rows
    /\ pc \in [Processes -> PCs]
    /\ conn \in [Processes -> Conns \cup {None}]
    /\ holder \in Processes \cup {None} /\ stopped \subseteq Processes
    /\ lineage \subseteq MachineIDs
    /\ faults \in Nat
    /\ \A p \in Processes : pc[p] # "none" => conn[p] \in Conns

Reports(m) == [uuid |-> uuidOf[m], mid |-> midOf[m]]

\* All machines start on the same firmware: one spelling.
Init ==
    /\ uuidOf \in [Machines -> {u \in UUIDs : u.order = "big"} \cup {None}]
    /\ midOf \in [Machines -> MachineIDs \cup {None}]
    /\ onMachine \in [Processes -> Machines]
    /\ born = {} /\ alive = {}
    /\ row = [uuid |-> uuidOf[Original], mid |-> midOf[Original], nonce |-> None,
              prev |-> None, conflict |-> "none", foreign |-> FALSE]
    /\ pc = [p \in Processes |-> "none"]
    /\ conn = [p \in Processes |-> None]
    /\ holder = None /\ stopped = {}
    /\ lineage = {midOf[m] : m \in {x \in Machines : sameProductUUID(uuidOf[x], row.uuid)}} \ {None}
    /\ faults = 0

Fault(kind) == kind \in Disturbances /\ faults < MaxFaults /\ faults' = faults + 1

Goto(p, to) == pc' = [pc EXCEPT ![p] = to]

\* Mutant of Return: the socket is closed and the handler goes on.
CloseOnly(p) == Goto(p, "verified") /\ conn' = [conn EXCEPT ![p] = None]

\* The handler returns and its socket is closed.
Return(p) == Goto(p, "none") /\ conn' = [conn EXCEPT ![p] = None]

-----------------------------------------------------------------------------
(* The connection handler                                                  *)

\* authAgent reads the row; the hello brings the fingerprint and the nonce.
Dial(p) ==
    /\ p \in alive /\ pc[p] = "none"
    /\ Goto(p, "hello")
    /\ conn' = [conn EXCEPT ![p] = [read |-> [uuid |-> row.uuid, mid |-> row.mid],
                                    fp |-> Reports(onMachine[p])]]
    /\ UNCHANGED <<world, row, registry, lineage, faults>>

\* verifyMachine refuses: the reason is recorded on the row.
VerifyRefuses(p) ==
    /\ pc[p] = "hello" /\ VerifyMachine(conn[p].read, conn[p].fp) = "foreign"
    /\ \/ row' = [row EXCEPT !.foreign = TRUE] /\ UNCHANGED faults
       \/ UNCHANGED row /\ Fault("database")
    /\ Return(p)
    /\ UNCHANGED <<world, registry, lineage>>

\* UpdateHostAgentFingerprint: the machine-id, and the conflict is over.
RefreshFingerprint(f) == row' = [row EXCEPT !.mid = f.mid, !.conflict = "none"]

\* The handler goes on; it looks at the row it read no more.
Verified(p) ==
    /\ Goto(p, "verified")
    /\ conn' = [conn EXCEPT ![p] = [read |-> NoEvidence, fp |-> conn[p].fp]]

\* verifyMachine admits a machine the row already describes, or cannot judge.
VerifyAdmits(p) ==
    /\ pc[p] = "hello"
    /\ VerifyMachine(conn[p].read, conn[p].fp) \in {"same", "unverifiable"}
    /\ Verified(p)
    /\ UNCHANGED <<world, row, registry, lineage, faults>>

\* verifyMachine admits, and records the new machine-id or the new hardware; a
\* failure to record is logged.
VerifyRefreshes(p) ==
    /\ pc[p] = "hello"
    /\ VerifyMachine(conn[p].read, conn[p].fp) \in {"midReset", "hardwareChanged"}
    /\ \/ RefreshFingerprint(conn[p].fp) /\ UNCHANGED faults
       \/ Fault("database") /\ UNCHANGED row
    /\ Verified(p)
    /\ UNCHANGED <<world, registry, lineage>>

Nonce(p) == IF p \in Legacy THEN None ELSE p

\* Mutant of Retire: every connection shifts the history.
RetireAlways(n) == row.nonce


\* prev_boot_nonce: only a nonce that changed is retired.
Retire(n) == IF n # row.nonce THEN row.nonce ELSE row.prev

\* "The value we just retired is back."
Raised(n) == n # None /\ n = row.prev

\* CheckHostAgentIdentity: roll the nonce into the row, stamp a conflict, and
\* report whether one is recent.
CheckIdentity(p) ==
    /\ pc[p] = "verified"
    /\ row' = [row EXCEPT !.prev = Retire(Nonce(p)),
                          !.nonce = Nonce(p),
                          !.conflict = IF Raised(Nonce(p)) THEN "fresh" ELSE @]
    /\ Goto(p, IF row'.conflict = "fresh" THEN "contended" ELSE "checked")
    /\ UNCHANGED <<world, conn, registry, lineage, faults>>

\* A store failure admits the connection.
CheckFails(p) ==
    /\ pc[p] = "verified" /\ Fault("database")
    /\ Goto(p, "checked")
    /\ UNCHANGED <<world, row, conn, registry, lineage>>

\* The refused connection takes the incumbent down with it: Evict tells the session
\* in the map to stop.  It stays there until its own handler runs Remove.
Evict(p) ==
    /\ pc[p] = "contended"
    /\ stopped' = stopped \cup ({holder} \ {None})
    /\ Return(p)
    /\ UNCHANGED <<world, row, holder, lineage, faults>>

\* The agent's lock, which Add holds over its MarkOnline.
LockFree == \A q \in Processes : pc[q] # "adding"

\* Registry.Add: the session becomes the current one, the one before is told to stop.
AddSwap(p) ==
    /\ pc[p] = "checked" /\ LockFree
    /\ holder' = p
    /\ stopped' = stopped \cup ({holder} \ {None})
    /\ Goto(p, "adding")
    /\ UNCHANGED <<world, row, conn, lineage, faults>>

ClearVerdicts == row' = [row EXCEPT !.conflict = "none", !.foreign = FALSE]

\* MarkHostAgentOnline clears what the row held against the machine.  A statement on
\* its way when the session was evicted may still take effect.
MarkOnline(p) ==
    /\ pc[p] = "adding"
    /\ ClearVerdicts
    /\ Goto(p, "online")
    /\ UNCHANGED <<world, conn, registry, lineage, faults>>

\* The session was evicted before the statement was sent.
MarkOnlineCancelled(p) ==
    /\ pc[p] = "adding" /\ p \in stopped
    /\ Goto(p, "online")
    /\ UNCHANGED <<world, row, conn, registry, lineage, faults>>

\* The row had drifted (a stale sweep): Touch re-claims it with MarkHostAgentOnline,
\* without the lock, and also for a session that has been superseded meanwhile.
Reclaim(p) ==
    /\ pc[p] = "online" /\ Fault("drift")
    /\ ClearVerdicts
    /\ UNCHANGED <<world, pc, conn, registry, lineage>>

\* The read loop ends: the session was told to stop, its process died, or the network
\* did.  Remove drops it from the map if it is still the current one.
Remove(p) ==
    /\ pc[p] = "online" /\ LockFree
    /\ IF p \in stopped \/ p \notin alive THEN UNCHANGED faults ELSE Fault("drop")
    /\ holder' = IF holder = p THEN None ELSE holder
    /\ stopped' = stopped \ {p}
    /\ Return(p)
    /\ UNCHANGED <<world, row, lineage>>

-----------------------------------------------------------------------------
(* Processes, machines and time                                            *)

Boot(p) ==
    /\ p \notin born
    /\ born' = born \cup {p}
    /\ alive' = alive \cup {p}
    /\ UNCHANGED <<uuidOf, midOf, onMachine, row, pc, conn, registry, lineage, faults>>

Die(p) ==
    /\ p \in alive
    /\ alive' = alive \ {p}
    /\ UNCHANGED <<uuidOf, midOf, onMachine, born, row, pc, conn, registry, lineage, faults>>

Descends(f) == IF sameProductUUID(f.uuid, row.uuid) /\ f.mid # None
                  THEN lineage' = lineage \cup {f.mid} ELSE UNCHANGED lineage

\* systemd-machine-id-setup, the remedy for a clone.
ResetMachineID(m, id) ==
    /\ Fault("reset") /\ id # midOf[m]
    /\ midOf' = [midOf EXCEPT ![m] = id]
    /\ Descends([uuid |-> uuidOf[m], mid |-> id])
    /\ UNCHANGED <<uuidOf, onMachine, born, alive, row, pc, conn, registry>>

\* Migration or a firmware update: another UUID, or the other spelling of it.
ChangeHardware(m, u) ==
    /\ u # uuidOf[m]
    /\ Fault(IF sameProductUUID(u, uuidOf[m]) THEN "spelling" ELSE "hardware")
    /\ uuidOf' = [uuidOf EXCEPT ![m] = u]
    /\ Descends([uuid |-> u, mid |-> midOf[m]])
    /\ UNCHANGED <<midOf, onMachine, born, alive, row, pc, conn, registry>>

\* Fifteen minutes have passed since conflict_at.
CooldownLapses ==
    /\ row.conflict = "fresh"
    /\ row' = [row EXCEPT !.conflict = "lapsed"]
    /\ UNCHANGED <<world, pc, conn, registry, lineage, faults>>

-----------------------------------------------------------------------------

HandlerStep(p) ==
    \/ Dial(p) \/ VerifyRefuses(p) \/ VerifyAdmits(p) \/ VerifyRefreshes(p)
    \/ CheckIdentity(p) \/ CheckFails(p) \/ Evict(p)
    \/ AddSwap(p) \/ MarkOnline(p) \/ MarkOnlineCancelled(p) \/ Reclaim(p) \/ Remove(p)

Next ==
    \/ \E p \in Processes : HandlerStep(p) \/ Boot(p) \/ Die(p)
    \/ \E m \in Machines, id \in MachineIDs : ResetMachineID(m, id)
    \/ \E m \in Machines, u \in UUIDs : ChangeHardware(m, u)
    \/ CooldownLapses

Spec == Init /\ [][Next]_vars

-----------------------------------------------------------------------------
(* Safety                                                                  *)

\* Both were seen and they disagree on everything: not the row's machine.
Stranger(f) == /\ row.uuid # None /\ f.uuid # None /\ ~sameProductUUID(f.uuid, row.uuid)
               /\ f.mid \notin lineage

\* A machine that never shared the UUID the credential was issued for, nor a
\* machine-id of a machine that did, never gets past verifyMachine; neither
\* resets nor stale reads of the row can widen what the row admits.
StrangersRefused ==
    \A p \in Processes : pc[p] \notin {"none", "hello"} => ~Stranger(conn[p].fp)

\* Why: the row's machine-id is always one that hardware with its UUID had.
RowStaysInLineage == row.uuid # None => row.mid \in lineage \cup {None}

-----------------------------------------------------------------------------
(* Liveness                                                                *)

\* Handlers run, agents redial, dead sockets are noticed, time passes.
Fairness ==
    /\ \A p \in Processes :
         /\ WF_vars(Dial(p)) /\ WF_vars(VerifyRefuses(p) \/ VerifyAdmits(p) \/ VerifyRefreshes(p))
         /\ WF_vars(CheckIdentity(p)) /\ WF_vars(Evict(p)) /\ WF_vars(AddSwap(p))
         /\ WF_vars(MarkOnline(p) \/ MarkOnlineCancelled(p))
         /\ WF_vars(Remove(p) /\ (p \in stopped \/ p \notin alive))
    /\ WF_vars(CooldownLapses)

FairSpec == Spec /\ Fairness

\* identityConflictCooldown's comment: a conflict resolves itself once the
\* duplicate is shut down.  The one process left is admitted for good, unless
\* its machine is not the row's.
SurvivorAdmitted ==
    \A p \in Processes :
        <>[](alive = {p} /\ VerifyMachine(row, Reports(onMachine[p])) # "foreign")
            => <>[](holder = p /\ pc[p] = "online" /\ p \notin stopped)


=============================================================================
