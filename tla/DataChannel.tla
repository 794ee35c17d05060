------------------------------ MODULE DataChannel ------------------------------
(***************************************************************************)
(* The data channel of one host: the DataHub of each server instance       *)
(* (pkg/apis/agentgw/datachannel.go) with the requests that open streams   *)
(* through it, and the agent's demand-driven Channel                       *)
(* (lib/agent/datachan/channel.go).                                        *)
(*                                                                         *)
(* A Conn is one yamux session; its two ends close separately and each     *)
(* learns of the other's close later.  Every critical section on           *)
(* DataHub.mu is one step.                                                 *)
(***************************************************************************)
EXTENDS Naturals, FiniteSets

CONSTANTS
    Instances,   \* server instances, each with its DataHub
    Openers,     \* calls of OpenStream
    Conns,       \* yamux sessions, reused after both ends have let go
    None,
    Disturbances,\* bound: the kinds of fault that may happen
    MaxFaults    \* bound: how many of them happen

ASSUME BoundAssumption == MaxFaults \in Nat
ASSUME NoneAssumption == None \notin Conns /\ None \notin Instances

VARIABLES
    sessions,  \* DataHub.sessions of each instance
    waiters,   \* DataHub.waiters of each instance
    handler,   \* where the accept goroutine of each Conn is
    home,      \* the instance a Conn was dialled to
    prev,      \* register's local: the session it superseded
    toWake,    \* register's local: the waiters it took out of the map
    gwOpen,    \* the server's end of the Conn is open
    agOpen,    \* the agent's end of the Conn is open
    control,   \* the instance that holds the host's control channel
    opens,     \* channel.open frames on their way to the agent
    oPc, oInst, oConn,  \* where each call is, its instance, the session it got
    tries,     \* await calls each OpenStream has made
    ready,     \* the calls whose ready channel has been closed
    why,       \* how each call ended
    wake,      \* Channel.wake holds a token
    agPc,      \* where Channel.Run is
    agConn,    \* the Conn Channel.session is serving
    serving,   \* Channel.streams: the calls whose stream the agent serves
    idle,      \* time.Since(lastUse) >= idleTimeout
    closing,   \* watchIdle has found the channel idle and is about to close it
    faults     \* disturbances so far

hub == <<sessions, waiters, handler, home, prev, toWake>>
ends == <<gwOpen, agOpen>>
link == <<control, opens>>
calls == <<oPc, oInst, oConn, tries, ready, why>>
agent == <<wake, agPc, agConn, serving, idle, closing>>
vars == <<hub, ends, link, calls, agent, faults>>

Handlers == {"free", "upgraded", "swapped", "blocked"}
OPcs == {"idle", "await", "trigger", "parked", "open", "handshake", "served", "ended"}
Ends == {"no", "served", "refused", "gaveUp", "closed", "broken", "unanswered"}
AgPcs == {"parked", "dial", "accepting", "drainIdle", "drainErr", "backoff"}

\* The type invariant: each map holds Conns and calls, each goroutine is at one of
\* its steps, and whoever uses a session has one (openOn never sees nil).
TypeOK ==
    /\ sessions \in [Instances -> Conns \cup {None}]
    /\ waiters \in [Instances -> SUBSET Openers]
    /\ handler \in [Conns -> Handlers]
    /\ home \in [Conns -> Instances \cup {None}]
    /\ prev \in [Conns -> Conns \cup {None}]
    /\ toWake \in [Conns -> SUBSET Openers]
    /\ gwOpen \in [Conns -> BOOLEAN] /\ agOpen \in [Conns -> BOOLEAN]
    /\ control \in Instances \cup {None} /\ opens \in Nat
    /\ oPc \in [Openers -> OPcs]
    /\ oInst \in [Openers -> Instances \cup {None}]
    /\ oConn \in [Openers -> Conns \cup {None}]
    /\ tries \in [Openers -> Nat]
    /\ ready \subseteq Openers
    /\ why \in [Openers -> Ends]
    /\ wake \in BOOLEAN /\ agPc \in AgPcs /\ agConn \in Conns \cup {None}
    /\ serving \subseteq Openers
    /\ idle \in BOOLEAN /\ closing \in BOOLEAN
    /\ faults \in Nat
    /\ \A o \in Openers : oPc[o] \in {"open", "handshake", "served"} => oConn[o] \in Conns
    /\ agPc = "accepting" => agConn \in Conns

Init ==
    /\ sessions = [i \in Instances |-> None]
    /\ waiters = [i \in Instances |-> {}]
    /\ handler = [c \in Conns |-> "free"]
    /\ home = [c \in Conns |-> None]
    /\ prev = [c \in Conns |-> None]
    /\ toWake = [c \in Conns |-> {}]
    /\ gwOpen = [c \in Conns |-> FALSE]
    /\ agOpen = [c \in Conns |-> FALSE]
    /\ control \in Instances
    /\ opens = 0
    /\ oPc = [o \in Openers |-> "idle"]
    /\ oInst = [o \in Openers |-> None]
    /\ oConn = [o \in Openers |-> None]
    /\ tries = [o \in Openers |-> 0]
    /\ ready = {}
    /\ why = [o \in Openers |-> "no"]
    /\ wake = FALSE /\ agPc = "parked" /\ agConn = None /\ serving = {}
    /\ idle = FALSE /\ closing = FALSE
    /\ faults = 0

Fault(kind) == kind \in Disturbances /\ faults < MaxFaults /\ faults' = faults + 1

Goto(o, p) == oPc' = [oPc EXCEPT ![o] = p]

Continue(o, p) == Goto(o, p) /\ UNCHANGED <<oConn, tries, why>>

\* The call returns; its locals are gone.
End(o, w) ==
    /\ Goto(o, "ended")
    /\ why' = [why EXCEPT ![o] = w]
    /\ oConn' = [oConn EXCEPT ![o] = None]
    /\ tries' = [tries EXCEPT ![o] = 0]

-----------------------------------------------------------------------------
(* DataHub: accept, register, unregister.                                   *)

\* Mutant of Unregister: without the check that the session is the current one.
UnregisterAny(i, c) == sessions' = [sessions EXCEPT ![i] = None]

Unregister(i, c) == sessions' = [sessions EXCEPT ![i] = IF @ = c THEN None ELSE @]

\* Mutant of RegisterSwap: the parked waiters are not taken along.
RegisterSwapOnly(c) ==
    /\ handler[c] = "upgraded"
    /\ prev' = [prev EXCEPT ![c] = sessions[home[c]]]
    /\ sessions' = [sessions EXCEPT ![home[c]] = c]
    /\ handler' = [handler EXCEPT ![c] = "swapped"]
    /\ UNCHANGED <<waiters, toWake, home, ends, link, calls, agent, faults>>

\* register, under the lock: install the session, take out the waiters.
RegisterSwap(c) ==
    /\ handler[c] = "upgraded"
    /\ prev' = [prev EXCEPT ![c] = sessions[home[c]]]
    /\ toWake' = [toWake EXCEPT ![c] = waiters[home[c]]]
    /\ sessions' = [sessions EXCEPT ![home[c]] = c]
    /\ waiters' = [waiters EXCEPT ![home[c]] = {}]
    /\ handler' = [handler EXCEPT ![c] = "swapped"]
    /\ UNCHANGED <<home, ends, link, calls, agent, faults>>

\* register, after the unlock: close the superseded session, wake the waiters.
RegisterNotify(c) ==
    /\ handler[c] = "swapped"
    /\ gwOpen' = [d \in Conns |-> gwOpen[d] /\ d # prev[c]]
    /\ ready' = ready \cup {o \in toWake[c] : oPc[o] \in {"trigger", "parked"}}
    /\ prev' = [prev EXCEPT ![c] = None]
    /\ toWake' = [toWake EXCEPT ![c] = {}]
    /\ handler' = [handler EXCEPT ![c] = "blocked"]
    /\ UNCHANGED <<sessions, waiters, home, agOpen, link, oPc, oInst, oConn, tries, why,
                   agent, faults>>

\* Mutant of AcceptEnds: the handler returns and leaves its session in the map.
AcceptEndsSilently(c) ==
    /\ handler[c] = "blocked" /\ ~gwOpen[c]
    /\ handler' = [handler EXCEPT ![c] = "free"]
    /\ home' = [home EXCEPT ![c] = None]
    /\ UNCHANGED <<sessions, waiters, prev, toWake, ends, link, calls, agent, faults>>

\* The session died: accept unregisters it and the handler returns.
AcceptEnds(c) ==
    /\ handler[c] = "blocked" /\ ~gwOpen[c]
    /\ Unregister(home[c], c)
    /\ handler' = [handler EXCEPT ![c] = "free"]
    /\ home' = [home EXCEPT ![c] = None]
    /\ UNCHANGED <<waiters, prev, toWake, ends, link, calls, agent, faults>>

\* The server shuts down (ctx.Done): accept unregisters a session that is still
\* open and then closes it.
AcceptCancelled(c) ==
    /\ handler[c] = "blocked" /\ gwOpen[c] /\ Fault("shutdown")
    /\ Unregister(home[c], c)
    /\ gwOpen' = [gwOpen EXCEPT ![c] = FALSE]
    /\ handler' = [handler EXCEPT ![c] = "free"]
    /\ home' = [home EXCEPT ![c] = None]
    /\ UNCHANGED <<waiters, prev, toWake, agOpen, link, calls, agent>>

-----------------------------------------------------------------------------
(* DataHub: OpenStream, await, trigger, openOn.                             *)

OpenStream(o, i) ==
    /\ oPc[o] = "idle"
    /\ oInst' = [oInst EXCEPT ![o] = i]
    /\ Continue(o, "await")
    /\ UNCHANGED <<hub, ends, link, ready, agent, faults>>

\* await, under the lock: the session that is up, or a place among the waiters.
Await(o) ==
    LET i == oInst[o] IN
    /\ oPc[o] = "await"
    /\ tries' = [tries EXCEPT ![o] = @ + 1]
    /\ IF sessions[i] # None
       THEN Goto(o, "open") /\ oConn' = [oConn EXCEPT ![o] = sessions[i]] /\ UNCHANGED waiters
       ELSE Goto(o, "trigger") /\ waiters' = [waiters EXCEPT ![i] = @ \cup {o}]
            /\ UNCHANGED oConn
    /\ UNCHANGED <<sessions, handler, home, prev, toWake, ends, link, oInst, why, ready, agent, faults>>

CancelWaiter(o) == waiters' = [waiters EXCEPT ![oInst[o]] = @ \ {o}]

\* channel.open goes out on the control channel this instance holds.
Trigger(o) ==
    /\ oPc[o] = "trigger" /\ control = oInst[o]
    /\ opens' = opens + 1
    /\ Continue(o, "parked")
    /\ UNCHANGED <<hub, ends, control, oInst, ready, agent, faults>>

\* No control channel here (classifyMiss says why), or the write failed.
TriggerFails(o) ==
    /\ oPc[o] = "trigger"
    /\ IF control # oInst[o] THEN UNCHANGED faults ELSE Fault("write")
    /\ CancelWaiter(o)
    /\ ready' = ready \ {o}
    /\ End(o, "refused")
    /\ UNCHANGED <<sessions, handler, home, prev, toWake, ends, link, oInst, agent>>

\* Mutant of Woken: without the check that the session is still there.
WokenUnchecked(o) ==
    /\ oPc[o] = "parked" /\ o \in ready
    /\ CancelWaiter(o)
    /\ ready' = ready \ {o}
    /\ Goto(o, "open")
    /\ oConn' = [oConn EXCEPT ![o] = sessions[oInst[o]]]
    /\ UNCHANGED <<sessions, handler, home, prev, toWake, ends, link, oInst, tries, why, agent,
                   faults>>

\* The ready channel closed: take whatever session is up now, if any.
Woken(o) ==
    LET c == sessions[oInst[o]] IN
    /\ oPc[o] = "parked" /\ o \in ready
    /\ CancelWaiter(o)
    /\ ready' = ready \ {o}
    /\ IF c # None THEN /\ Goto(o, "open") /\ oConn' = [oConn EXCEPT ![o] = c]
                        /\ UNCHANGED <<tries, why>>
                   ELSE End(o, "closed")
    /\ UNCHANGED <<sessions, handler, home, prev, toWake, ends, link, oInst, agent, faults>>

\* dataDialTimeout, or the caller gave up.
AwaitEnds(o) ==
    /\ oPc[o] = "parked"
    /\ CancelWaiter(o)
    /\ ready' = ready \ {o}
    /\ End(o, "gaveUp")
    /\ UNCHANGED <<sessions, handler, home, prev, toWake, ends, link, oInst, agent, faults>>

\* sess.OpenStream: the SYN is sent on a session whose local end is open.
SendOpen(o) ==
    /\ oPc[o] = "open" /\ gwOpen[oConn[o]]
    /\ Continue(o, "handshake")
    /\ UNCHANGED <<hub, ends, link, oInst, ready, agent, faults>>

\* Mutant of AfterBreak: no second try on a fresh session.
EndAfterBreak(o) == End(o, "broken")

\* OpenStream after openOn failed: once more if the session really is closed.
AfterBreak(o) ==
    IF tries[o] = 1 /\ ~gwOpen[oConn[o]] THEN Continue(o, "await")
                                         ELSE End(o, "broken")

\* openOn could not open a stream: the local end is closed, or the write of the
\* SYN timed out on a session that is not closed.  Either way it is unregistered.
OpenFails(o) ==
    /\ oPc[o] = "open"
    /\ IF gwOpen[oConn[o]] THEN Fault("stall") ELSE UNCHANGED faults
    /\ Unregister(oInst[o], oConn[o])
    /\ AfterBreak(o)
    /\ UNCHANGED <<waiters, handler, home, prev, toWake, ends, link, oInst, ready, agent>>

\* The session died under the handshake.  Only a retry unregisters it.
HandshakeBreaks(o) ==
    /\ oPc[o] = "handshake" /\ ~gwOpen[oConn[o]]
    /\ AfterBreak(o)
    /\ IF tries[o] = 1 THEN Unregister(oInst[o], oConn[o]) ELSE UNCHANGED sessions
    /\ UNCHANGED <<waiters, handler, home, prev, toWake, ends, link, oInst, ready, agent,
                   faults>>

\* The caller's context ended first: the stream is closed, whatever came back.
HandshakeCancelled(o) ==
    /\ oPc[o] = "handshake"
    /\ End(o, "gaveUp")
    /\ UNCHANGED <<hub, ends, link, oInst, ready, agent, faults>>

\* The caller is done with its stream.
CallerCloses(o) ==
    /\ oPc[o] = "served"
    /\ End(o, "served")
    /\ UNCHANGED <<hub, ends, link, oInst, ready, agent, faults>>

-----------------------------------------------------------------------------
(* The agent: Ensure, Run, session, serve, watchIdle.                       *)

\* channel.open arrives: Ensure puts a token in wake, unless one is there.
Ensure ==
    /\ opens > 0
    /\ opens' = opens - 1
    /\ wake' = TRUE
    /\ UNCHANGED <<hub, ends, control, calls, agPc, agConn, serving, idle, closing, faults>>

Wake ==
    /\ agPc = "parked" /\ wake
    /\ wake' = FALSE
    /\ agPc' = "dial"
    /\ UNCHANGED <<hub, ends, link, calls, agConn, serving, idle, closing, faults>>

Unused(c) == /\ handler[c] = "free" /\ ~gwOpen[c] /\ ~agOpen[c] /\ agConn # c
             /\ \A d \in Conns : prev[d] # c
             /\ \A o \in Openers : oConn[o] # c

\* The dial lands on some instance, which accepts the session token.
Dial(c, i) ==
    /\ agPc = "dial" /\ Unused(c)
    /\ handler' = [handler EXCEPT ![c] = "upgraded"]
    /\ home' = [home EXCEPT ![c] = i]
    /\ gwOpen' = [gwOpen EXCEPT ![c] = TRUE]
    /\ agOpen' = [agOpen EXCEPT ![c] = TRUE]
    /\ agPc' = "accepting" /\ agConn' = c
    /\ idle' = FALSE /\ closing' = FALSE
    /\ UNCHANGED <<sessions, waiters, prev, toWake, link, calls, wake, serving, faults>>

\* No token yet, the token is refused, or the server cannot be reached.
DialFails ==
    /\ agPc = "dial" /\ Fault("dial")
    /\ agPc' = "backoff"
    /\ UNCHANGED <<hub, ends, link, calls, wake, agConn, serving, idle, closing>>

Backoff ==
    /\ agPc = "backoff"
    /\ agPc' = "dial"
    /\ UNCHANGED <<hub, ends, link, calls, wake, agConn, serving, idle, closing, faults>>

\* AcceptStream returns a stream: streamStart.
AcceptStream(o) ==
    /\ agPc = "accepting" /\ agOpen[agConn]
    /\ oPc[o] = "handshake" /\ oConn[o] = agConn /\ o \notin serving
    /\ serving' = serving \cup {o}
    /\ idle' = FALSE
    /\ UNCHANGED <<hub, ends, link, calls, wake, agPc, agConn, closing, faults>>

\* The stream's handler answers, and the gateway reads the answer.
Answer(o) ==
    /\ o \in serving /\ oPc[o] = "handshake"
    /\ agOpen[oConn[o]] /\ gwOpen[oConn[o]]
    /\ Continue(o, "served") \/ End(o, "refused")
    /\ UNCHANGED <<hub, ends, link, oInst, ready, agent, faults>>

\* The handler returns without an answer (an unreadable header, a failed write)
\* while the session lives: an error to the caller, and no second try.
Unanswered(o) ==
    /\ o \in serving /\ oPc[o] = "handshake" /\ Fault("silent")
    /\ agOpen[oConn[o]] /\ gwOpen[oConn[o]]
    /\ End(o, "unanswered")
    /\ serving' = serving \ {o}
    /\ idle' = FALSE
    /\ UNCHANGED <<hub, ends, link, oInst, ready, wake, agPc, agConn, closing>>

\* The handler returns: the caller closed the stream, or the session is dead.
StreamDone(o) ==
    /\ o \in serving
    /\ oPc[o] \notin {"handshake", "served"} \/ ~agOpen[agConn]
    /\ serving' = serving \ {o}
    /\ idle' = FALSE
    /\ UNCHANGED <<hub, ends, link, calls, wake, agPc, agConn, closing, faults>>

\* Goroutines that have something to do now.
Running ==
    \/ \E o \in Openers : \/ oPc[o] \in {"await", "trigger", "open", "handshake"}
                          \/ oPc[o] = "parked" /\ o \in ready
    \/ \E c \in Conns : handler[c] \in {"upgraded", "swapped"}

\* Five minutes without a stream; nothing that can run is left waiting that long.
IdleElapses ==
    /\ agPc = "accepting" /\ serving = {} /\ ~idle /\ ~Running
    /\ idle' = TRUE
    /\ UNCHANGED <<hub, ends, link, calls, wake, agPc, agConn, serving, closing, faults>>

idleClosed == serving = {} /\ idle

\* watchIdle's ticker finds the channel idle; it closes the session next.
IdleCheck ==
    /\ agPc = "accepting" /\ idleClosed /\ ~closing
    /\ closing' = TRUE
    /\ UNCHANGED <<hub, ends, link, calls, wake, agPc, agConn, serving, idle, faults>>

IdleClose ==
    /\ agPc = "accepting" /\ closing /\ agOpen[agConn]
    /\ agOpen' = [agOpen EXCEPT ![agConn] = FALSE]
    /\ UNCHANGED <<hub, gwOpen, link, calls, agent, faults>>

\* Mutant of AcceptFails: an idle close is taken for a broken channel.
AcceptFailsAlike ==
    /\ agPc = "accepting" /\ ~agOpen[agConn]
    /\ agPc' = "drainErr"
    /\ UNCHANGED <<hub, ends, link, calls, wake, agConn, serving, idle, closing, faults>>

\* AcceptStream fails on a dead session: an idle close, or a broken channel.
AcceptFails ==
    /\ agPc = "accepting" /\ ~agOpen[agConn]
    /\ agPc' = IF idleClosed THEN "drainIdle" ELSE "drainErr"
    /\ UNCHANGED <<hub, ends, link, calls, wake, agConn, serving, idle, closing, faults>>

\* Mutant of Drained: Run empties wake before it parks.
DrainedForgets ==
    /\ agPc \in {"drainIdle", "drainErr"} /\ serving = {}
    /\ agPc' = IF agPc = "drainIdle" THEN "parked" ELSE "backoff"
    /\ wake' = FALSE
    /\ agConn' = None
    /\ closing' = FALSE
    /\ UNCHANGED <<hub, ends, link, calls, serving, idle, faults>>

\* Every stream handler has returned (wg.Wait): park, or dial again.
Drained ==
    /\ agPc \in {"drainIdle", "drainErr"} /\ serving = {}
    /\ agPc' = IF agPc = "drainIdle" THEN "parked" ELSE "backoff"
    /\ agConn' = None
    /\ closing' = FALSE
    /\ UNCHANGED <<hub, ends, link, calls, wake, serving, idle, faults>>

-----------------------------------------------------------------------------
(* The network and the instances.                                           *)

\* One end is closed; keepalive or the FIN closes the other.
CloseReaches(c) ==
    /\ gwOpen[c] # agOpen[c]
    /\ gwOpen' = [gwOpen EXCEPT ![c] = FALSE]
    /\ agOpen' = [agOpen EXCEPT ![c] = FALSE]
    /\ UNCHANGED <<hub, link, calls, agent, faults>>

\* The connection breaks; one end notices first.
Breaks(c) ==
    /\ gwOpen[c] /\ agOpen[c] /\ Fault("break")
    /\ \/ gwOpen' = [gwOpen EXCEPT ![c] = FALSE] /\ UNCHANGED agOpen
       \/ agOpen' = [agOpen EXCEPT ![c] = FALSE] /\ UNCHANGED gwOpen
    /\ UNCHANGED <<hub, link, calls, agent>>

\* The agent's control channel moves; frames on the old one are lost.
ControlMoves(i) ==
    /\ i # control /\ Fault("control")
    /\ control' = i
    /\ opens' = 0
    /\ UNCHANGED <<hub, ends, calls, agent>>

-----------------------------------------------------------------------------

CallStep(o) ==
    \/ \E i \in Instances : OpenStream(o, i)
    \/ Await(o) \/ Trigger(o) \/ TriggerFails(o) \/ Woken(o) \/ AwaitEnds(o)
    \/ SendOpen(o) \/ OpenFails(o) \/ HandshakeBreaks(o) \/ HandshakeCancelled(o)
    \/ CallerCloses(o) \/ AcceptStream(o) \/ Answer(o) \/ Unanswered(o)
    \/ StreamDone(o)

ConnStep(c) ==
    \/ RegisterSwap(c) \/ RegisterNotify(c) \/ AcceptEnds(c) \/ AcceptCancelled(c)
    \/ CloseReaches(c) \/ Breaks(c)
    \/ \E i \in Instances : Dial(c, i)

AgentStep ==
    \/ Ensure \/ Wake \/ DialFails \/ Backoff
    \/ IdleElapses \/ IdleCheck \/ IdleClose \/ AcceptFails \/ Drained

Next ==
    \/ \E o \in Openers : CallStep(o)
    \/ \E c \in Conns : ConnStep(c)
    \/ AgentStep
    \/ \E i \in Instances \cup {None} : ControlMoves(i)

Spec == Init /\ [][Next]_vars

-----------------------------------------------------------------------------
(* Safety                                                                  *)

\* A call that is waiting while a session is in the map has been, or is about to
\* be, woken: await registers its waiter under the lock of the "is it up" check.
NoLostWaiter ==
    \A o \in Openers :
        oPc[o] \in {"trigger", "parked"} /\ o \notin ready /\ sessions[oInst[o]] # None
            => \E c \in Conns : o \in toWake[c]

\* The map never holds a session whose accept handler has returned, however
\* register, unregister and the retry of OpenStream interleave.
MapIsServed ==
    \A i \in Instances, c \in Conns :
        sessions[i] = c => handler[c] \in {"swapped", "blocked"} /\ home[c] = i

\* A session that dies late does not evict its replacement: what leaves the map
\* while its own end is open was superseded, or failed an open.
OnlyDeadLeave ==
    [][\A i \in Instances, c \in Conns :
          sessions[i] = c /\ gwOpen[c] /\ sessions'[i] # c
              => \/ sessions'[i] # None
                 \/ faults' = faults + 1]_vars

\* An idle close is invisible: with nothing broken, no call ever fails because
\* the session it found was a corpse (OpenStream's one retry).
IdleCloseInvisible ==
    faults = 0 => \A o \in Openers : why[o] \notin {"closed", "broken"}

-----------------------------------------------------------------------------
(* Liveness                                                                *)

\* Goroutines run, frames arrive, closes are noticed, dials that nothing
\* disturbs succeed, callers end their streams, unused channels grow idle.
Fairness ==
    /\ \A o \in Openers :
         /\ WF_vars(Await(o)) /\ WF_vars(Trigger(o) \/ TriggerFails(o))
         /\ WF_vars(Woken(o) \/ AwaitEnds(o)) /\ WF_vars(SendOpen(o) \/ OpenFails(o))
         /\ WF_vars(HandshakeBreaks(o) \/ HandshakeCancelled(o) \/ Answer(o))
         /\ WF_vars(CallerCloses(o)) /\ WF_vars(AcceptStream(o)) /\ WF_vars(StreamDone(o))
    /\ \A c \in Conns :
         /\ WF_vars(RegisterSwap(c)) /\ WF_vars(RegisterNotify(c)) /\ WF_vars(AcceptEnds(c))
         /\ WF_vars(CloseReaches(c))
    /\ WF_vars(Ensure) /\ WF_vars(Wake) /\ WF_vars(\E c \in Conns, i \in Instances : Dial(c, i))
    /\ WF_vars(Backoff) /\ WF_vars(IdleElapses) /\ WF_vars(IdleCheck) /\ WF_vars(IdleClose)
    /\ WF_vars(AcceptFails) /\ WF_vars(Drained)

FairSpec == Spec /\ Fairness

\* Every channel.open that reaches the agent is followed by a data channel that
\* came up after it: the token in wake is never lost.
AskedComesUp == wake ~> (agPc = "accepting" /\ ~wake)

\* When nobody opens streams any more the agent ends up parked, and no session
\* is left in any instance's map.
QuietParks ==
    <>[](\A o \in Openers : oPc[o] \in {"idle", "ended"})
        => <>[](agPc = "parked" /\ \A i \in Instances : sessions[i] = None)

=============================================================================
