------------------------------- MODULE Server --------------------------------
(***************************************************************************)
(* The life of the backend's process around its requests (backend/main.go, *)
(* middleware_accesslog.go, middleware_audit.go): serving, draining on a   *)
(* signal or a failed listener, cutting off what is left, flushing the     *)
(* telemetry and exiting, and the lines and spans that the requests leave. *)
(*                                                                         *)
(* The requests are those of module ListCache: lists with their pool of    *)
(* workers, and mutations; all of them run in the handlers of this         *)
(* process.  The clock here runs only while the process stops; ListCache's *)
(* stands still.                                                           *)
(***************************************************************************)
EXTENDS ListCache

CONSTANTS
  DrainTimeout, CloseWait, FlushTimeout,   \* the termination budget
  Grace,                                   \* from SIGTERM to SIGKILL
  MaxCopy,                                 \* maxAuditBodyBytes
  MaxWrites                                \* bound: writes of one response

ASSUME BudgetAssumption ==
  /\ {DrainTimeout, CloseWait, FlushTimeout, Grace, MaxCopy, MaxWrites} \subseteq Nat
  /\ DrainTimeout + CloseWait + FlushTimeout < Grace

Requests == Lists \cup Mutations

VARIABLES
  phase,     \* of the process
  exit,      \* how it ended
  clock,     \* since it began to stop
  deadline,  \* when the phase ends at the latest
  signals,   \* how many it was sent
  killAt,    \* when the pod's grace period is over, once there was a signal
  handler,   \* per request
  lines,     \* what was recorded of a request
  warned     \* the requests of "handlers still running after close"

pvars == <<phase, exit, clock, deadline, signals, killAt, warned>>
svars == <<pvars, handler, lines>>
all   == <<vars, svars>>

Busy == {r \in Requests : handler[r] = "running"}

Open == {r \in Requests : handler[r] \in {"connected", "running"}}

-----------------------------------------------------------------------------
(* The copy of a response that the audit line is derived from *)

ForgetsOverflow(c, n) ==
  IF c.len < MaxCopy
  THEN [len |-> IF c.len + n > MaxCopy THEN MaxCopy ELSE c.len + n, overflow |-> c.len + n > MaxCopy]
  ELSE c

\* cappedBuffer.Write of n bytes.
Write(c, n) ==
  IF c.len < MaxCopy
  THEN [len |-> IF c.len + n > MaxCopy THEN MaxCopy ELSE c.len + n,
        overflow |-> c.overflow \/ c.len + n > MaxCopy]
  ELSE [c EXCEPT !.overflow = @ \/ n > 0]

Copy(writes) ==
  LET copy[i \in 0..Len(writes)] ==
        IF i = 0 THEN [len |-> 0, overflow |-> FALSE] ELSE Write(copy[i - 1], writes[i])
  IN  copy[Len(writes)]

\* garageErrors: the answer of several nodes, some of which may have failed.
Marked(writes, failedNodes) ==
  ~Copy(writes).overflow /\ Copy(writes).len > 0 /\ failedNodes # {}

-----------------------------------------------------------------------------
ServerInit ==
  /\ Init
  /\ phase = "serving" /\ exit = "none" /\ clock = 0 /\ deadline = 0
  /\ signals = 0 /\ killAt = 0 /\ warned = {}
  /\ handler = [r \in Requests |-> "none"]
  /\ lines = [r \in Requests |-> {}]

(* Requests *)

Connect(r) ==
  /\ phase = "serving" /\ handler[r] = "none"
  /\ handler' = [handler EXCEPT ![r] = "connected"]
  /\ UNCHANGED <<vars, pvars, lines>>

\* The request is read: also while draining, from a connection that Shutdown
\* has not closed as idle yet.
Start(r) ==
  /\ phase \in {"serving", "draining"} /\ handler[r] = "connected"
  /\ handler' = [handler EXCEPT ![r] = "running"]
  /\ UNCHANGED <<vars, pvars, lines>>

\* Shutdown closes connections on which nothing was asked.
CloseIdle(r) ==
  /\ phase = "draining" /\ handler[r] = "connected"
  /\ handler' = [handler EXCEPT ![r] = "cut"]
  /\ UNCHANGED <<vars, pvars, lines>>

\* Once the server was closed, the contexts of its requests are cancelled: the
\* steps of ListCache for a client that left.
Handle(r) ==
  /\ handler[r] = "running"
  /\ \/ r \in Lists /\ ListStep(r)
     \/ \E m \in Mutations \cap {r} :
          \/ \E is \in (SUBSET Items) \ {{}} : MutationSend(m, is)
          \/ ClearBuckets(m) \/ ClearKeys(m) \/ MutationFails(m)
  /\ UNCHANGED svars

\* Garage answers, or acts late.  What it does once the process is gone changes
\* nothing that is said here.
GarageActs(m) == phase # "exited" /\ MutationApplied(m) /\ UNCHANGED svars

\* The request line, for a mutation the audit line, and the span, which is lost
\* when it ends during the final flush or after it.
Recorded(r) ==
  LET logged == IF r \in Mutations THEN {"request", "audit"} ELSE {"request"} IN
  IF phase = "flushing" THEN {logged, logged \cup {"span"}} ELSE {logged \cup {"span"}}

\* The handler returns: its request was refused before it did anything (401,
\* 403, 400), or its answer is written.
Returns(r) ==
  /\ handler[r] = "running"
  /\ r \in Lists => pc[r] \in {"idle", "answered", "dropped", "error"}
  /\ r \in Mutations => mpc[r] \in {"idle", "done", "failed"}
  /\ handler' = [handler EXCEPT ![r] = "returned"]
  /\ \E rec \in Recorded(r) : lines' = [lines EXCEPT ![r] = rec]
  /\ UNCHANGED <<vars, pvars>>

PanicUnlogged(m) ==
  /\ handler[m] = "running"
  /\ handler' = [handler EXCEPT ![m] = "returned"]
  /\ UNCHANGED <<vars, pvars, lines>>

\* The lines are written from a defer outside Recoverer: a panic leaves them too.
Panics(m) ==
  /\ handler[m] = "running"
  /\ handler' = [handler EXCEPT ![m] = "returned"]
  /\ \E rec \in Recorded(m) : lines' = [lines EXCEPT ![m] = rec]
  /\ UNCHANGED <<vars, pvars>>

-----------------------------------------------------------------------------
(* The process *)

Enter(p, after) == phase' = p /\ deadline' = clock + after

Ended(how) ==
  /\ phase' = "exited" /\ exit' = how /\ deadline' = clock
  /\ handler' = [r \in Requests |-> IF r \in Open THEN "killed" ELSE handler[r]]
  /\ UNCHANGED <<vars, clock, killAt, lines, warned>>

\* SIGTERM or SIGINT; after the first one a second terminates at once.
Signal ==
  /\ phase # "exited" /\ signals < 2 /\ signals' = signals + 1
  /\ IF signals = 1 THEN Ended("terminated")
     ELSE /\ killAt' = clock + Grace
          /\ IF phase = "serving" THEN Enter("draining", DrainTimeout) ELSE UNCHANGED <<phase, deadline>>
          /\ UNCHANGED <<vars, exit, clock, handler, lines, warned>>

ListenerFails ==
  /\ phase = "serving" /\ Enter("draining", DrainTimeout)
  /\ UNCHANGED <<vars, exit, clock, signals, killAt, handler, lines, warned>>

Drained ==
  /\ phase = "draining" /\ Open = {}
  /\ Enter("flushing", FlushTimeout)
  /\ UNCHANGED <<vars, exit, clock, signals, killAt, handler, lines, warned>>

\* Close: connections without a request are cut, handlers run on.
DrainTimesOut ==
  /\ phase = "draining" /\ Open # {} /\ clock = deadline
  /\ Enter("waiting", CloseWait)
  /\ handler' = [r \in Requests |-> IF handler[r] = "connected" THEN "cut" ELSE handler[r]]
  /\ UNCHANGED <<vars, exit, clock, signals, killAt, lines, warned>>

NoWait ==
  /\ phase = "waiting"
  /\ Enter("flushing", FlushTimeout)
  /\ UNCHANGED <<vars, exit, clock, signals, killAt, handler, lines, warned>>

WaitEnds ==
  /\ phase = "waiting" /\ (Busy = {} \/ clock = deadline)
  /\ Enter("flushing", FlushTimeout)
  /\ warned' = Busy
  /\ UNCHANGED <<vars, exit, clock, signals, killAt, handler, lines>>

\* shutdownTelemetry returns and main with it, whatever still runs.
FlushEnds ==
  /\ phase = "flushing" /\ Ended("exited") /\ UNCHANGED signals

\* Time passes only up to the end of the phase.
ClockTicks ==
  /\ phase \in {"draining", "waiting", "flushing"} /\ clock < deadline
  /\ clock' = clock + 1
  /\ UNCHANGED <<vars, phase, exit, deadline, signals, killAt, handler, lines, warned>>

-----------------------------------------------------------------------------
Process ==
  \/ Signal \/ ListenerFails \/ Drained \/ DrainTimesOut \/ WaitEnds \/ FlushEnds
  \/ ClockTicks

Request(r) == Connect(r) \/ Start(r) \/ CloseIdle(r) \/ Handle(r) \/ Returns(r)

ServerNext ==
  \/ Process
  \/ \E r \in Requests : Request(r)
  \/ \E m \in Mutations : GarageActs(m) \/ Panics(m)

\* A handler that can move does, and a call to Garage ends at the latest with
\* its timeout; the process's own steps and its timers are not put off.
Moves(r) ==
  /\ handler[r] = "running"
  /\ \/ r \in Lists /\ Progress(r)
     \/ \E m \in Mutations \cap {r} : ClearBuckets(m) \/ ClearKeys(m) \/ MutationFails(m)
  /\ UNCHANGED svars

Stops == Drained \/ DrainTimesOut \/ WaitEnds \/ FlushEnds \/ ClockTicks

ServerSpec ==
  /\ ServerInit /\ [][ServerNext]_all
  /\ WF_all(Stops)
  /\ \A r \in Requests : WF_all(Moves(r)) /\ WF_all(Returns(r))

-----------------------------------------------------------------------------
(* Properties *)

Length(writes) ==
  LET sum[i \in 0..Len(writes)] == IF i = 0 THEN 0 ELSE sum[i - 1] + writes[i]
  IN  sum[Len(writes)]

\* A copy that counts as complete is the whole response, however it was written;
\* so a failed node goes unmarked only in a response longer than the copy.
CopyIsHonest ==
  \A n \in 1..MaxWrites : \A writes \in [1..n -> 0..(MaxCopy + 1)] :
    LET length == Length(writes) IN
    /\ Copy(writes).overflow <=> length > MaxCopy
    /\ Copy(writes).len = (IF length > MaxCopy THEN MaxCopy ELSE length)
    /\ Marked(writes, {"node"}) <=> length \in 1..MaxCopy

\* The process ends by itself before its grace period is over (SIGKILL).  Unless a
\* second signal ended it, everything it was asked to change in Garage is in the audit log,
\* panics included, and every span of a handler that returned was flushed: except
\* for handlers that were still running when the wait for them ended, of which it
\* warned.
NothingUnrecorded ==
  /\ CopyIsHonest
  /\ signals > 0 /\ phase # "exited" => clock < killAt
  /\ phase = "exited" /\ exit = "exited" =>
       /\ \A m \in Mutations : mpc[m] # "idle" => "audit" \in lines[m] \/ m \in warned
       /\ \A r \in Requests : handler[r] = "returned" => "span" \in lines[r] \/ r \in warned

\* The inductive invariant behind NothingUnrecorded: how late each phase can end,
\* who may still run in it, and what is recorded of whom.
States == {"none", "connected", "running", "returned", "cut", "killed"}

Phases == {"serving", "draining", "waiting", "flushing", "exited"}

Budget(p) ==
  CASE p = "serving"  -> 0
    [] p = "draining" -> DrainTimeout
    [] p = "waiting"  -> DrainTimeout + CloseWait
    [] OTHER          -> DrainTimeout + CloseWait + FlushTimeout

ServerTypes ==
  /\ phase \in Phases /\ exit \in {"none", "exited", "terminated"}
  /\ clock \in Nat /\ deadline \in Nat /\ signals \in Nat /\ killAt \in Nat
  /\ handler \in [Requests -> States] /\ warned \subseteq Requests
  /\ lines \in [Requests -> SUBSET {"request", "audit", "span"}]
  /\ mpc \in [Mutations -> {"idle", "sent", "accepted", "clearing", "done", "failed"}]

InTime ==
  /\ clock <= deadline /\ deadline <= Budget(phase)
  /\ signals > 0 => killAt >= Grace

RunsInPhase(r) ==
  /\ handler[r] = "connected" => phase \in {"serving", "draining"}
  /\ handler[r] = "running" => phase # "exited" /\ (phase = "flushing" => r \in warned)
  /\ handler[r] = "killed" => phase = "exited"
  /\ r \in warned => phase \in {"flushing", "exited"}

RecordedInFull(r) ==
  /\ handler[r] = "returned" =>
       /\ r \in Mutations => "audit" \in lines[r]
       /\ "span" \in lines[r] \/ r \in warned
  /\ r \in Mutations /\ mpc[r] # "idle" =>
       handler[r] \in {"running", "returned"} \/ (handler[r] = "killed" /\ (exit = "exited" => r \in warned))

ServerInv ==
  /\ ServerTypes /\ InTime
  /\ \A r \in Requests : RunsInPhase(r) /\ RecordedInFull(r)

\* A request that was begun ends, whatever Garage and the pool's fetches do, at
\* the latest with the process; and a process that began to stop exits.
EveryRequestEnds ==
  /\ \A r \in Requests : handler[r] = "running" ~> handler[r] # "running"
  /\ phase # "serving" ~> phase = "exited"
=============================================================================
