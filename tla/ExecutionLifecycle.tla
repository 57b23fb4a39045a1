------------------------- MODULE ExecutionLifecycle -------------------------
(***************************************************************************)
(* The life of one TerminalExecution inside the Runtime: creation and its  *)
(* rollback, PTY reads and writes, the one-shot process-exit event, the    *)
(* PTY-EOF reap probe, termination with its deadlines, the final drain and *)
(* the removal of the registry entry (seyal-runtime/src/runtime, with the  *)
(* child and the reactor watches of seyal-exec).                           *)
(*                                                                         *)
(* Everything the Runtime and the kernel know of an execution is one       *)
(* record, and a handler of the reactor thread is an operator from that    *)
(* record to the set of records it may leave behind.  Handlers run one at  *)
(* a time; child, descendants and kernel move between any two of them.     *)
(* Instants are abstracted: an armed deadline may fall due at any later    *)
(* step.                                                                   *)
(***************************************************************************)
EXTENDS Naturals, FiniteSets

CONSTANTS
    Execs,               \* execution identities (a finished one is recycled)
    MaxExecutions,       \* RuntimeConfig::max_executions
    PrimaryExitLimit,    \* PRIMARY_EXIT_REAP_LIMIT
    FailedLimit,         \* TERMINATION_FAILED_REAP_LIMIT
    ProbeLimit,          \* PTY_EOF_REAP_PROBE_LIMIT
    ReadQuantum,         \* chunks one service_reads call may consume
    MaxUnread,           \* bound on unread PTY chunks
    MaxInput,            \* bound on queued input chunks
    GoneAtRegistration,  \* may register_process_exit answer ESRCH?
    Faults               \* which system calls may fail: "signal", "io"

ASSUME ConstantsAssumption ==
    /\ MaxExecutions \in Nat
    /\ PrimaryExitLimit \in Nat \ {0}
    /\ FailedLimit \in Nat \ {0}
    /\ ProbeLimit \in Nat \ {0}
    /\ ReadQuantum \in Nat \ {0}
    /\ MaxUnread \in Nat
    /\ MaxInput \in Nat
    /\ GoneAtRegistration \in BOOLEAN
    /\ Faults \subseteq {"signal", "io"}

VARIABLES
    exec,          \* [Execs -> Record]
    shuttingDown,  \* Runtime::shutting_down
    up             \* FALSE once poll_once has returned an error to main

vars == <<exec, shuttingDown, up>>

-----------------------------------------------------------------------------
(* The record of one execution.                                            *)

\* alive; exited but waitpid(WNOHANG) still says no; reapable; status cached.
ChildStates == {"none", "alive", "exited", "reapable", "reaped"}

Lifecycles == {"Running", "TerminatingGraceful", "TerminatingForced",
               "PrimaryExitPending", "DrainingAfterPrimaryExit",
               "TerminationFailed"}

\* Who holds the PTY slave open: the primary child and its descendants.
Holders == {"child", "desc"}

Record ==
    [ phase     : {"free", "live", "rollback", "final", "discarded"},
      child     : ChildStates,
      watch     : {"off", "armed", "pending"},   \* EVFILT_PROC / NOTE_EXIT
      hold      : SUBSET Holders,
      unread    : 0..MaxUnread,                  \* PTY chunks not yet read
      sig       : {"none", "term", "kill"},      \* strongest signal sent
      lifecycle : Lifecycles,
      remaining : Nat,                           \* bounded reap attempts left
      probe     : Nat,                           \* pty_eof_reap_probe, 0 = None
      ingress   : BOOLEAN,                       \* ingress_active
      pending   : 0..MaxInput,                   \* pending_input
      replies   : BOOLEAN,                       \* pending protocol replies
      readable  : BOOLEAN,                       \* read filter armed
      writable  : BOOLEAN,                       \* write filter armed
      drains    : Nat ]                          \* drain deadlines armed so far

\* Slot::vacant and an identity that is not in use.
Vacant ==
    [ phase |-> "free", child |-> "none", watch |-> "off", hold |-> {},
      unread |-> 0, sig |-> "none", lifecycle |-> "Running", remaining |-> 0,
      probe |-> 0, ingress |-> FALSE, pending |-> 0, replies |-> FALSE,
      readable |-> FALSE, writable |-> FALSE, drains |-> 0 ]

Live(e) == exec[e].phase = "live"
LiveSet == {e \in Execs : Live(e)}

\* Entry::terminal_io_active
TerminalIoActive(r) == r.lifecycle = "Running" /\ r.ingress

-----------------------------------------------------------------------------
(* The child and the reactor watches (seyal-exec).                         *)

\* OwnedChild::try_wait returns Some: the status is cached or collectable now.
Waitable(r) == r.child \in {"reapable", "reaped"}

Reap(r) == [r EXCEPT !.child = "reaped"]

\* OwnedChild::signal once its own try_wait has said None.  Delivered and
\* ProcessGone are one outcome: every caller treats them alike.
Signal(r, s) == [r EXCEPT !.sig = IF r.sig = "kill" THEN "kill" ELSE s]

\* The child may become reapable between a handler's try_wait and the second
\* one inside OwnedChild::signal.
AtSecondWait(r) ==
    IF r.child = "exited" THEN {r, [r EXCEPT !.child = "reapable"]} ELSE {r}

-----------------------------------------------------------------------------
(* Handlers of the reactor thread.                                         *)

\* What closing an ingress drops: queued input, replies, the write filter.
StopWrites(r) ==
    [r EXCEPT !.ingress = FALSE, !.pending = 0, !.replies = FALSE,
              !.writable = FALSE]

\* The deadline of the final drain starts.
ArmDrain(r) ==
    [r EXCEPT !.lifecycle = "DrainingAfterPrimaryExit", !.remaining = 0,
              !.drains = @ + 1]

EnterDrain(r) == [ArmDrain(StopWrites(Reap(r))) EXCEPT !.probe = 0]

MarkTerminalIoClosed(r) == [StopWrites(r) EXCEPT !.readable = FALSE]

\* The entry leaves the registry: token, descriptors and watches go with it.
Finalize(r) ==
    [StopWrites(r) EXCEPT !.phase = "final", !.watch = "off", !.hold = {},
                          !.unread = 0, !.readable = FALSE]

\* The reap attempt EOF makes while the child's exit is still unobserved.
ProbeAtEof(r) ==
    IF r.lifecycle \in {"Running", "PrimaryExitPending"}
    THEN IF Waitable(r) THEN EnterDrain(r)
         ELSE IF r.lifecycle = "Running" /\ r.probe = 0
              THEN [r EXCEPT !.probe = ProbeLimit]
              ELSE r
    ELSE r

\* Variant: EOF alone releases the execution.
FinishDrainAtAnyEof(r) == Finalize(r)

FinishDrain(r) ==
    IF r.lifecycle = "DrainingAfterPrimaryExit" THEN Finalize(r) ELSE r

AtEof(r) == FinishDrain(ProbeAtEof(MarkTerminalIoClosed(r)))

\* n chunks read and parsed; q: some of them asked the terminal for a reply.
AfterBytes(r, n, q) ==
    LET replies == r.replies \/ q IN
    [r EXCEPT !.unread = @ - n, !.replies = replies,
              !.writable = @ \/ replies \/ (n > 0 /\ r.pending > 0)]

\* service_reads: up to a quantum of bytes, then EOF if nobody holds the slave
\* and the quantum was not used up.
ServiceReads(r) ==
    LET n == IF r.unread < ReadQuantum THEN r.unread ELSE ReadQuantum IN
    { LET read == AfterBytes(r, n, q)
      IN IF n < ReadQuantum /\ r.hold = {} THEN AtEof(read) ELSE read :
        q \in IF n > 0 THEN BOOLEAN ELSE {FALSE} }

\* service_writes: replies go before input, and the write filter stays armed
\* exactly while something is left.
ServiceWrites(r) ==
    IF ~TerminalIoActive(r)
    THEN {[r EXCEPT !.pending = 0, !.replies = FALSE, !.writable = FALSE]}
    ELSE {[r EXCEPT !.pending = left, !.replies = FALSE,
                    !.writable = left > 0] : left \in 0..r.pending}
         \union IF r.replies THEN {[r EXCEPT !.writable = TRUE]} ELSE {}

DrainAndRead(r) == ServiceReads(EnterDrain(r))

\* Variant: the one-shot event is dropped when the child is not yet reapable.
ObservePrimaryExitOnce(r) ==
    LET seen == [r EXCEPT !.watch = "off", !.probe = 0] IN
    IF Waitable(r) THEN DrainAndRead(seen) ELSE {seen}

\* Variant: the exit event is level-triggered.
ObservePrimaryExitAgain(r) ==
    IF Waitable(r) THEN DrainAndRead(r)
    ELSE {IF r.lifecycle = "Running"
          THEN [r EXCEPT !.lifecycle = "PrimaryExitPending", !.probe = 0,
                         !.remaining = PrimaryExitLimit]
          ELSE [r EXCEPT !.probe = 0]}

\* observe_primary_exit: NOTE_EXIT is delivered once and is spent here.
ObservePrimaryExit(r) ==
    LET seen == [r EXCEPT !.watch = "off", !.probe = 0] IN
    IF Waitable(r) THEN DrainAndRead(seen)
    ELSE {IF r.lifecycle = "Running"
          THEN [seen EXCEPT !.lifecycle = "PrimaryExitPending",
                            !.remaining = PrimaryExitLimit]
          ELSE seen}

\* The probe part of process_deadlines.
ProbeDeadline(r) ==
    IF r.lifecycle # "Running" THEN {[r EXCEPT !.probe = 0]}
    ELSE IF Waitable(r) THEN DrainAndRead(r)
    ELSE {[r EXCEPT !.probe = @ - 1]}

EnterTerminationFailed(r) ==
    [r EXCEPT !.lifecycle = "TerminationFailed", !.remaining = FailedLimit]

\* Variant: SIGTERM again where SIGKILL is due.
KillAsksAgain(r) ==
    {IF Waitable(s) THEN ArmDrain(Reap(s)) ELSE Signal(s, "term") :
       s \in AtSecondWait(r)}

\* signal_kill on a deadline: the child is killed, or was reaped on the way.
Kill(r) ==
    {IF Waitable(s) THEN ArmDrain(Reap(s)) ELSE Signal(s, "kill") :
       s \in AtSecondWait(r)}

GracefulDeadline(r) ==
    {IF Waitable(s) THEN s ELSE [s EXCEPT !.lifecycle = "TerminatingForced"] :
       s \in Kill(r)}

\* Variant: the subtraction does not saturate.
FailedDeadlineWraps(r) ==
    {IF Waitable(s) THEN s ELSE [s EXCEPT !.remaining = @ - 1] : s \in Kill(r)}

\* advance_termination_failed: at zero the retries go on at the longest delay.
FailedDeadline(r) ==
    {IF Waitable(s) THEN s
     ELSE [s EXCEPT !.remaining = IF @ = 0 THEN 0 ELSE @ - 1] : s \in Kill(r)}

PendingDeadline(r) ==
    IF r.remaining <= 1 THEN EnterTerminationFailed(r)
    ELSE [r EXCEPT !.remaining = @ - 1]

\* The lifecycle part of process_deadlines.
LifecycleDeadline(r) ==
    CASE r.lifecycle = "DrainingAfterPrimaryExit" ->
           {IF s.phase = "live" THEN Finalize(s) ELSE s : s \in ServiceReads(r)}
      [] r.lifecycle # "DrainingAfterPrimaryExit" /\ Waitable(r) -> DrainAndRead(r)
      [] r.lifecycle = "TerminatingGraceful" /\ ~Waitable(r) -> GracefulDeadline(r)
      [] r.lifecycle = "TerminatingForced" /\ ~Waitable(r) ->
           {EnterTerminationFailed(r)}
      [] r.lifecycle = "PrimaryExitPending" /\ ~Waitable(r) -> {PendingDeadline(r)}
      [] r.lifecycle = "TerminationFailed" /\ ~Waitable(r) -> FailedDeadline(r)
      [] OTHER -> {r}

\* request_termination up to its signal_terminate call.
StopForTermination(r) == [StopWrites(r) EXCEPT !.probe = 0]

\* Variant: any state that is not being signalled may be terminated.
TerminableUnlessSignalled(r) ==
    r.lifecycle \notin {"TerminatingGraceful", "TerminatingForced"}

Terminable(r) == r.lifecycle \in {"Running", "TerminationFailed"}

\* Variant: the signal is sent without asking waitpid first.
RequestTerminationBlind(r) ==
    IF ~Terminable(r) THEN r
    ELSE [Signal(StopForTermination(r), "term") EXCEPT
            !.lifecycle = "TerminatingGraceful", !.remaining = 0]

RequestTermination(r) ==
    LET s == StopForTermination(r) IN
    IF ~Terminable(r) THEN r
    ELSE IF Waitable(r) THEN ArmDrain(Reap(s))
    ELSE [Signal(s, "term") EXCEPT !.lifecycle = "TerminatingGraceful",
                                   !.remaining = 0]

\* A system call of the handler fails and poll_once returns the error.
SignalFails(r) == "signal" \in Faults /\ ~Waitable(r)

-----------------------------------------------------------------------------
(* Creation.                                                               *)

Spawned(c, h) == [Vacant EXCEPT !.child = c, !.hold = h]

\* Who holds the slave right after fork: an exited shell may leave a job.
SpawnHolds(c) == IF c = "alive" THEN {{"child"}, Holders} ELSE {{}, {"desc"}}

\* register_identifiers: the exit watch is set before or after the exit; with
\* ESRCH for a child that is gone, registration goes on without one.
WatchAtRegistration(c) ==
    IF c = "alive" THEN {"armed"}
    ELSE {"pending"} \union IF GoneAtRegistration THEN {"off"} ELSE {}

\* The entry is published with its child not yet collectable.
PublishedAs(c, h, w) ==
    [Spawned(c, h) EXCEPT !.phase = "live", !.watch = w, !.ingress = TRUE,
                          !.readable = TRUE]

Published ==
    UNION {UNION {{PublishedAs(c, h, w) : w \in WatchAtRegistration(c)} :
                    h \in SpawnHolds(c)} : c \in {"alive", "exited"}}

\* try_wait before publication finds the status: nothing is kept.
ExitedBeforePublication ==
    {[Vacant EXCEPT !.phase = "discarded", !.child = "reaped"]}

\* Variant: a failed creation is kept for reaping but not killed.
KillUnpublishedWaits ==
    {[Spawned(c, {}) EXCEPT !.phase = "rollback"] : c \in {"alive", "exited"}}

\* kill_unpublished: killed if the signal works, kept in rollback_reap.
Unpublished(c, x) == [Spawned(c, {}) EXCEPT !.phase = "rollback", !.sig = x]

KillUnpublished ==
    UNION {{Unpublished(c, x) :
              x \in IF "signal" \in Faults THEN {"kill", "none"} ELSE {"kill"}} :
           c \in {"alive", "exited"}}

Create(e) ==
    /\ up
    /\ exec[e].phase \in {"free", "final", "discarded"}
    /\ ~shuttingDown
    /\ Cardinality(LiveSet) < MaxExecutions
    /\ \E r \in Published \union ExitedBeforePublication \union KillUnpublished :
         exec' = [exec EXCEPT ![e] = r]
    /\ UNCHANGED <<shuttingDown, up>>

ReapFailedCreation(e) ==
    /\ up
    /\ exec[e].phase = "rollback"
    /\ Waitable(exec[e])
    /\ exec' = [exec EXCEPT ![e] = [Reap(@) EXCEPT !.phase = "discarded"]]
    /\ UNCHANGED <<shuttingDown, up>>

-----------------------------------------------------------------------------
(* Reactor events, deadlines and requests.                                 *)

Handle(e, outcomes) ==
    /\ \E r \in outcomes : exec' = [exec EXCEPT ![e] = r]
    /\ UNCHANGED <<shuttingDown, up>>

\* poll_once returns an error to main, which ends the daemon.
Fail == up' = FALSE /\ UNCHANGED <<exec, shuttingDown>>

PtyReadable(e) ==
    /\ up /\ Live(e) /\ exec[e].readable
    /\ exec[e].unread > 0 \/ exec[e].hold = {}
    /\ \/ Handle(e, ServiceReads(exec[e]))
       \/ "io" \in Faults /\ exec[e].unread > 0 /\ Fail

PtyWritable(e) ==
    /\ up /\ Live(e) /\ exec[e].writable
    /\ \/ Handle(e, ServiceWrites(exec[e]))
       \/ "io" \in Faults /\ TerminalIoActive(exec[e]) /\ Fail

\* drain_control takes one accepted input: queued and written at once, or
\* dropped when terminal I/O is over.
DrainControl(e) ==
    /\ up /\ Live(e)
    /\ TerminalIoActive(exec[e])
    /\ exec[e].pending < MaxInput
    /\ \/ Handle(e, ServiceWrites([exec[e] EXCEPT !.pending = @ + 1]))
       \/ "io" \in Faults /\ Fail

PrimaryExited(e) ==
    /\ up /\ Live(e) /\ exec[e].watch = "pending"
    /\ Handle(e, ObservePrimaryExit(exec[e]))

ProbeDue(e) ==
    /\ up /\ Live(e) /\ exec[e].probe > 0
    /\ Handle(e, ProbeDeadline(exec[e]))

LifecycleDue(e) ==
    /\ up /\ Live(e) /\ exec[e].lifecycle # "Running"
    /\ \/ Handle(e, LifecycleDeadline(exec[e]))
       \/ /\ exec[e].lifecycle \in {"TerminatingGraceful", "TerminationFailed"}
          /\ SignalFails(exec[e]) /\ Fail

\* request_termination from a client or an owner; its error goes to the caller.
Terminate(e) ==
    /\ up /\ Live(e)
    /\ Handle(e, {RequestTermination(exec[e])}
                 \union IF Terminable(exec[e]) /\ SignalFails(exec[e])
                        THEN {StopForTermination(exec[e])} ELSE {})

\* begin_shutdown: every entry in some order, up to the first one that fails.
\* The error goes to the caller, and a second call finds shutting_down set.
BeginShutdown ==
    /\ up /\ ~shuttingDown
    /\ shuttingDown' = TRUE
    /\ \E failed \in SUBSET {e \in LiveSet : Terminable(exec[e]) /\ SignalFails(exec[e])} :
       \E done \in SUBSET LiveSet :
         /\ Cardinality(failed) <= 1
         /\ failed = {} => done = LiveSet
         /\ failed \cap done = {}
         /\ exec' = [e \in Execs |->
                       IF e \in done THEN RequestTermination(exec[e])
                       ELSE IF e \in failed THEN StopForTermination(exec[e])
                       ELSE exec[e]]
    /\ UNCHANGED up

\* run_until_empty runs out of time and main returns ShutdownIncomplete.
ShutdownExpires ==
    /\ up /\ shuttingDown
    /\ \E e \in Execs : exec[e].phase \in {"live", "rollback"}
    /\ Fail

-----------------------------------------------------------------------------
(* The child, its descendants and the kernel (external).                   *)

Present(e) == up /\ exec[e].phase \in {"live", "rollback"}

Become(e, r) ==
    /\ exec' = [exec EXCEPT ![e] = r]
    /\ UNCHANGED <<shuttingDown, up>>

Output(e) ==
    /\ up /\ Live(e) /\ exec[e].hold # {} /\ exec[e].unread < MaxUnread
    /\ Become(e, [exec[e] EXCEPT !.unread = @ + 1])

\* A shell starts a background job.
Fork(e) ==
    /\ up /\ Live(e) /\ "child" \in exec[e].hold
    /\ Become(e, [exec[e] EXCEPT !.hold = Holders])

\* A holder closes its terminal descriptors; the child may stay alive.
CloseSlave(e) ==
    /\ up /\ Live(e)
    /\ \E h \in exec[e].hold : Become(e, [exec[e] EXCEPT !.hold = @ \ {h}])

ChildExits(e) ==
    /\ Present(e) /\ exec[e].child = "alive"
    /\ Become(e, [exec[e] EXCEPT !.child = "exited", !.hold = @ \ {"child"},
                                 !.watch = IF @ = "armed" THEN "pending" ELSE @])

\* SIGKILL cannot be ignored.
KilledChildExits(e) == exec[e].sig = "kill" /\ ChildExits(e)

BecomesReapable(e) ==
    /\ Present(e) /\ exec[e].child = "exited"
    /\ Become(e, [exec[e] EXCEPT !.child = "reapable"])

-----------------------------------------------------------------------------
Init ==
    /\ exec = [e \in Execs |-> Vacant]
    /\ shuttingDown = FALSE
    /\ up = TRUE

RuntimeStep(e) ==
    \/ PtyReadable(e) \/ PtyWritable(e) \/ PrimaryExited(e)
    \/ ProbeDue(e) \/ LifecycleDue(e) \/ ReapFailedCreation(e)

RequestStep(e) == Create(e) \/ DrainControl(e) \/ Terminate(e)

KernelStep(e) ==
    \/ Output(e) \/ Fork(e) \/ CloseSlave(e) \/ ChildExits(e)
    \/ BecomesReapable(e)

Next ==
    \/ \E e \in Execs : RuntimeStep(e) \/ RequestStep(e) \/ KernelStep(e)
    \/ BeginShutdown
    \/ ShutdownExpires

Spec == Init /\ [][Next]_vars

\* kqueue is level-triggered for the PTY and every deadline bounds the next
\* wait, so the poll loop serves whatever stays due.  A killed child exits and
\* an exited child becomes reapable; nothing is assumed of a child that was
\* only asked to terminate, nor of its descendants.
Fairness ==
    \A e \in Execs :
        /\ WF_vars(PtyReadable(e)) /\ WF_vars(PtyWritable(e))
        /\ WF_vars(PrimaryExited(e)) /\ WF_vars(ProbeDue(e))
        /\ WF_vars(LifecycleDue(e)) /\ WF_vars(ReapFailedCreation(e))
        /\ WF_vars(KilledChildExits(e)) /\ WF_vars(BecomesReapable(e))

FairSpec == Spec /\ Fairness

-----------------------------------------------------------------------------
(* Safety.                                                                 *)

TypeOK ==
    /\ exec \in [Execs -> Record]
    /\ shuttingDown \in BOOLEAN
    /\ up \in BOOLEAN

\* An entry leaves the registry, and a failed creation leaves rollback_reap,
\* only once the child's status has been collected: no zombie and no running
\* child is left without an owner, whichever of EOF, exit event, probe,
\* deadline or termination request came first.
ReapedBeforeRelease ==
    \A e \in Execs :
        exec[e].phase \in {"final", "discarded"} => exec[e].child = "reaped"

\* The collected status is never dropped: from the handler in which try_wait
\* answers Some on, the execution is draining under a deadline (the paths are
\* observe_primary_exit, service_reads, process_deadlines and the
\* AlreadyReaped answers to a signal).
ReapedIsDraining ==
    \A e \in Execs :
        Live(e) => (exec[e].child = "reaped" <=>
                    exec[e].lifecycle = "DrainingAfterPrimaryExit")

\* NOTE_EXIT is delivered once.  Until the exit has been observed the event is
\* still to come, or a lifecycle state with a deadline retries the reap: an
\* exited child is never left in Running with nothing that wakes the Runtime.
NoLostExit ==
    \A e \in Execs :
        Live(e) /\ exec[e].child \in {"exited", "reapable"} =>
            exec[e].watch = "pending" \/ exec[e].lifecycle # "Running"

\* Bytes accepted for the PTY are never stranded: while input or terminal
\* replies are queued the write filter is armed, also when output parsed
\* during the drain asks for another reply after the ingress was closed.
QueuedBytesAreArmed ==
    \A e \in Execs :
        Live(e) /\ (exec[e].pending > 0 \/ exec[e].replies) => exec[e].writable

\* The EOF probe belongs to Running and the retry counters to the two states
\* that count: a lifecycle change always takes the counter of the old state
\* with it.
CountersBelong ==
    \A e \in Execs :
        LET r == exec[e] IN
        /\ r.probe > 0 => r.lifecycle = "Running" /\ ~r.readable /\ ~r.ingress
        /\ r.lifecycle = "PrimaryExitPending" => r.remaining \in 1..PrimaryExitLimit
        /\ r.lifecycle \notin {"PrimaryExitPending", "TerminationFailed"} =>
              r.remaining = 0

\* The drain deadline is set when the drain starts and can move only once
\* more, by the exit event that follows a reap made by another path: output of
\* a descendant cannot extend the life of an execution.
DrainRearmedAtMostOnce == \A e \in Execs : exec[e].drains <= 2

-----------------------------------------------------------------------------
(* What a step may never do.                                               *)

\* Stages of an execution's life; only TerminationFailed may start over.
Successors(l) ==
    CASE l = "Running" -> Lifecycles \ {"TerminatingForced", "TerminationFailed"}
      [] l = "PrimaryExitPending" ->
           {"PrimaryExitPending", "TerminationFailed", "DrainingAfterPrimaryExit"}
      [] l = "TerminatingGraceful" ->
           {"TerminatingGraceful", "TerminatingForced", "DrainingAfterPrimaryExit"}
      [] l = "TerminatingForced" ->
           {"TerminatingForced", "TerminationFailed", "DrainingAfterPrimaryExit"}
      [] l = "TerminationFailed" ->
           {"TerminationFailed", "TerminatingGraceful", "DrainingAfterPrimaryExit"}
      [] l = "DrainingAfterPrimaryExit" -> {"DrainingAfterPrimaryExit"}

\* No handler, late event or repeated request moves a lifecycle backwards:
\* Running is never re-entered, a drain is never left, and SIGKILL is reached
\* only through the graceful stage.
LifecycleOrder ==
    [][\A e \in Execs :
         Live(e) => exec'[e].lifecycle \in Successors(exec[e].lifecycle)]_vars

\* A signal goes only to a child that has not been reaped, so never to a
\* recycled process id, and SIGKILL follows a delivered SIGTERM or an observed
\* exit.
OwnedSignalsOnly ==
    [][\A e \in Execs :
         Live(e) /\ exec'[e].sig # exec[e].sig =>
            /\ exec[e].child \in {"alive", "exited"}
            /\ exec'[e].sig = "kill" =>
                  exec[e].sig = "term" \/ exec[e].child = "exited"]_vars

-----------------------------------------------------------------------------
(* Liveness.                                                               *)

\* A termination request that was accepted ends the execution, whatever the
\* child and its descendants do with SIGTERM and with the PTY.
TerminationCompletes ==
    \A e \in Execs :
        Live(e) /\ exec[e].lifecycle # "Running" ~> exec[e].phase = "final" \/ ~up

\* The exit of the primary child ends the execution even while descendants
\* keep the PTY open and write to it.
ExitIsFinalized ==
    \A e \in Execs :
        Live(e) /\ exec[e].child # "alive" ~> exec[e].phase = "final" \/ ~up

\* A shutdown empties the registry and the rollback list, or main reports that
\* it could not.
ShutdownCompletes ==
    shuttingDown ~>
        ~up \/ \A e \in Execs : exec[e].phase \notin {"live", "rollback"}

=============================================================================
