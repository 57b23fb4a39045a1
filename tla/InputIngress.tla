---------------------------- MODULE InputIngress ----------------------------
(***************************************************************************)
(* The path of accepted input from the clones of InputIngress, which any   *)
(* thread may hold, to the PTY: admission under two shared byte counters,  *)
(* the bounded control queue, the reactor wake-up, and the Runtime thread  *)
(* that drains the queue and writes (seyal-runtime/src/input.rs with       *)
(* runtime/reactor_io.rs).                                                 *)
(*                                                                         *)
(* Every atomic operation of a submitter is a step of its own; the Runtime *)
(* thread's private bookkeeping is not interleaved with anything, but its  *)
(* two fetch_subs per release are.  Bytes are counted, never looked at.    *)
(***************************************************************************)
EXTENDS Integers, Sequences, SequencesExt, FiniteSets, FiniteSetsExt

CONSTANTS
    Threads,       \* threads holding an InputIngress, the Runtime's included
    RuntimeThread, \* the one that also drains: it submits between two polls
    Execs,         \* executions with an ingress
    MaxBytes,      \* largest single submission
    SubmitKinds,   \* kinds of input submitted in this instance
    GlobalLimit,   \* RuntimeConfig::aggregate_input_bytes
    ExecLimit,     \* RuntimeConfig::per_execution_input_bytes
    QueueCapacity, \* RuntimeConfig::control_queue_capacity
    DrainQuantum,  \* CONTROL_DISPATCH_QUANTUM
    WriteQuantum,  \* RuntimeConfig::write_dispatch_bytes
    WakeMayFail    \* may the reactor wake-up return an error?

Kinds == {"Direct", "Composer", "Bootstrap"}

ASSUME ConstantsAssumption ==
    /\ RuntimeThread \in Threads
    /\ Execs # {}
    /\ MaxBytes \in Nat \ {0}
    /\ SubmitKinds \subseteq Kinds
    /\ GlobalLimit \in Nat
    /\ ExecLimit \in Nat
    /\ QueueCapacity \in Nat \ {0}
    /\ DrainQuantum \in Nat \ {0}
    /\ WriteQuantum \in Nat \ {0}
    /\ WakeMayFail \in BOOLEAN

VARIABLES
    pc,         \* [Threads -> PCs]: where a try_submit_kind call stands
    job,        \* [Threads -> Message]: what that call submits
    seen,       \* [Threads -> Int]: the counter value its CAS loop loaded
    global,     \* aggregate_reserved
    perExec,    \* [Execs -> Int]: reserved_input
    active,     \* [Execs -> BOOLEAN]: ingress_active
    held,       \* [Execs -> BOOLEAN]: direct_input_held
    queue,      \* the control channel
    woken,      \* the EVFILT_USER event is triggered
    wakeLost,   \* a wake-up failed since the queue was last drained
    pending,    \* [Execs -> Seq(Message)]: Entry::pending_input, bytes left
    debts,      \* reservations the Runtime thread is releasing, head first
    halfPaid,   \* ... and whether the head's aggregate share is released
    rpc,        \* Runtime thread: in reactor.wait, drain_control, service_writes
    rexec,      \* the execution service_writes runs for
    resume,     \* where service_writes returns to
    handled,    \* messages this drain_control has taken
    wrote       \* bytes this service_writes has written

submitVars == <<pc, job, seen>>
flagVars == <<active, held>>
runtimeVars == <<pending, debts, halfPaid, rpc, rexec, resume, handled, wrote>>
vars == <<submitVars, global, perExec, flagVars, queue, woken, wakeLost,
          runtimeVars>>

-----------------------------------------------------------------------------
Message == [exec : Execs, bytes : 1..MaxBytes, kind : Kinds]

\* What a thread's locals hold while it is in no call.
NoJob == [exec |-> CHOOSE e \in Execs : TRUE, bytes |-> 1, kind |-> "Direct"]

PCs == {"idle", "hold", "loadGlobal", "casGlobal", "loadExec", "casExec",
        "rollback", "recheck", "send", "wake", "dropGlobal", "dropExec"}

\* Reservations a submitter holds, by where it stands in the call.
HoldsGlobal == {"loadExec", "casExec", "rollback", "recheck", "send",
                "dropGlobal"}
HoldsExec == {"recheck", "send", "dropGlobal", "dropExec"}

\* The Runtime thread is not inside any of its own operations.
RuntimeIdle ==
    /\ rpc = "wait"
    /\ debts = <<>>
    /\ pc[RuntimeThread] = "idle"

Init ==
    /\ pc = [t \in Threads |-> "idle"]
    /\ job = [t \in Threads |-> NoJob]
    /\ seen = [t \in Threads |-> 0]
    /\ global = 0
    /\ perExec = [e \in Execs |-> 0]
    /\ active = [e \in Execs |-> TRUE]
    /\ held = [e \in Execs |-> FALSE]
    /\ queue = <<>>
    /\ woken = FALSE
    /\ wakeLost = FALSE
    /\ pending = [e \in Execs |-> <<>>]
    /\ debts = <<>>
    /\ halfPaid = FALSE
    /\ rpc = "wait"
    /\ rexec = NoJob.exec
    /\ resume = "wait"
    /\ handled = 0
    /\ wrote = 0

-----------------------------------------------------------------------------
(* InputIngress::try_submit_kind, one atomic operation at a time.          *)

Goto(t, label) == pc' = [pc EXCEPT ![t] = label]

\* The call returns and its locals are gone.
Return(t) ==
    /\ pc' = [pc EXCEPT ![t] = "idle"]
    /\ job' = [job EXCEPT ![t] = NoJob]
    /\ seen' = [seen EXCEPT ![t] = 0]

\* try_submit_kind is called and its first active.load succeeds.  Composer and
\* Bootstrap bytes come from the Runtime thread alone, between two polls; the
\* composer only when nothing accepted for the execution is still unwritten.
Begin(t, m) ==
    /\ pc[t] = "idle"
    /\ m.kind \in SubmitKinds
    /\ t = RuntimeThread => RuntimeIdle
    /\ m.kind # "Direct" => t = RuntimeThread
    /\ m.kind = "Composer" =>
           pending[m.exec] = <<>> /\ perExec[m.exec] = 0
    /\ active[m.exec]
    /\ job' = [job EXCEPT ![t] = m]
    /\ Goto(t, IF m.kind = "Bootstrap" THEN "loadGlobal" ELSE "hold")
    /\ UNCHANGED <<seen, global, perExec, flagVars, queue, woken, wakeLost,
                   runtimeVars>>

\* The hold flag is read: InputHeld, or on to the reservation.
CheckHold(t) ==
    /\ pc[t] = "hold"
    /\ IF held[job[t].exec] THEN Return(t)
       ELSE Goto(t, "loadGlobal") /\ UNCHANGED <<job, seen>>
    /\ UNCHANGED <<global, perExec, flagVars, queue, woken,
                   wakeLost, runtimeVars>>

\* reserve_counter loads the counter once ...
LoadGlobal(t) ==
    /\ pc[t] = "loadGlobal"
    /\ seen' = [seen EXCEPT ![t] = global]
    /\ Goto(t, "casGlobal")
    /\ UNCHANGED <<job, global, perExec, flagVars, queue, woken, wakeLost,
                   runtimeVars>>

\* Variant: after a lost exchange the amount is added without a second look
\* at the limit.
CasGlobalBlind(t) ==
    /\ pc[t] = "casGlobal"
    /\ \/ /\ seen[t] + job[t].bytes > GlobalLimit
          /\ Return(t)
          /\ UNCHANGED global
       \/ /\ seen[t] + job[t].bytes <= GlobalLimit
          /\ global' = global + job[t].bytes
          /\ Goto(t, "loadExec")
          /\ UNCHANGED <<job, seen>>
    /\ UNCHANGED <<perExec, flagVars, queue, woken, wakeLost, runtimeVars>>

\* ... then gives up above the limit, exchanges, or retries from what the
\* failed exchange observed.
CasGlobal(t) ==
    /\ pc[t] = "casGlobal"
    /\ \/ /\ seen[t] + job[t].bytes > GlobalLimit
          /\ Return(t)
          /\ UNCHANGED global
       \/ /\ seen[t] + job[t].bytes <= GlobalLimit
          /\ global = seen[t]
          /\ global' = seen[t] + job[t].bytes
          /\ Goto(t, "loadExec")
          /\ UNCHANGED <<job, seen>>
       \/ /\ seen[t] + job[t].bytes <= GlobalLimit
          /\ global # seen[t]
          /\ seen' = [seen EXCEPT ![t] = global]
          /\ UNCHANGED <<pc, job, global>>
    /\ UNCHANGED <<perExec, flagVars, queue, woken, wakeLost, runtimeVars>>

LoadExec(t) ==
    /\ pc[t] = "loadExec"
    /\ seen' = [seen EXCEPT ![t] = perExec[job[t].exec]]
    /\ Goto(t, "casExec")
    /\ UNCHANGED <<job, global, perExec, flagVars, queue, woken, wakeLost,
                   runtimeVars>>

CasExec(t) ==
    LET e == job[t].exec IN
    /\ pc[t] = "casExec"
    /\ \/ /\ seen[t] + job[t].bytes > ExecLimit
          /\ Goto(t, "rollback")
          /\ seen' = [seen EXCEPT ![t] = 0]
          /\ UNCHANGED perExec
       \/ /\ seen[t] + job[t].bytes <= ExecLimit
          /\ perExec[e] = seen[t]
          /\ perExec' = [perExec EXCEPT ![e] = seen[t] + job[t].bytes]
          /\ Goto(t, "recheck")
          /\ seen' = [seen EXCEPT ![t] = 0]
       \/ /\ seen[t] + job[t].bytes <= ExecLimit
          /\ perExec[e] # seen[t]
          /\ seen' = [seen EXCEPT ![t] = perExec[e]]
          /\ UNCHANGED <<pc, perExec>>
    /\ UNCHANGED <<job, global, flagVars, queue, woken, wakeLost, runtimeVars>>

\* Variant: the early return forgets the aggregate counter.
RollbackForgotten(t) ==
    /\ pc[t] = "rollback"
    /\ Return(t)
    /\ UNCHANGED <<global, perExec, flagVars, queue, woken,
                   wakeLost, runtimeVars>>

\* The execution's counter refused: its aggregate share is given back.
Rollback(t) ==
    /\ pc[t] = "rollback"
    /\ global' = global - job[t].bytes
    /\ Return(t)
    /\ UNCHANGED <<perExec, flagVars, queue, woken, wakeLost,
                   runtimeVars>>

\* The ingress may have closed meanwhile: the reservation is dropped.
Recheck(t) ==
    /\ pc[t] = "recheck"
    /\ Goto(t, IF active[job[t].exec] THEN "send" ELSE "dropGlobal")
    /\ UNCHANGED <<job, seen, global, perExec, flagVars, queue, woken,
                   wakeLost, runtimeVars>>

\* try_send: a full channel hands the message, hence its reservation, back.
Send(t) ==
    /\ pc[t] = "send"
    /\ IF Len(queue) < QueueCapacity
       THEN /\ queue' = Append(queue, job[t])
            /\ Goto(t, "wake")
       ELSE /\ Goto(t, "dropGlobal")
            /\ UNCHANGED queue
    /\ UNCHANGED <<job, seen, global, perExec, flagVars, woken, wakeLost,
                   runtimeVars>>

\* The accepted message is announced; AcceptedButWakeFailed leaves it queued.
Wake(t) ==
    /\ pc[t] = "wake"
    /\ \/ woken' = TRUE /\ UNCHANGED wakeLost
       \/ WakeMayFail /\ wakeLost' = TRUE /\ UNCHANGED woken
    /\ Return(t)
    /\ UNCHANGED <<global, perExec, flagVars, queue, runtimeVars>>

\* Drop for InputReservation on the submitter's thread.
DropGlobal(t) ==
    /\ pc[t] = "dropGlobal"
    /\ global' = global - job[t].bytes
    /\ Goto(t, "dropExec")
    /\ UNCHANGED <<job, seen, perExec, flagVars, queue, woken, wakeLost,
                   runtimeVars>>

DropExec(t) ==
    /\ pc[t] = "dropExec"
    /\ perExec' = [perExec EXCEPT ![job[t].exec] = @ - job[t].bytes]
    /\ Return(t)
    /\ UNCHANGED <<global, flagVars, queue, woken, wakeLost, runtimeVars>>

-----------------------------------------------------------------------------
(* The Runtime thread.                                                     *)

\* Variant: the control event is left alone once an ingress has closed.
StartDrainWhileActive ==
    /\ RuntimeIdle
    /\ woken
    /\ \A e \in Execs : active[e]
    /\ woken' = FALSE
    /\ wakeLost' = FALSE
    /\ rpc' = "drain"
    /\ handled' = 0
    /\ UNCHANGED <<submitVars, global, perExec, flagVars, queue, pending, debts,
                   halfPaid, rexec, resume, wrote>>

\* reactor.wait returns the control event and drain_control starts.
StartDrain ==
    /\ RuntimeIdle
    /\ woken
    /\ woken' = FALSE
    /\ wakeLost' = FALSE
    /\ rpc' = "drain"
    /\ handled' = 0
    /\ UNCHANGED <<submitVars, global, perExec, flagVars, queue, pending, debts,
                   halfPaid, rexec, resume, wrote>>

\* Variant: the loop does not count towards its quantum.
ReceiveUncounted ==
    /\ rpc = "drain"
    /\ debts = <<>>
    /\ queue # <<>>
    /\ LET m == Head(queue) IN
       IF active[m.exec]
       THEN /\ pending' = [pending EXCEPT ![m.exec] = Append(@, m)]
            /\ rpc' = "write"
            /\ rexec' = m.exec
            /\ resume' = "drain"
            /\ wrote' = 0
            /\ UNCHANGED debts
       ELSE /\ debts' = <<m>>
            /\ UNCHANGED <<pending, rpc, rexec, resume, wrote>>
    /\ queue' = Tail(queue)
    /\ handled' = handled + 1
    /\ UNCHANGED <<submitVars, global, perExec, flagVars, woken, wakeLost,
                   halfPaid>>

\* One turn of its loop: the message joins an active execution's pending input
\* and is serviced at once, or is dropped with its reservation.
Receive ==
    /\ rpc = "drain"
    /\ debts = <<>>
    /\ handled < DrainQuantum
    /\ queue # <<>>
    /\ LET m == Head(queue) IN
       IF active[m.exec]
       THEN /\ pending' = [pending EXCEPT ![m.exec] = Append(@, m)]
            /\ rpc' = "write"
            /\ rexec' = m.exec
            /\ resume' = "drain"
            /\ wrote' = 0
            /\ UNCHANGED debts
       ELSE /\ debts' = <<m>>
            /\ UNCHANGED <<pending, rpc, rexec, resume, wrote>>
    /\ queue' = Tail(queue)
    /\ handled' = handled + 1
    /\ UNCHANGED <<submitVars, global, perExec, flagVars, woken, wakeLost,
                   halfPaid>>

\* Variant: the loop ends at the quantum and nobody asks for another turn.
EndDrainSilently ==
    /\ rpc = "drain"
    /\ debts = <<>>
    /\ queue = <<>> \/ handled = DrainQuantum
    /\ rpc' = "wait"
    /\ handled' = 0
    /\ UNCHANGED <<submitVars, global, perExec, flagVars, queue, woken,
                   wakeLost, pending, debts, halfPaid, rexec, resume, wrote>>

\* The channel is empty, or the quantum is used up and the reactor is woken
\* for the rest.
EndDrain ==
    /\ rpc = "drain"
    /\ debts = <<>>
    /\ queue = <<>> \/ handled = DrainQuantum
    /\ woken' = (woken \/ handled = DrainQuantum)
    /\ rpc' = "wait"
    /\ handled' = 0
    /\ UNCHANGED <<submitVars, global, perExec, flagVars, queue, wakeLost,
                   pending, debts, halfPaid, rexec, resume, wrote>>

\* A writable event of the PTY starts service_writes for its execution, which
\* clears rather than writes what a closed ingress left.
Writable(e) ==
    /\ RuntimeIdle
    /\ pending[e] # <<>>
    /\ IF active[e]
       THEN /\ rpc' = "write"
            /\ rexec' = e
            /\ resume' = "wait"
            /\ wrote' = 0
            /\ UNCHANGED <<pending, debts>>
       ELSE /\ pending' = [pending EXCEPT ![e] = <<>>]
            /\ debts' = pending[e]
            /\ UNCHANGED <<rpc, rexec, resume, wrote>>
    /\ UNCHANGED <<submitVars, global, perExec, flagVars, queue, woken,
                   wakeLost, halfPaid, handled>>

\* service_writes hands the PTY a prefix of the front message; what the PTY
\* takes is consumed from the message and from its reservation.
WriteSome(n) ==
    LET m == Head(pending[rexec])
        left == [m EXCEPT !.bytes = @ - n] IN
    /\ rpc = "write"
    /\ debts = <<>>
    /\ pending[rexec] # <<>>
    /\ n <= m.bytes
    /\ wrote + n <= WriteQuantum
    /\ pending' = [pending EXCEPT ![rexec] =
                       IF n = m.bytes THEN Tail(@) ELSE <<left>> \o Tail(@)]
    /\ debts' = <<[m EXCEPT !.bytes = n]>>
    /\ wrote' = wrote + n
    /\ UNCHANGED <<submitVars, global, perExec, flagVars, queue, woken,
                   wakeLost, halfPaid, rpc, rexec, resume, handled>>

\* Nothing is left, the quantum is used up, or the PTY would block.
EndWrite ==
    /\ rpc = "write"
    /\ debts = <<>>
    /\ rpc' = resume
    /\ resume' = "wait"
    /\ rexec' = NoJob.exec
    /\ wrote' = 0
    /\ UNCHANGED <<submitVars, global, perExec, flagVars, queue, woken,
                   wakeLost, pending, debts, halfPaid, handled>>

\* InputReservation::consume and Drop release the aggregate counter first.
PayGlobal ==
    /\ debts # <<>>
    /\ ~halfPaid
    /\ global' = global - Head(debts).bytes
    /\ halfPaid' = TRUE
    /\ UNCHANGED <<submitVars, perExec, flagVars, queue, woken, wakeLost,
                   pending, debts, rpc, rexec, resume, handled, wrote>>

PayExec ==
    /\ debts # <<>>
    /\ halfPaid
    /\ perExec' = [perExec EXCEPT ![Head(debts).exec] = @ - Head(debts).bytes]
    /\ debts' = Tail(debts)
    /\ halfPaid' = FALSE
    /\ UNCHANGED <<submitVars, global, flagVars, queue, woken, wakeLost,
                   pending, rpc, rexec, resume, handled, wrote>>

\* Variant: the flag is cleared while accepted input stays queued for the PTY.
CloseIngressOnly(e) ==
    /\ RuntimeIdle
    /\ active[e]
    /\ active' = [active EXCEPT ![e] = FALSE]
    /\ UNCHANGED <<submitVars, global, perExec, held, queue, woken, wakeLost,
                   runtimeVars>>

\* Termination, PTY EOF or finalization closes the ingress and clears what
\* was pending, message by message.
CloseIngress(e) ==
    /\ RuntimeIdle
    /\ active[e]
    /\ active' = [active EXCEPT ![e] = FALSE]
    /\ pending' = [pending EXCEPT ![e] = <<>>]
    /\ debts' = pending[e]
    /\ UNCHANGED <<submitVars, global, perExec, held, queue, woken, wakeLost,
                   halfPaid, rpc, rexec, resume, handled, wrote>>

\* note_input_target stores the hold of the session overlay.
StoreHold(e) ==
    /\ RuntimeIdle
    /\ held' = [held EXCEPT ![e] = ~@]
    /\ UNCHANGED <<submitVars, global, perExec, active, queue, woken, wakeLost,
                   runtimeVars>>

-----------------------------------------------------------------------------
Submit(t) ==
    \/ CheckHold(t) \/ LoadGlobal(t) \/ CasGlobal(t) \/ LoadExec(t)
    \/ CasExec(t) \/ Rollback(t) \/ Recheck(t) \/ Send(t) \/ Wake(t)
    \/ DropGlobal(t) \/ DropExec(t)

RuntimeStep ==
    \/ StartDrain \/ Receive \/ EndDrain \/ EndWrite \/ PayGlobal \/ PayExec

Next ==
    \/ \E t \in Threads, m \in Message : Begin(t, m)
    \/ \E t \in Threads : Submit(t)
    \/ RuntimeStep
    \/ \E e \in Execs : Writable(e) \/ CloseIngress(e) \/ StoreHold(e)
    \/ \E n \in 1..MaxBytes : WriteSome(n)

Spec == Init /\ [][Next]_vars

\* A call that has begun runs on.  One poll handles a bounded batch of events,
\* so the Runtime thread keeps coming back to reactor.wait, and a triggered
\* control event is in its next batch.  reserve_counter's loop is lock-free and
\* no more: that no thread loses every exchange for ever (the two SF on the
\* exchanges) is an assumption about contention.
Fairness ==
    /\ \A t \in Threads :
          /\ WF_vars(Submit(t))
          /\ SF_vars(CasGlobal(t) /\ pc'[t] # "casGlobal")
          /\ SF_vars(CasExec(t) /\ pc'[t] # "casExec")
    /\ WF_vars(RuntimeStep)
    /\ SF_vars(StartDrain)

LiveSpec == Spec /\ Fairness

-----------------------------------------------------------------------------
TypeOK ==
    /\ pc \in [Threads -> PCs]
    /\ job \in [Threads -> Message]
    /\ seen \in [Threads -> Int]
    /\ global \in Int
    /\ perExec \in [Execs -> Int]
    /\ active \in [Execs -> BOOLEAN]
    /\ held \in [Execs -> BOOLEAN]
    /\ queue \in Seq(Message)
    /\ woken \in BOOLEAN
    /\ wakeLost \in BOOLEAN
    /\ pending \in [Execs -> Seq(Message)]
    /\ debts \in Seq(Message)
    /\ halfPaid \in BOOLEAN
    /\ rpc \in {"wait", "drain", "write"}
    /\ rexec \in Execs
    /\ resume \in {"wait", "drain"}
    /\ handled \in 0..DrainQuantum
    /\ wrote \in 0..WriteQuantum

\* Neither counter ever exceeds its limit, however many threads reserve at the
\* same time (the compare-exchange loop of reserve_counter).
LimitsHold ==
    /\ global <= GlobalLimit
    /\ \A e \in Execs : perExec[e] <= ExecLimit

Bytes(seq, e) ==
    FoldSeq(LAMBDA m, sum : sum + (IF m.exec = e THEN m.bytes ELSE 0), 0, seq)

Submitting(e, labels) ==
    MapThenSumSet(
        LAMBDA t : job[t].bytes,
        {t \in Threads : pc[t] \in labels /\ job[t].exec = e})

\* Bytes of e that own a share of the aggregate, and of the execution's counter.
OwnGlobal(e) ==
    Submitting(e, HoldsGlobal) + Bytes(queue, e) + Bytes(pending[e], e)
        + Bytes(IF halfPaid THEN Tail(debts) ELSE debts, e)
OwnExec(e) ==
    Submitting(e, HoldsExec) + Bytes(queue, e) + Bytes(pending[e], e)
        + Bytes(debts, e)

\* Both counters are exactly the bytes whose reservation is still owned by a
\* running call, a queued message, pending input or an unfinished release: no
\* path (rollback, closed ingress, full queue, partial write, clear) leaks a
\* reservation or releases one twice.
AccountsBalance ==
    /\ global = MapThenSumSet(OwnGlobal, Execs)
    /\ \A e \in Execs : perExec[e] = OwnExec(e)

\* A queued message is never forgotten: the reactor is woken, the drain is
\* still running, or the sender has yet to wake it, unless a wake-up failed.
NoStrandedMessage ==
    queue # <<>> =>
        \/ woken \/ wakeLost
        \/ rpc = "drain" \/ (rpc = "write" /\ resume = "drain")
        \/ \E t \in Threads : pc[t] = "wake"

\* Input is pending only where it may still be written: closing an ingress
\* leaves none of its accepted bytes behind for the PTY.
PendingIsActive ==
    \A e \in Execs : pending[e] # <<>> => active[e]

\* A queued message brings the Runtime thread back into drain_control, unless a
\* wake-up has failed (AcceptedButWakeFailed is reported to its sender).
QueueIsDrained == queue # <<>> ~> (rpc = "drain" \/ wakeLost)
=============================================================================
