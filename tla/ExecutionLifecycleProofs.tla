---------------------- MODULE ExecutionLifecycleProofs ----------------------
(***************************************************************************)
(* Proofs about ExecutionLifecycle for every set of executions and every   *)
(* value of the limits.  The state is a function from executions to        *)
(* records and a handler maps a record to records, so the inductive        *)
(* invariant is a predicate on ONE record, RecInv, and what a handler does *)
(* is a relation on two, StepOK.  Both are shown handler by handler.       *)
(***************************************************************************)
EXTENDS ExecutionLifecycle, TLAPS

\* ReapedBeforeRelease, of one record.
Released(r) == r.phase \in {"final", "discarded"} => r.child = "reaped"

\* ReapedIsDraining, of one record.
Draining(r) ==
    r.phase = "live" => (r.child = "reaped" <=>
                         r.lifecycle = "DrainingAfterPrimaryExit")

\* QueuedBytesAreArmed, of one record.
Armed(r) == r.phase = "live" /\ (r.pending > 0 \/ r.replies) => r.writable

\* CountersBelong, of one record.
Counted(r) ==
    /\ r.probe > 0 => r.lifecycle = "Running" /\ ~r.readable /\ ~r.ingress
    /\ r.lifecycle = "PrimaryExitPending" => r.remaining \in 1..PrimaryExitLimit
    /\ r.lifecycle \notin {"PrimaryExitPending", "TerminationFailed"} =>
          r.remaining = 0

\* The exit watch follows the child: armed while it lives, pending once it has
\* exited and until that has been observed.  The last part is NoLostExit.
Watched(r) ==
    r.phase = "live" =>
        /\ r.child = "alive" => r.watch = "armed"
        /\ r.watch = "pending" => r.child # "alive"
        /\ ~GoneAtRegistration /\ r.child \in {"exited", "reapable"}
              /\ r.lifecycle = "Running" => r.watch = "pending"

\* A state in which SIGKILL is due was reached through SIGTERM or an exit.
Signalled(r) ==
    r.phase = "live" =>
        /\ r.lifecycle \in {"TerminatingGraceful", "TerminatingForced"} =>
              r.sig \in {"term", "kill"}
        /\ r.lifecycle = "PrimaryExitPending" => r.child # "alive"
        /\ r.lifecycle = "TerminationFailed" =>
              r.sig \in {"term", "kill"} \/ r.child # "alive"
        /\ r.child # "none"

\* What holds of the record of every execution between two handlers.
RecInv(r) ==
    /\ r \in Record
    /\ Released(r)
    /\ Draining(r)
    /\ Armed(r)
    /\ Counted(r)
    /\ Watched(r)
    /\ Signalled(r)

\* What a handler may do to the record of a live execution.
StepOK(r, s) ==
    /\ RecInv(s)
    /\ s.lifecycle \in Successors(r.lifecycle)
    /\ s.sig # r.sig =>
          /\ r.child \in {"alive", "exited"}
          /\ s.sig = "kill" => r.sig = "term" \/ r.child = "exited"

IInv ==
    /\ exec \in [Execs -> Record]
    /\ shuttingDown \in BOOLEAN
    /\ up \in BOOLEAN
    /\ \A e \in Execs : RecInv(exec[e])

-----------------------------------------------------------------------------
(* Arithmetic and lifecycle facts the handlers' lemmas use.                *)

LEMMA Zero ==
    /\ 0 \in 0..MaxInput /\ 0 \in 0..MaxUnread /\ 0 \in Nat /\ ~(0 > 0)
    /\ \A n \in Nat : n + 1 \in Nat
BY ConstantsAssumption

LEMMA Limits ==
    /\ PrimaryExitLimit \in Nat /\ PrimaryExitLimit \in 1..PrimaryExitLimit
    /\ FailedLimit \in Nat /\ ProbeLimit \in Nat
BY ConstantsAssumption

LEMMA Order ==
    ASSUME NEW l \in Lifecycles
    PROVE  /\ l \in Successors(l)
           /\ "DrainingAfterPrimaryExit" \in Successors(l)
           /\ l = "Running" => "PrimaryExitPending" \in Successors(l)
           /\ l \in {"Running", "TerminationFailed"} =>
                "TerminatingGraceful" \in Successors(l)
           /\ l = "TerminatingGraceful" => "TerminatingForced" \in Successors(l)
           /\ l \in {"TerminatingForced", "PrimaryExitPending"} =>
                "TerminationFailed" \in Successors(l)
BY DEF Lifecycles, Successors

-----------------------------------------------------------------------------
(* The drain and what releases it.                                         *)

LEMMA VacantInv == RecInv(Vacant)
BY Zero, Zenon
   DEF RecInv, Released, Draining, Armed, Counted, Watched, Signalled, Vacant,
       Record, ChildStates, Lifecycles, Holders

LEMMA SameStep ==
    ASSUME NEW r, RecInv(r)
    PROVE  StepOK(r, r)
BY Order, Zenon DEF StepOK, RecInv, Record

\* enter_drain starts the drain with the status in hand.
LEMMA EnterDrainStep ==
    ASSUME NEW r, RecInv(r), r.phase = "live"
    PROVE  /\ RecInv(EnterDrain(r))
           /\ EnterDrain(r).phase = "live"
           /\ EnterDrain(r).lifecycle = "DrainingAfterPrimaryExit"
           /\ EnterDrain(r).sig = r.sig
BY Zero, ZenonT(30)
   DEF RecInv, Released, Draining, Armed, Counted, Watched, Signalled,
       EnterDrain, ArmDrain, StopWrites, Reap, Record, ChildStates,
       Lifecycles, Holders

\* A reap outside enter_drain (AlreadyReaped): input was closed before.
LEMMA ArmDrainStep ==
    ASSUME NEW r, RecInv(r), r.phase = "live", r.lifecycle # "Running"
    PROVE  /\ RecInv(ArmDrain(Reap(r)))
           /\ ArmDrain(Reap(r)).lifecycle = "DrainingAfterPrimaryExit"
           /\ ArmDrain(Reap(r)).sig = r.sig
           /\ ArmDrain(Reap(r)).child = "reaped"
BY Zero, ZenonT(30)
   DEF RecInv, Released, Draining, Armed, Counted, Watched, Signalled,
       ArmDrain, Reap, Record, ChildStates, Lifecycles, Holders

LEMMA FinalizeStep ==
    ASSUME NEW r, RecInv(r), r.phase = "live",
           r.lifecycle = "DrainingAfterPrimaryExit"
    PROVE  /\ RecInv(Finalize(r))
           /\ Finalize(r).phase = "final"
           /\ Finalize(r).lifecycle = "DrainingAfterPrimaryExit"
           /\ Finalize(r).sig = r.sig
BY Zero, ZenonT(30)
   DEF RecInv, Released, Draining, Armed, Counted, Watched, Signalled,
       Finalize, StopWrites, Record, ChildStates, Lifecycles, Holders

-----------------------------------------------------------------------------
(* service_reads.                                                          *)

LEMMA MarkClosedStep ==
    ASSUME NEW r, RecInv(r), r.phase = "live"
    PROVE  LET s == MarkTerminalIoClosed(r)
           IN  /\ RecInv(s) /\ s.phase = "live" /\ s.lifecycle = r.lifecycle
               /\ s.sig = r.sig /\ ~s.readable /\ ~s.ingress
BY Zero, ZenonT(30)
   DEF RecInv, Released, Draining, Armed, Counted, Watched, Signalled,
       MarkTerminalIoClosed, StopWrites, Record, ChildStates, Lifecycles, Holders

LEMMA ProbeAtEofStep ==
    ASSUME NEW r, RecInv(r), r.phase = "live", ~r.readable, ~r.ingress
    PROVE  LET s == ProbeAtEof(r)
           IN  /\ RecInv(s) /\ s.phase = "live" /\ s.sig = r.sig
               /\ \/ s.lifecycle = r.lifecycle
                  \/ s.lifecycle = "DrainingAfterPrimaryExit"
<1>1. ASSUME r.lifecycle = "Running"
      PROVE  LET s == [r EXCEPT !.probe = ProbeLimit]
             IN  /\ RecInv(s) /\ s.phase = "live" /\ s.sig = r.sig
                 /\ s.lifecycle = r.lifecycle
  BY <1>1, Limits, ZenonT(30)
     DEF RecInv, Released, Draining, Armed, Counted, Watched, Signalled,
         Record, ChildStates, Lifecycles, Holders
<1> QED BY <1>1, EnterDrainStep, Zenon DEF ProbeAtEof

LEMMA AtEofStep ==
    ASSUME NEW r, RecInv(r), r.phase = "live"
    PROVE  LET s == AtEof(r)
           IN  /\ RecInv(s) /\ s.sig = r.sig
               /\ \/ s.lifecycle = r.lifecycle
                  \/ s.lifecycle = "DrainingAfterPrimaryExit"
<1> DEFINE closed == MarkTerminalIoClosed(r)
           probed == ProbeAtEof(closed)
<1>1. /\ RecInv(closed) /\ closed.phase = "live" /\ closed.sig = r.sig
      /\ closed.lifecycle = r.lifecycle /\ ~closed.readable /\ ~closed.ingress
  BY MarkClosedStep, Zenon
<1>2. /\ RecInv(probed) /\ probed.phase = "live" /\ probed.sig = r.sig
      /\ \/ probed.lifecycle = r.lifecycle
         \/ probed.lifecycle = "DrainingAfterPrimaryExit"
  <2> HIDE DEF closed
  <2> QED BY <1>1, ProbeAtEofStep, Zenon
<1> HIDE DEF probed
<1>3. AtEof(r) = FinishDrain(probed)
  BY DEF AtEof, probed, closed
<1> QED BY <1>2, <1>3, FinalizeStep, Zenon DEF FinishDrain

\* Bytes read: the write filter is armed for every reply they cause.
LEMMA AfterBytesStep ==
    ASSUME NEW r, RecInv(r), r.phase = "live",
           NEW n \in 0..r.unread, NEW q \in BOOLEAN
    PROVE  LET s == AfterBytes(r, n, q)
           IN  /\ RecInv(s) /\ s.phase = "live" /\ s.sig = r.sig
               /\ s.lifecycle = r.lifecycle
<1> DEFINE w == r.writable \/ (r.replies \/ q) \/ (n > 0 /\ r.pending > 0)
<1>1. r.unread \in 0..MaxUnread
  BY Zenon DEF RecInv, Record
<1>2. r.unread - n \in 0..MaxUnread
  <2> DEFINE u == r.unread
  <2>1. u \in 0..MaxUnread /\ n \in 0..u
    BY <1>1
  <2> HIDE DEF u
  <2>2. u - n \in 0..MaxUnread
    BY <2>1, ConstantsAssumption
  <2> QED BY <2>2 DEF u
<1>3. w \in BOOLEAN /\ (r.replies \/ q) \in BOOLEAN
  BY Zenon
<1>4. AfterBytes(r, n, q) =
        [r EXCEPT !.unread = r.unread - n, !.replies = r.replies \/ q, !.writable = w]
  BY Zenon DEF AfterBytes
<1> QED
  BY <1>2, <1>3, <1>4, ZenonT(60)
     DEF RecInv, Released, Draining, Armed, Counted, Watched, Signalled,
         Record, ChildStates, Lifecycles, Holders

LEMMA ServiceReadsStep ==
    ASSUME NEW r, RecInv(r), r.phase = "live", NEW s \in ServiceReads(r)
    PROVE  /\ RecInv(s) /\ s.sig = r.sig
           /\ \/ s.lifecycle = r.lifecycle
              \/ s.lifecycle = "DrainingAfterPrimaryExit"
<1> DEFINE n == IF r.unread < ReadQuantum THEN r.unread ELSE ReadQuantum
<1>1. n \in 0..r.unread
  <2> DEFINE u == r.unread
  <2>1. u \in 0..MaxUnread
    BY Zenon DEF RecInv, Record
  <2> HIDE DEF u
  <2>2. (IF u < ReadQuantum THEN u ELSE ReadQuantum) \in 0..u
    BY <2>1, ConstantsAssumption
  <2> QED BY <2>2 DEF u
<1>2. PICK q \in BOOLEAN :
        s = IF n < ReadQuantum /\ r.hold = {} THEN AtEof(AfterBytes(r, n, q))
            ELSE AfterBytes(r, n, q)
  BY Zenon DEF ServiceReads
<1> DEFINE read == AfterBytes(r, n, q)
<1>3. /\ RecInv(read) /\ read.phase = "live" /\ read.sig = r.sig
      /\ read.lifecycle = r.lifecycle
  <2> HIDE DEF n
  <2> QED BY <1>1, AfterBytesStep, Zenon
<1>4. s = AtEof(read) \/ s = read
  BY <1>2, Zenon
<1> HIDE DEF read
<1> QED BY <1>3, <1>4, AtEofStep, Zenon

LEMMA DrainAndReadStep ==
    ASSUME NEW r, RecInv(r), r.phase = "live", NEW s \in DrainAndRead(r)
    PROVE  /\ StepOK(r, s)
           /\ s.lifecycle = "DrainingAfterPrimaryExit"
<1> DEFINE d == EnterDrain(r)
<1>1. /\ RecInv(d) /\ d.phase = "live" /\ d.sig = r.sig
      /\ d.lifecycle = "DrainingAfterPrimaryExit"
  BY EnterDrainStep, Zenon
<1>2. s \in ServiceReads(d)
  BY Zenon DEF DrainAndRead
<1> HIDE DEF d
<1>3. RecInv(s) /\ s.sig = r.sig /\ s.lifecycle = "DrainingAfterPrimaryExit"
  BY <1>1, <1>2, ServiceReadsStep, Zenon
<1>4. r.lifecycle \in Lifecycles
  BY Zenon DEF RecInv, Record
<1> QED BY <1>3, <1>4, Order, Zenon DEF StepOK

-----------------------------------------------------------------------------
(* service_writes, the exit event and the deadlines.                       *)

LEMMA ServiceWritesStep ==
    ASSUME NEW r, r \in Record, r.phase = "live",
           NEW s \in ServiceWrites(r),
           RecInv([r EXCEPT !.writable = TRUE])
    PROVE  RecInv(s) /\ s.sig = r.sig /\ s.lifecycle = r.lifecycle
<1>1. r.pending \in 0..MaxInput
  BY Zenon DEF Record
<1>2. 0..r.pending \subseteq 0..MaxInput
  <2> DEFINE p == r.pending
  <2>1. p \in 0..MaxInput
    BY <1>1
  <2> HIDE DEF p
  <2>2. 0..p \subseteq 0..MaxInput
    BY <2>1, ConstantsAssumption
  <2> QED BY <2>2 DEF p
<1>3. CASE s = [r EXCEPT !.pending = 0, !.replies = FALSE, !.writable = FALSE]
  BY <1>3, Zero, ZenonT(30)
     DEF RecInv, Released, Draining, Armed, Counted, Watched, Signalled,
         Record, ChildStates, Lifecycles, Holders
<1>4. CASE s = [r EXCEPT !.writable = TRUE]
  BY <1>4, ZenonT(30) DEF Record
<1>5. ASSUME NEW left \in 0..r.pending,
             s = [r EXCEPT !.pending = left, !.replies = FALSE,
                           !.writable = left > 0]
      PROVE  RecInv(s) /\ s.sig = r.sig /\ s.lifecycle = r.lifecycle
  <2>0. left \in 0..MaxInput
    BY <1>2, Zenon
  <2>1. (left > 0) \in BOOLEAN /\ left \in 0..MaxInput
    BY <2>0, ConstantsAssumption
  <2> QED
    BY <2>1, <1>5, ZenonT(60)
       DEF RecInv, Released, Draining, Armed, Counted, Watched, Signalled,
           Record, ChildStates, Lifecycles, Holders
<1> QED BY <1>3, <1>4, <1>5, Zenon DEF ServiceWrites

LEMMA PtyWritableStep ==
    ASSUME NEW r, RecInv(r), r.phase = "live", NEW s \in ServiceWrites(r),
           r.writable
    PROVE  StepOK(r, s)
<1>1. r \in Record /\ r.lifecycle \in Lifecycles
  BY Zenon DEF RecInv, Record
<1>2. [r EXCEPT !.writable = TRUE] = r
  BY <1>1, Zenon DEF Record
<1>3. RecInv(s) /\ s.sig = r.sig /\ s.lifecycle = r.lifecycle
  BY <1>1, <1>2, ServiceWritesStep, Zenon
<1> QED BY <1>1, <1>3, Order, Zenon DEF StepOK

\* drain_control queues one input and writes at once.
LEMMA DrainControlStep ==
    ASSUME NEW r, RecInv(r), r.phase = "live", r.pending < MaxInput,
           NEW s \in ServiceWrites([r EXCEPT !.pending = r.pending + 1])
    PROVE  StepOK(r, s)
<1> DEFINE t == [r EXCEPT !.pending = r.pending + 1]
<1>1. r \in Record /\ r.lifecycle \in Lifecycles /\ r.pending \in 0..MaxInput
  BY Zenon DEF RecInv, Record
<1>2. r.pending + 1 \in 0..MaxInput
  <2> DEFINE p == r.pending
  <2>1. p \in 0..MaxInput /\ p < MaxInput
    BY <1>1
  <2> HIDE DEF p
  <2>2. p + 1 \in 0..MaxInput
    BY <2>1, ConstantsAssumption
  <2> QED BY <2>2 DEF p
<1>3. /\ t \in Record /\ t.phase = "live" /\ t.sig = r.sig
      /\ t.lifecycle = r.lifecycle
      /\ RecInv([t EXCEPT !.writable = TRUE])
  BY <1>1, <1>2, ZenonT(60)
     DEF RecInv, Released, Draining, Armed, Counted, Watched, Signalled,
         Record, ChildStates, Lifecycles, Holders
<1> HIDE DEF t
<1>4. RecInv(s) /\ s.sig = t.sig /\ s.lifecycle = t.lifecycle
  BY <1>3, ServiceWritesStep, Zenon DEF t
<1> QED BY <1>1, <1>3, <1>4, Order, Zenon DEF StepOK

\* The exit event: it is spent, and Running does not keep it to itself.
LEMMA ObservePrimaryExitStep ==
    ASSUME NEW r, RecInv(r), r.phase = "live", r.watch = "pending",
           NEW s \in ObservePrimaryExit(r)
    PROVE  StepOK(r, s)
<1> DEFINE seen == [r EXCEPT !.watch = "off", !.probe = 0]
<1>0. r \in Record /\ r.lifecycle \in Lifecycles /\ r.child # "alive"
  BY Zenon DEF RecInv, Record, Watched
<1>1. CASE Waitable(r)
  <2>1. s \in DrainAndRead(seen)
    BY <1>1, Zenon DEF ObservePrimaryExit
  <2>2. /\ RecInv(EnterDrain(seen)) /\ EnterDrain(seen).phase = "live"
        /\ EnterDrain(seen).sig = r.sig
        /\ EnterDrain(seen).lifecycle = "DrainingAfterPrimaryExit"
    BY <1>0, Zero, ZenonT(60)
       DEF RecInv, Released, Draining, Armed, Counted, Watched, Signalled,
           EnterDrain, ArmDrain, StopWrites, Reap, Record, ChildStates,
           Lifecycles, Holders
  <2>3. RecInv(s) /\ s.sig = r.sig /\ s.lifecycle = "DrainingAfterPrimaryExit"
    <3> DEFINE d == EnterDrain(seen)
    <3>1. s \in ServiceReads(d)
      BY <2>1, Zenon DEF DrainAndRead
    <3>2. RecInv(d) /\ d.phase = "live" /\ d.sig = r.sig
          /\ d.lifecycle = "DrainingAfterPrimaryExit"
      BY <2>2, Zenon
    <3> HIDE DEF d
    <3> QED BY <3>1, <3>2, ServiceReadsStep, Zenon
  <2> QED BY <1>0, <2>3, Order, Zenon DEF StepOK
<1>2. CASE ~Waitable(r) /\ r.lifecycle = "Running"
  <2>1. s = [seen EXCEPT !.lifecycle = "PrimaryExitPending",
                         !.remaining = PrimaryExitLimit]
    BY <1>2, Zenon DEF ObservePrimaryExit
  <2>2. RecInv(s) /\ s.sig = r.sig /\ s.lifecycle = "PrimaryExitPending"
    BY <1>0, <1>2, <2>1, Zero, Limits, ZenonT(60)
       DEF RecInv, Released, Draining, Armed, Counted, Watched, Signalled,
           Waitable, Record, ChildStates, Lifecycles, Holders
  <2> QED BY <1>0, <1>2, <2>2, Order, Zenon DEF StepOK
<1>3. CASE ~Waitable(r) /\ r.lifecycle # "Running"
  <2>1. s = seen
    BY <1>3, Zenon DEF ObservePrimaryExit
  <2>2. RecInv(s) /\ s.sig = r.sig /\ s.lifecycle = r.lifecycle
    BY <1>0, <1>3, <2>1, Zero, ZenonT(60)
       DEF RecInv, Released, Draining, Armed, Counted, Watched, Signalled,
           Waitable, Record, ChildStates, Lifecycles, Holders
  <2> QED BY <1>0, <2>2, Order, Zenon DEF StepOK
<1> QED BY <1>1, <1>2, <1>3

LEMMA ProbeDeadlineStep ==
    ASSUME NEW r, RecInv(r), r.phase = "live", r.probe > 0,
           NEW s \in ProbeDeadline(r)
    PROVE  StepOK(r, s)
<1>0. /\ r \in Record /\ r.lifecycle \in Lifecycles /\ r.probe \in Nat
      /\ r.lifecycle = "Running" /\ ~r.readable /\ ~r.ingress
  BY Zenon DEF RecInv, Record, Counted
<1>1. CASE Waitable(r)
  BY <1>0, <1>1, DrainAndReadStep, Zenon DEF ProbeDeadline
<1>2. CASE ~Waitable(r)
  <2>1. r.probe - 1 \in Nat
    <3> DEFINE p == r.probe
    <3>1. p \in Nat /\ p > 0
      BY <1>0
    <3> HIDE DEF p
    <3>2. p - 1 \in Nat
      BY <3>1
    <3> QED BY <3>2 DEF p
  <2>2. s = [r EXCEPT !.probe = r.probe - 1]
    BY <1>0, <1>2, Zenon DEF ProbeDeadline
  <2>3. RecInv(s) /\ s.sig = r.sig /\ s.lifecycle = r.lifecycle
    BY <1>0, <2>1, <2>2, ZenonT(60)
       DEF RecInv, Released, Draining, Armed, Counted, Watched, Signalled,
           Record, ChildStates, Lifecycles, Holders
  <2> QED BY <1>0, <2>3, Order, Zenon DEF StepOK
<1> QED BY <1>1, <1>2

\* signal_kill from a deadline: either a drain, or a kill of a child that was
\* asked to terminate or has exited.
LEMMA KillStep ==
    ASSUME NEW r, RecInv(r), r.phase = "live", ~Waitable(r),
           r.lifecycle \in {"TerminatingGraceful", "TerminationFailed"},
           NEW s \in Kill(r)
    PROVE  \/ /\ Waitable(s)
              /\ RecInv(s) /\ s.sig = r.sig
              /\ s.lifecycle = "DrainingAfterPrimaryExit"
           \/ /\ ~Waitable(s)
              /\ s = [r EXCEPT !.sig = "kill"]
              /\ r.sig # "kill" => r.sig = "term" \/ r.child = "exited"
<1>0. r \in Record /\ r.child \in {"alive", "exited"}
  BY Zenon DEF RecInv, Record, Waitable, ChildStates, Signalled
<1>1. PICK t \in AtSecondWait(r) :
        s = IF Waitable(t) THEN ArmDrain(Reap(t)) ELSE Signal(t, "kill")
  BY Zenon DEF Kill
<1>2. CASE t = r
  <2>1. s = [r EXCEPT !.sig = "kill"]
    BY <1>0, <1>1, <1>2, Zenon DEF Signal, Record
  <2>2. ~Waitable(s)
    BY <1>0, <2>1, Zenon DEF Waitable, Record
  <2>3. r.sig # "kill" => r.sig = "term" \/ r.child = "exited"
    BY <1>0, Zenon DEF RecInv, Signalled
  <2> QED BY <2>1, <2>2, <2>3
<1>3. CASE t = [r EXCEPT !.child = "reapable"] /\ r.child = "exited"
  <2>1. RecInv(t) /\ t.phase = "live" /\ t.lifecycle # "Running"
        /\ t.sig = r.sig /\ Waitable(t)
    BY <1>0, <1>3, ZenonT(60)
       DEF RecInv, Released, Draining, Armed, Counted, Watched, Signalled,
           Waitable, Record, ChildStates, Lifecycles, Holders
  <2>2. s = ArmDrain(Reap(t))
    BY <1>1, <2>1, Zenon
  <2> QED BY <2>1, <2>2, ArmDrainStep, Zenon DEF Waitable
<1> QED BY <1>1, <1>2, <1>3, Zenon DEF AtSecondWait

LEMMA GracefulStep ==
    ASSUME NEW r, RecInv(r), r.phase = "live", ~Waitable(r),
           r.lifecycle = "TerminatingGraceful", NEW s \in GracefulDeadline(r)
    PROVE  StepOK(r, s)
<1>0. r \in Record /\ r.lifecycle \in Lifecycles /\ r.child \in {"alive", "exited"}
  BY Zenon DEF RecInv, Record, Waitable, ChildStates, Signalled
<1>1. PICK k \in Kill(r) :
        s = IF Waitable(k) THEN k ELSE [k EXCEPT !.lifecycle = "TerminatingForced"]
  BY Zenon DEF GracefulDeadline
<1>2. CASE Waitable(k)
  BY <1>0, <1>1, <1>2, KillStep, Order, Zenon DEF StepOK
<1>3. CASE ~Waitable(k)
  <2>1. s = [[r EXCEPT !.sig = "kill"] EXCEPT !.lifecycle = "TerminatingForced"]
    BY <1>1, <1>3, KillStep, Zenon
  <2>2. r.sig # "kill" => r.sig = "term" \/ r.child = "exited"
    BY <1>3, KillStep, Zenon
  <2>3. RecInv(s) /\ s.sig = "kill" /\ s.lifecycle = "TerminatingForced"
    BY <1>0, <2>1, ZenonT(60)
       DEF RecInv, Released, Draining, Armed, Counted, Watched, Signalled,
           Record, ChildStates, Lifecycles, Holders
  <2> QED BY <1>0, <2>2, <2>3, Order, Zenon DEF StepOK
<1> QED BY <1>2, <1>3

LEMMA FailedStep ==
    ASSUME NEW r, RecInv(r), r.phase = "live", ~Waitable(r),
           r.lifecycle = "TerminationFailed", NEW s \in FailedDeadline(r)
    PROVE  StepOK(r, s)
<1>0. /\ r \in Record /\ r.lifecycle \in Lifecycles /\ r.remaining \in Nat
      /\ r.child \in {"alive", "exited"}
  BY Zenon DEF RecInv, Record, Waitable, ChildStates, Signalled
<1>1. PICK k \in Kill(r) :
        s = IF Waitable(k) THEN k
            ELSE [k EXCEPT !.remaining =
                    IF k.remaining = 0 THEN 0 ELSE k.remaining - 1]
  BY Zenon DEF FailedDeadline
<1>2. CASE Waitable(k)
  BY <1>0, <1>1, <1>2, KillStep, Order, Zenon DEF StepOK
<1>3. CASE ~Waitable(k)
  <2>0. k = [r EXCEPT !.sig = "kill"]
    BY <1>3, KillStep, Zenon
  <2>1. k = [r EXCEPT !.sig = "kill"] /\ k.remaining = r.remaining
    BY <1>0, <2>0, Zenon DEF Record
  <2>2. r.sig # "kill" => r.sig = "term" \/ r.child = "exited"
    BY <1>3, KillStep, Zenon
  <2> DEFINE m == IF r.remaining = 0 THEN 0 ELSE r.remaining - 1
  <2>3. m \in Nat
    <3> DEFINE p == r.remaining
    <3>1. p \in Nat
      BY <1>0
    <3> HIDE DEF p
    <3>2. (IF p = 0 THEN 0 ELSE p - 1) \in Nat
      BY <3>1
    <3> QED BY <3>2 DEF p
  <2>4. s = [k EXCEPT !.remaining = m]
    BY <1>1, <1>3, <2>1
  <2> HIDE DEF m
  <2>5. RecInv(s) /\ s.sig = "kill" /\ s.lifecycle = r.lifecycle
    BY <1>0, <2>1, <2>3, <2>4, ZenonT(60)
       DEF RecInv, Released, Draining, Armed, Counted, Watched, Signalled,
           Record, ChildStates, Lifecycles, Holders
  <2> QED BY <1>0, <2>2, <2>5, Order, Zenon DEF StepOK
<1> QED BY <1>2, <1>3

\* Forced reap missed, or the retries of PrimaryExitPending used up.
LEMMA TerminationFailedStep ==
    ASSUME NEW r, RecInv(r), r.phase = "live",
           r.lifecycle \in {"TerminatingForced", "PrimaryExitPending"}
    PROVE  StepOK(r, EnterTerminationFailed(r))
<1> DEFINE s == EnterTerminationFailed(r)
<1>0. r \in Record /\ r.lifecycle \in Lifecycles
  BY Zenon DEF RecInv, Record
<1>1. RecInv(s) /\ s.sig = r.sig /\ s.lifecycle = "TerminationFailed"
  BY <1>0, Limits, ZenonT(60)
     DEF RecInv, Released, Draining, Armed, Counted, Watched, Signalled,
         EnterTerminationFailed, Record, ChildStates, Lifecycles, Holders
<1> HIDE DEF s
<1>2. StepOK(r, s)
  BY <1>0, <1>1, Order, Zenon DEF StepOK
<1> QED BY <1>2 DEF s

LEMMA PendingStep ==
    ASSUME NEW r, RecInv(r), r.phase = "live", r.lifecycle = "PrimaryExitPending"
    PROVE  StepOK(r, PendingDeadline(r))
<1>0. /\ r \in Record /\ r.lifecycle \in Lifecycles
      /\ r.remaining \in 1..PrimaryExitLimit
  BY Zenon DEF RecInv, Record, Counted
<1>1. CASE r.remaining <= 1
  BY <1>1, TerminationFailedStep, Zenon DEF PendingDeadline
<1>2. CASE ~(r.remaining <= 1)
  <2>1. r.remaining - 1 \in 1..PrimaryExitLimit /\ r.remaining - 1 \in Nat
    <3> DEFINE p == r.remaining
    <3>1. p \in 1..PrimaryExitLimit /\ ~(p <= 1)
      BY <1>0, <1>2
    <3> HIDE DEF p
    <3>2. p - 1 \in 1..PrimaryExitLimit /\ p - 1 \in Nat
      BY <3>1, ConstantsAssumption
    <3> QED BY <3>2 DEF p
  <2> DEFINE s == [r EXCEPT !.remaining = r.remaining - 1]
  <2>2. RecInv(s) /\ s.sig = r.sig /\ s.lifecycle = r.lifecycle
    BY <1>0, <2>1, ZenonT(60)
       DEF RecInv, Released, Draining, Armed, Counted, Watched, Signalled,
           Record, ChildStates, Lifecycles, Holders
  <2>3. PendingDeadline(r) = s
    BY <1>2, Zenon DEF PendingDeadline
  <2> HIDE DEF s
  <2> QED BY <1>0, <2>2, <2>3, Order, Zenon DEF StepOK
<1> QED BY <1>1, <1>2

LEMMA LifecycleDeadlineStep ==
    ASSUME NEW r, RecInv(r), r.phase = "live", r.lifecycle # "Running",
           NEW s \in LifecycleDeadline(r)
    PROVE  StepOK(r, s)
<1>0. r \in Record /\ r.lifecycle \in Lifecycles
  BY Zenon DEF RecInv, Record
<1>1. CASE r.lifecycle = "DrainingAfterPrimaryExit"
  <2>1. PICK t \in ServiceReads(r) : s = IF t.phase = "live" THEN Finalize(t) ELSE t
    BY <1>1, Zenon DEF LifecycleDeadline
  <2>2. RecInv(t) /\ t.sig = r.sig /\ t.lifecycle = "DrainingAfterPrimaryExit"
    BY <1>1, ServiceReadsStep, Zenon
  <2>3. RecInv(s) /\ s.sig = r.sig /\ s.lifecycle = "DrainingAfterPrimaryExit"
    BY <2>1, <2>2, FinalizeStep, Zenon
  <2> QED BY <1>0, <2>3, Order, Zenon DEF StepOK
<1>2. CASE r.lifecycle # "DrainingAfterPrimaryExit" /\ Waitable(r)
  <2>1. s \in DrainAndRead(r)
    BY <1>2 DEF LifecycleDeadline
  <2> QED BY <2>1, DrainAndReadStep, Zenon
<1>3. CASE r.lifecycle = "TerminatingGraceful" /\ ~Waitable(r)
  <2>1. s \in GracefulDeadline(r)
    BY <1>3 DEF LifecycleDeadline
  <2> QED BY <1>3, <2>1, GracefulStep, Zenon
<1>4. CASE r.lifecycle = "TerminatingForced" /\ ~Waitable(r)
  <2>1. s = EnterTerminationFailed(r)
    BY <1>4 DEF LifecycleDeadline
  <2> QED BY <1>4, <2>1, TerminationFailedStep, Zenon
<1>5. CASE r.lifecycle = "PrimaryExitPending" /\ ~Waitable(r)
  <2>1. s = PendingDeadline(r)
    BY <1>5 DEF LifecycleDeadline
  <2> QED BY <1>5, <2>1, PendingStep, Zenon
<1>6. CASE r.lifecycle = "TerminationFailed" /\ ~Waitable(r)
  <2>1. s \in FailedDeadline(r)
    BY <1>6 DEF LifecycleDeadline
  <2> QED BY <1>6, <2>1, FailedStep, Zenon
<1> QED BY <1>0, <1>1, <1>2, <1>3, <1>4, <1>5, <1>6, Zenon DEF Lifecycles

-----------------------------------------------------------------------------
(* request_termination, creation and the kernel.                           *)

LEMMA StopForTerminationStep ==
    ASSUME NEW r, RecInv(r), r.phase = "live"
    PROVE  LET s == StopForTermination(r)
           IN  /\ StepOK(r, s) /\ s.phase = "live" /\ s.sig = r.sig
               /\ s.lifecycle = r.lifecycle /\ s.child = r.child
<1> DEFINE s == StopForTermination(r)
<1>0. r \in Record /\ r.lifecycle \in Lifecycles
  BY Zenon DEF RecInv, Record
<1>1. /\ RecInv(s) /\ s.phase = "live" /\ s.sig = r.sig
      /\ s.lifecycle = r.lifecycle /\ s.child = r.child
  BY <1>0, Zero, ZenonT(60)
     DEF RecInv, Released, Draining, Armed, Counted, Watched, Signalled,
         StopForTermination, StopWrites, Record, ChildStates, Lifecycles, Holders
<1> HIDE DEF s
<1>2. StepOK(r, s)
  BY <1>0, <1>1, Order, Zenon DEF StepOK
<1> QED BY <1>1, <1>2 DEF s

LEMMA RequestTerminationStep ==
    ASSUME NEW r, RecInv(r), r.phase = "live"
    PROVE  StepOK(r, RequestTermination(r))
<1> DEFINE s == StopForTermination(r)
<1>0. r \in Record /\ r.lifecycle \in Lifecycles
  BY Zenon DEF RecInv, Record
<1>1. /\ RecInv(s) /\ s.phase = "live" /\ s.sig = r.sig /\ s.probe = 0
      /\ s.lifecycle = r.lifecycle /\ s.child = r.child
  BY <1>0, StopForTerminationStep, Zenon
     DEF StepOK, StopForTermination, StopWrites, Record
<1>2. CASE ~Terminable(r)
  BY <1>2, SameStep, Zenon DEF RequestTermination
<1>3. CASE Terminable(r) /\ Waitable(r)
  <2> DEFINE t == ArmDrain(Reap(s))
  <2>1. t = RequestTermination(r)
    BY <1>3, Zenon DEF RequestTermination
  <2> HIDE DEF s
  <2>2. /\ RecInv(t) /\ t.sig = r.sig
        /\ t.lifecycle = "DrainingAfterPrimaryExit"
    BY <1>1, Zero, ZenonT(60)
       DEF RecInv, Released, Draining, Armed, Counted, Watched, Signalled,
           ArmDrain, Reap, Record, ChildStates, Lifecycles, Holders
  <2> HIDE DEF t
  <2> QED BY <1>0, <2>1, <2>2, Order, Zenon DEF StepOK
<1>4. CASE Terminable(r) /\ ~Waitable(r)
  <2> DEFINE x == IF s.sig = "kill" THEN "kill" ELSE "term"
             t == [[s EXCEPT !.sig = x] EXCEPT !.lifecycle = "TerminatingGraceful",
                                               !.remaining = 0]
  <2>1. t = RequestTermination(r)
    BY <1>4, Zenon DEF RequestTermination, Signal
  <2>2. x \in {"term", "kill"} /\ (x # r.sig => x = "term")
    BY <1>1, Zenon
  <2>3. r.child \in {"alive", "exited"}
    BY <1>4, Zenon DEF RecInv, Record, ChildStates, Waitable, Signalled
  <2> HIDE DEF s, x
  <2>4. RecInv(t) /\ t.sig = x /\ t.lifecycle = "TerminatingGraceful"
    BY <1>1, <2>2, <2>3, Zero, ZenonT(60)
       DEF RecInv, Released, Draining, Armed, Counted, Watched, Signalled,
           Record, ChildStates, Lifecycles, Holders
  <2>5. r.lifecycle \in {"Running", "TerminationFailed"}
    BY <1>4, Zenon DEF Terminable
  <2> HIDE DEF t
  <2> QED BY <1>0, <2>1, <2>2, <2>3, <2>4, <2>5, Order, Zenon DEF StepOK
<1> QED BY <1>2, <1>3, <1>4

\* Whatever create_execution leaves behind.
LEMMA CreateInv ==
    ASSUME NEW r \in Published \union ExitedBeforePublication \union KillUnpublished
    PROVE  RecInv(r)
<1>1. CASE r \in Published
  <2>1. PICK c \in {"alive", "exited"} :
          r \in UNION {{PublishedAs(c, h, w) : w \in WatchAtRegistration(c)} :
                         h \in SpawnHolds(c)}
    BY <1>1, Zenon DEF Published
  <2>2. PICK h \in SpawnHolds(c) :
          r \in {PublishedAs(c, h, w) : w \in WatchAtRegistration(c)}
    BY <2>1, Zenon
  <2>3. PICK w \in WatchAtRegistration(c) : r = PublishedAs(c, h, w)
    BY <2>2, Zenon
  <2>4. h \in SUBSET Holders
    BY Zenon DEF SpawnHolds, Holders
  <2>5. /\ w \in {"off", "armed", "pending"}
        /\ c = "alive" => w = "armed"
        /\ c = "exited" => w # "armed"
        /\ c = "exited" /\ ~GoneAtRegistration => w = "pending"
    BY Zenon DEF WatchAtRegistration
  <2> QED
    BY <2>3, <2>4, <2>5, Zero, ZenonT(60)
       DEF RecInv, Released, Draining, Armed, Counted, Watched, Signalled,
           PublishedAs, Spawned, Vacant, Record, ChildStates, Lifecycles, Holders
<1>2. CASE r \in ExitedBeforePublication
  BY <1>2, Zero, ZenonT(60)
     DEF RecInv, Released, Draining, Armed, Counted, Watched, Signalled,
         ExitedBeforePublication, Vacant, Record, ChildStates, Lifecycles, Holders
<1>3. CASE r \in KillUnpublished
  <2>1. PICK c \in {"alive", "exited"}, x \in {"kill", "none"} :
          r = Unpublished(c, x)
    BY <1>3, Zenon DEF KillUnpublished
  <2>2. {} \in SUBSET Holders
    BY Zenon
  <2> QED
    BY <2>1, <2>2, Zero, ZenonT(60)
       DEF RecInv, Released, Draining, Armed, Counted, Watched, Signalled,
           Unpublished, Spawned, Vacant, Record, ChildStates, Lifecycles, Holders
<1> QED BY <1>1, <1>2, <1>3, Zenon

LEMMA ReapFailedCreationInv ==
    ASSUME NEW r, RecInv(r), r.phase = "rollback"
    PROVE  RecInv([Reap(r) EXCEPT !.phase = "discarded"])
BY ZenonT(60)
   DEF RecInv, Released, Draining, Armed, Counted, Watched, Signalled,
       Reap, Record, ChildStates, Lifecycles, Holders

\* The kernel's steps change neither lifecycle nor signals.
LEMMA OutputStep ==
    ASSUME NEW r, RecInv(r), r.unread < MaxUnread
    PROVE  StepOK(r, [r EXCEPT !.unread = r.unread + 1])
<1>0. r \in Record /\ r.lifecycle \in Lifecycles /\ r.unread \in 0..MaxUnread
  BY Zenon DEF RecInv, Record
<1>1. r.unread + 1 \in 0..MaxUnread
  <2> DEFINE u == r.unread
  <2>1. u \in 0..MaxUnread /\ u < MaxUnread
    BY <1>0
  <2> HIDE DEF u
  <2>2. u + 1 \in 0..MaxUnread
    BY <2>1, ConstantsAssumption
  <2> QED BY <2>2 DEF u
<1> DEFINE s == [r EXCEPT !.unread = r.unread + 1]
<1>2. RecInv(s) /\ s.sig = r.sig /\ s.lifecycle = r.lifecycle
  BY <1>0, <1>1, ZenonT(60)
     DEF RecInv, Released, Draining, Armed, Counted, Watched, Signalled,
         Record, ChildStates, Lifecycles, Holders
<1> HIDE DEF s
<1>3. StepOK(r, s)
  BY <1>0, <1>2, Order, Zenon DEF StepOK
<1> QED BY <1>3 DEF s

LEMMA HoldStep ==
    ASSUME NEW r, RecInv(r), NEW h \in SUBSET Holders
    PROVE  StepOK(r, [r EXCEPT !.hold = h])
<1> DEFINE s == [r EXCEPT !.hold = h]
<1>0. r \in Record /\ r.lifecycle \in Lifecycles
  BY Zenon DEF RecInv, Record
<1>1. RecInv(s) /\ s.sig = r.sig /\ s.lifecycle = r.lifecycle
  BY <1>0, ZenonT(60)
     DEF RecInv, Released, Draining, Armed, Counted, Watched, Signalled, Record
<1> HIDE DEF s
<1>2. StepOK(r, s)
  BY <1>0, <1>1, Order, Zenon DEF StepOK
<1> QED BY <1>2 DEF s

LEMMA ChildExitsStep ==
    ASSUME NEW r, RecInv(r), r.phase \in {"live", "rollback"}, r.child = "alive"
    PROVE  StepOK(r, [r EXCEPT !.child = "exited", !.hold = r.hold \ {"child"},
                               !.watch = IF r.watch = "armed" THEN "pending"
                                         ELSE r.watch])
<1> DEFINE w == IF r.watch = "armed" THEN "pending" ELSE r.watch
           h == r.hold \ {"child"}
           s == [r EXCEPT !.child = "exited", !.hold = h, !.watch = w]
<1>0. r \in Record /\ r.lifecycle \in Lifecycles
  BY Zenon DEF RecInv, Record
<1>1. h \in SUBSET Holders /\ w \in {"off", "armed", "pending"}
      /\ (r.phase = "live" => w = "pending")
  BY <1>0, Zenon DEF RecInv, Watched, Record
<1> HIDE DEF w, h
<1>2. RecInv(s) /\ s.sig = r.sig /\ s.lifecycle = r.lifecycle
  BY <1>0, <1>1, ZenonT(60)
     DEF RecInv, Released, Draining, Armed, Counted, Watched, Signalled,
         Record, ChildStates
<1> HIDE DEF s
<1>3. StepOK(r, s)
  BY <1>0, <1>2, Order, Zenon DEF StepOK
<1> QED BY <1>3 DEF s, w, h

LEMMA ReapableStep ==
    ASSUME NEW r, RecInv(r), r.phase \in {"live", "rollback"}, r.child = "exited"
    PROVE  StepOK(r, [r EXCEPT !.child = "reapable"])
<1> DEFINE s == [r EXCEPT !.child = "reapable"]
<1>0. r \in Record /\ r.lifecycle \in Lifecycles
  BY Zenon DEF RecInv, Record
<1>1. RecInv(s) /\ s.sig = r.sig /\ s.lifecycle = r.lifecycle
  BY <1>0, ZenonT(60)
     DEF RecInv, Released, Draining, Armed, Counted, Watched, Signalled,
         Record, ChildStates
<1> HIDE DEF s
<1>2. StepOK(r, s)
  BY <1>0, <1>1, Order, Zenon DEF StepOK
<1> QED BY <1>2 DEF s

-----------------------------------------------------------------------------
(* The specification.                                                      *)

\* What a step does to the executions that are live before it.
StepProps == \A e \in Execs : exec[e].phase = "live" => StepOK(exec[e], exec'[e])

LEMMA InvPrimed ==
    ASSUME exec' \in [Execs -> Record], shuttingDown' \in BOOLEAN,
           up' \in BOOLEAN, \A e \in Execs : RecInv(exec'[e])
    PROVE  IInv'
BY Zenon DEF IInv, RecInv, Record, Released, Draining, Armed, Counted, Watched,
             Signalled

LEMMA OneRecord ==
    ASSUME IInv, NEW e \in Execs, NEW s, RecInv(s),
           exec[e].phase = "live" => StepOK(exec[e], s),
           exec' = [exec EXCEPT ![e] = s], UNCHANGED <<shuttingDown, up>>
    PROVE  IInv' /\ StepProps
<1>1. s \in Record
  BY Zenon DEF RecInv
<1>2. exec \in [Execs -> Record] /\ \A f \in Execs : RecInv(exec[f])
  BY Zenon DEF IInv
<1>3. exec' \in [Execs -> Record] /\ exec'[e] = s
      /\ \A f \in Execs : f # e => exec'[f] = exec[f]
  BY <1>1, <1>2, Zenon
<1>4. \A f \in Execs : RecInv(exec'[f])
  BY <1>2, <1>3, Zenon
<1>5. StepProps
  BY <1>2, <1>3, SameStep, Zenon DEF StepProps
<1>6. shuttingDown' \in BOOLEAN /\ up' \in BOOLEAN
  BY Zenon DEF IInv
<1>7. IInv'
  BY <1>3, <1>4, <1>6, InvPrimed, Zenon
<1> QED BY <1>5, <1>7

LEMMA LiveStep ==
    ASSUME IInv, NEW e \in Execs, Live(e), NEW S,
           \A s \in S : StepOK(exec[e], s), Handle(e, S)
    PROVE  IInv' /\ StepProps
<1>1. PICK s \in S : exec' = [exec EXCEPT ![e] = s]
  BY Zenon DEF Handle
<1>2. UNCHANGED <<shuttingDown, up>>
  BY Zenon DEF Handle
<1>3. StepOK(exec[e], s) /\ RecInv(s)
  BY Zenon DEF StepOK
<1> QED BY <1>1, <1>2, <1>3, OneRecord, Zenon

LEMMA SameExec ==
    ASSUME IInv, exec' = exec, shuttingDown' \in BOOLEAN, up' \in BOOLEAN
    PROVE  IInv' /\ StepProps
<1>1. IInv'
  BY InvPrimed, Zenon DEF IInv
<1>2. StepProps
  BY SameStep, Zenon DEF StepProps, IInv
<1> QED BY <1>1, <1>2

LEMMA InitInv == Init => IInv
<1> SUFFICES ASSUME Init PROVE IInv
  OBVIOUS
<1>1. RecInv(Vacant) /\ Vacant \in Record
  BY VacantInv, Zenon DEF RecInv
<1> QED BY <1>1, Zenon DEF Init, IInv

\* One case per action of Next.
LEMMA NextInv == IInv /\ Next => IInv' /\ StepProps
<1> SUFFICES ASSUME IInv, Next PROVE IInv' /\ StepProps
  OBVIOUS
<1>0. /\ \A e \in Execs : RecInv(exec[e])
      /\ shuttingDown \in BOOLEAN /\ up \in BOOLEAN
  BY Zenon DEF IInv
<1>1. ASSUME Fail PROVE IInv' /\ StepProps
  BY <1>0, <1>1, SameExec, Zenon DEF Fail
<1>2. ASSUME NEW e \in Execs, PtyReadable(e) PROVE IInv' /\ StepProps
  <2>1. CASE Handle(e, ServiceReads(exec[e]))
    <3>1. \A s \in ServiceReads(exec[e]) : StepOK(exec[e], s)
      <4> SUFFICES ASSUME NEW s \in ServiceReads(exec[e]) PROVE StepOK(exec[e], s)
        OBVIOUS
      <4> DEFINE r == exec[e]
      <4>1. RecInv(r) /\ r.phase = "live" /\ s \in ServiceReads(r)
        BY <1>0, <1>2, Zenon DEF PtyReadable, Live
      <4> HIDE DEF r
      <4>2. RecInv(s) /\ s.sig = r.sig
            /\ (s.lifecycle = r.lifecycle \/ s.lifecycle = "DrainingAfterPrimaryExit")
        BY <4>1, ServiceReadsStep, Zenon
      <4>3. r.lifecycle \in Lifecycles
        BY <4>1, Zenon DEF RecInv, Record
      <4>4. StepOK(r, s)
        BY <4>2, <4>3, Order, Zenon DEF StepOK
      <4> QED BY <4>4 DEF r
    <3> QED BY <1>2, <2>1, <3>1, LiveStep, Zenon DEF PtyReadable
  <2> QED BY <1>1, <1>2, <2>1, Zenon DEF PtyReadable
<1>3. ASSUME NEW e \in Execs, PtyWritable(e) PROVE IInv' /\ StepProps
  <2>1. CASE Handle(e, ServiceWrites(exec[e]))
    <3>1. \A s \in ServiceWrites(exec[e]) : StepOK(exec[e], s)
      BY <1>0, <1>3, PtyWritableStep, Zenon DEF PtyWritable, Live
    <3> QED BY <1>3, <2>1, <3>1, LiveStep, Zenon DEF PtyWritable
  <2> QED BY <1>1, <1>3, <2>1, Zenon DEF PtyWritable
<1>4. ASSUME NEW e \in Execs, DrainControl(e) PROVE IInv' /\ StepProps
  <2> DEFINE S == ServiceWrites([exec[e] EXCEPT !.pending = exec[e].pending + 1])
  <2>1. CASE Handle(e, S)
    <3>1. \A s \in S : StepOK(exec[e], s)
      BY <1>0, <1>4, DrainControlStep, Zenon DEF DrainControl, Live
    <3> QED BY <1>4, <2>1, <3>1, LiveStep, Zenon DEF DrainControl
  <2> QED BY <1>1, <1>4, <2>1, Zenon DEF DrainControl
<1>5. ASSUME NEW e \in Execs, PrimaryExited(e) PROVE IInv' /\ StepProps
  <2>1. \A s \in ObservePrimaryExit(exec[e]) : StepOK(exec[e], s)
    BY <1>0, <1>5, ObservePrimaryExitStep, Zenon DEF PrimaryExited, Live
  <2> QED BY <1>5, <2>1, LiveStep, Zenon DEF PrimaryExited
<1>6. ASSUME NEW e \in Execs, ProbeDue(e) PROVE IInv' /\ StepProps
  <2>1. \A s \in ProbeDeadline(exec[e]) : StepOK(exec[e], s)
    BY <1>0, <1>6, ProbeDeadlineStep, Zenon DEF ProbeDue, Live
  <2> QED BY <1>6, <2>1, LiveStep, Zenon DEF ProbeDue
<1>7. ASSUME NEW e \in Execs, LifecycleDue(e) PROVE IInv' /\ StepProps
  <2>1. \A s \in LifecycleDeadline(exec[e]) : StepOK(exec[e], s)
    BY <1>0, <1>7, LifecycleDeadlineStep, Zenon DEF LifecycleDue, Live
  <2> QED BY <1>1, <1>7, <2>1, LiveStep, Zenon DEF LifecycleDue
<1>8. ASSUME NEW e \in Execs, Terminate(e) PROVE IInv' /\ StepProps
  <2> DEFINE S == {RequestTermination(exec[e])}
                  \union IF Terminable(exec[e]) /\ SignalFails(exec[e])
                         THEN {StopForTermination(exec[e])} ELSE {}
  <2>1. StepOK(exec[e], RequestTermination(exec[e]))
    BY <1>0, <1>8, RequestTerminationStep, Zenon DEF Terminate, Live
  <2>2. StepOK(exec[e], StopForTermination(exec[e]))
    BY <1>0, <1>8, StopForTerminationStep, Zenon DEF Terminate, Live
  <2>3. \A s \in S : StepOK(exec[e], s)
    BY <2>1, <2>2, Zenon
  <2>4. Handle(e, S) /\ Live(e)
    BY <1>8, Zenon DEF Terminate
  <2> HIDE DEF S
  <2> QED BY <2>3, <2>4, LiveStep, Zenon
<1>9. ASSUME BeginShutdown PROVE IInv' /\ StepProps
  <2>1. PICK failed \in SUBSET {e \in LiveSet : Terminable(exec[e]) /\ SignalFails(exec[e])} :
        \E done \in SUBSET LiveSet :
          exec' = [e \in Execs |->
                     IF e \in done THEN RequestTermination(exec[e])
                     ELSE IF e \in failed THEN StopForTermination(exec[e])
                     ELSE exec[e]]
    BY <1>9, Zenon DEF BeginShutdown
  <2>2. PICK done \in SUBSET LiveSet :
          exec' = [e \in Execs |->
                     IF e \in done THEN RequestTermination(exec[e])
                     ELSE IF e \in failed THEN StopForTermination(exec[e])
                     ELSE exec[e]]
    BY <2>1, Zenon
  <2>3. ASSUME NEW e \in Execs PROVE StepOK(exec[e], exec'[e])
    <3>1. exec'[e] = IF e \in done THEN RequestTermination(exec[e])
                     ELSE IF e \in failed THEN StopForTermination(exec[e])
                     ELSE exec[e]
      BY <2>2, Zenon
    <3>2. e \in done \/ e \in failed => exec[e].phase = "live"
      BY Zenon DEF LiveSet, Live
    <3> QED
      BY <1>0, <3>1, <3>2, RequestTerminationStep, StopForTerminationStep,
         SameStep, Zenon
  <2>4. \A e \in Execs : RecInv(exec'[e]) /\ exec'[e] \in Record
    BY <2>3, Zenon DEF StepOK, RecInv
  <2>5. exec' \in [Execs -> Record]
    BY <2>2, <2>4, Zenon
  <2>6. shuttingDown' \in BOOLEAN /\ up' \in BOOLEAN
    BY <1>0, <1>9, Zenon DEF BeginShutdown
  <2> QED BY <2>3, <2>4, <2>5, <2>6, InvPrimed, Zenon DEF StepProps
<1>10. ASSUME ShutdownExpires PROVE IInv' /\ StepProps
  BY <1>1, <1>10, Zenon DEF ShutdownExpires
<1>11. ASSUME NEW e \in Execs, Create(e) PROVE IInv' /\ StepProps
  <2>1. PICK r \in Published \union ExitedBeforePublication \union KillUnpublished :
          exec' = [exec EXCEPT ![e] = r]
    BY <1>11, Zenon DEF Create
  <2>2. UNCHANGED <<shuttingDown, up>> /\ exec[e].phase # "live"
    BY <1>11, Zenon DEF Create
  <2>3. RecInv(r)
    BY CreateInv, Zenon
  <2> QED BY <2>1, <2>2, <2>3, OneRecord, Zenon
<1>12. ASSUME NEW e \in Execs, ReapFailedCreation(e) PROVE IInv' /\ StepProps
  <2> DEFINE s == [Reap(exec[e]) EXCEPT !.phase = "discarded"]
  <2>1. /\ exec' = [exec EXCEPT ![e] = s] /\ UNCHANGED <<shuttingDown, up>>
        /\ exec[e].phase = "rollback"
    BY <1>12, Zenon DEF ReapFailedCreation
  <2>2. RecInv(s)
    BY <1>0, <2>1, ReapFailedCreationInv, Zenon
  <2> HIDE DEF s
  <2> QED BY <2>1, <2>2, OneRecord, Zenon
<1>13. ASSUME NEW e \in Execs, NEW s, StepOK(exec[e], s), Become(e, s)
       PROVE  IInv' /\ StepProps
  <2>1. RecInv(s)
    BY <1>13, Zenon DEF StepOK
  <2> QED BY <1>13, <2>1, OneRecord, Zenon DEF Become
<1>14. ASSUME NEW e \in Execs, Output(e) PROVE IInv' /\ StepProps
  BY <1>0, <1>13, <1>14, OutputStep, Zenon DEF Output
<1>15. ASSUME NEW e \in Execs, Fork(e) PROVE IInv' /\ StepProps
  <2>1. Holders \in SUBSET Holders
    BY Zenon
  <2> QED BY <1>0, <1>13, <1>15, <2>1, HoldStep, Zenon DEF Fork
<1>16. ASSUME NEW e \in Execs, CloseSlave(e) PROVE IInv' /\ StepProps
  <2>1. PICK h \in exec[e].hold :
          Become(e, [exec[e] EXCEPT !.hold = exec[e].hold \ {h}])
    BY <1>16, Zenon DEF CloseSlave
  <2>2. exec[e].hold \ {h} \in SUBSET Holders
    BY <1>0, Zenon DEF RecInv, Record
  <2> QED BY <1>0, <1>13, <2>1, <2>2, HoldStep, Zenon
<1>17. ASSUME NEW e \in Execs, ChildExits(e) PROVE IInv' /\ StepProps
  <2> DEFINE s == [exec[e] EXCEPT !.child = "exited",
                                  !.hold = exec[e].hold \ {"child"},
                                  !.watch = IF exec[e].watch = "armed"
                                            THEN "pending" ELSE exec[e].watch]
  <2>1. Become(e, s) /\ exec[e].phase \in {"live", "rollback"}
        /\ exec[e].child = "alive"
    BY <1>17, Zenon DEF ChildExits, Present
  <2>2. StepOK(exec[e], s)
    BY <1>0, <2>1, ChildExitsStep, Zenon
  <2> HIDE DEF s
  <2> QED BY <1>13, <2>1, <2>2
<1>18. ASSUME NEW e \in Execs, BecomesReapable(e) PROVE IInv' /\ StepProps
  <2> DEFINE s == [exec[e] EXCEPT !.child = "reapable"]
  <2>1. Become(e, s) /\ exec[e].phase \in {"live", "rollback"}
        /\ exec[e].child = "exited"
    BY <1>18, Zenon DEF BecomesReapable, Present
  <2>2. StepOK(exec[e], s)
    BY <1>0, <2>1, ReapableStep, Zenon
  <2> HIDE DEF s
  <2> QED BY <1>13, <2>1, <2>2
<1> QED
  BY <1>2, <1>3, <1>4, <1>5, <1>6, <1>7, <1>8, <1>9, <1>10, <1>11, <1>12,
     <1>14, <1>15, <1>16, <1>17, <1>18, Zenon
     DEF Next, RuntimeStep, RequestStep, KernelStep

LEMMA StutterInv == IInv /\ UNCHANGED vars => IInv' /\ StepProps
BY SameExec, Zenon DEF vars, IInv

\* The inductive invariant, of every behaviour.
LEMMA Invariance == Spec => []IInv
<1>1. IInv /\ [Next]_vars => IInv'
  BY NextInv, StutterInv
<1> QED BY <1>1, InitInv, PTL DEF Spec

\* Type correctness of the execution records and the Runtime flags.
THEOREM TypeCorrect == Spec => []TypeOK
<1>1. IInv => TypeOK
  BY Zenon DEF IInv, TypeOK
<1> QED BY <1>1, Invariance, PTL

\* No execution is released, and no failed creation forgotten, before its child
\* has been reaped; a reaped child's execution is draining; queued bytes keep
\* the write filter armed; the retry counters belong to their state.  For any
\* number of executions, any limits, and with failing system calls.
THEOREM LifecycleSafe ==
    Spec => [](ReapedBeforeRelease /\ ReapedIsDraining /\ QueuedBytesAreArmed
               /\ CountersBelong)
<1>1. IInv => ReapedBeforeRelease /\ ReapedIsDraining /\ QueuedBytesAreArmed
              /\ CountersBelong
  BY Zenon DEF IInv, RecInv, Released, Draining, Armed, Counted, Live,
     ReapedBeforeRelease, ReapedIsDraining, QueuedBytesAreArmed, CountersBelong
<1> QED BY <1>1, Invariance, PTL

\* The one-shot exit event is never lost, provided every registration gets its
\* exit watch.
THEOREM ExitNeverLost == ~GoneAtRegistration => (Spec => []NoLostExit)
<1> SUFFICES ASSUME ~GoneAtRegistration PROVE Spec => []NoLostExit
  OBVIOUS
<1>1. IInv => NoLostExit
  BY Zenon DEF IInv, RecInv, Watched, Live, NoLostExit
<1> QED BY <1>1, Invariance, PTL

\* A live execution's lifecycle moves only forward, a drain is never left.
THEOREM LifecycleIsOrdered == Spec => LifecycleOrder
<1>1. IInv /\ [Next]_vars =>
        [\A e \in Execs :
           Live(e) => exec'[e].lifecycle \in Successors(exec[e].lifecycle)]_vars
  BY NextInv, Zenon DEF StepProps, StepOK, Live
<1> QED BY <1>1, Invariance, PTL DEF Spec, LifecycleOrder

\* Signals go only to a child that has not been reaped, SIGKILL only after
\* SIGTERM or an observed exit.
THEOREM SignalsAreOwned == Spec => OwnedSignalsOnly
<1>1. IInv /\ [Next]_vars =>
        [\A e \in Execs :
           Live(e) /\ exec'[e].sig # exec[e].sig =>
              /\ exec[e].child \in {"alive", "exited"}
              /\ exec'[e].sig = "kill" =>
                    exec[e].sig = "term" \/ exec[e].child = "exited"]_vars
  BY NextInv, Zenon DEF StepProps, StepOK, Live
<1> QED BY <1>1, Invariance, PTL DEF Spec, OwnedSignalsOnly

=============================================================================
