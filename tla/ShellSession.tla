---------------------------- MODULE ShellSession ----------------------------
(***************************************************************************)
(* One execution's shell integration: the prompt gate of the local shell,  *)
(* the overlay of a remote shell session inside a running command, the     *)
(* two-phase bootstrap that earns the session its trust, and the composer  *)
(* target derived from them (runtime/integration_state.rs,                 *)
(* session_overlay.rs, session_bootstrap.rs, shell_integration.rs,         *)
(* ssh_spawn.rs).                                                          *)
(*                                                                         *)
(* Every handler runs to completion on the Runtime thread, so an action is *)
(* one handler and `entry` is the execution's Entry record.  A handler is  *)
(* a composition of operators from entries to entries, in the order of the *)
(* calls in the code.                                                      *)
(***************************************************************************)
EXTENDS Naturals, Sequences, SequencesExt

CONSTANTS
  MaxBlock,     \* bound: command Blocks allocated in a behaviour
  MaxOffer,     \* bound: session offers made in a behaviour
  MaxQueued,    \* the execution's input limit, in messages
  MaxGeneration,\* largest target generation: the counter saturates there
  MaxBatch,     \* bound: markers parsed from one read
  SecretsFail,  \* whether drawing a secret from the system may fail
  WakesFail     \* whether waking the Runtime after a submission may fail

ASSUME ShellAssumption ==
  /\ MaxBlock \in Nat /\ MaxOffer \in Nat /\ MaxQueued \in Nat /\ MaxBatch \in Nat
  /\ MaxGeneration \in Nat \ {0}
  /\ SecretsFail \in BOOLEAN /\ WakesFail \in BOOLEAN

VARIABLE entry

-----------------------------------------------------------------------------
(* Integration state of one shell, local or remote.                        *)

NoBlock == 0
Blocks == 1..MaxBlock
At(phase) == [phase |-> phase, block |-> NoBlock]
Running(b) == [phase |-> "Running", block |-> b]
HasBlock(i) == i.phase = "Running" /\ i.block # NoBlock

OnNext(i, event) ==
  CASE i.phase = "Terminated" \/ event = "Ended" -> At("Terminated")
    [] event = "Prompt" -> At("AtPrompt")
    [] i.phase = "AtPrompt" /\ event \in {"Started", "Direct", "Alternate"} -> Running(NoBlock)
    [] i.phase = "Pending" /\ event \in {"Started", "Alternate"} -> Running(NoBlock)
    [] HasBlock(i) /\ event \in {"Started", "Finished"} -> Running(NoBlock)
    [] OTHER -> i

(* Variant: a command that starts while a Block runs does not complete it. *)
OnEffectLostFinish(i, event) ==
  CASE i.phase = "Pending" /\ event = "Started" -> "StartPendingBlock"
    [] i.phase = "Pending" /\ event \in {"Prompt", "Alternate", "Ended"} -> "DropPending"
    [] HasBlock(i) /\ event \in {"Prompt", "Finished", "Ended"} -> "Complete"
    [] OTHER -> "None"

OnEffect(i, event) ==
  CASE i.phase = "Pending" /\ event = "Started" -> "StartPendingBlock"
    [] i.phase = "Pending" /\ event \in {"Prompt", "Alternate", "Ended"} -> "DropPending"
    [] HasBlock(i) /\ event \in {"Prompt", "Started", "Finished", "Ended"} -> "Complete"
    [] OTHER -> "None"

(* A transition and its effects on the pending command and the timeline.  The *)
(* timeline always has room: completed Blocks are evicted to make some, and   *)
(* at most one Block of each scope is running.                                *)
Applied(i, pending, blocks, event) ==
  LET effect == OnEffect(i, event)
      starts == effect = "StartPendingBlock" /\ pending # NoBlock
  IN  [state   |-> IF starts THEN Running(pending) ELSE OnNext(i, event),
       pending |-> IF effect \in {"StartPendingBlock", "DropPending"} THEN NoBlock ELSE pending,
       blocks  |-> CASE starts -> [blocks EXCEPT ![pending] = "Running"]
                     [] effect = "Complete" /\ blocks[i.block] = "Running"
                          -> [blocks EXCEPT ![i.block] = "Completed"]
                     [] OTHER -> blocks]

ApplyLocal(e, event) ==
  LET r == Applied(e.shell, e.pending, e.blocks, event)
  IN  [e EXCEPT !.shell = r.state, !.pending = r.pending, !.blocks = r.blocks]

ApplySession(e, event) ==
  LET r == Applied(e.remote, e.remotePending, e.blocks, event)
  IN  [e EXCEPT !.remote = r.state, !.remotePending = r.pending, !.blocks = r.blocks]

-----------------------------------------------------------------------------
(* Session overlay of a host Block.                                        *)

Overlay(state, host, offer) == [state |-> state, host |-> host, offer |-> offer]
NoSession == Overlay("None", NoBlock, 0)
Rejected == Overlay("Rejected", NoBlock, 0)

CanSpawnArm(s) == s.state \in {"None", "Declined", "Failed", "Ended"}

OverlayOn(s, event, arg) ==
  CASE event = "MarkCandidate" /\ s.state \in {"None", "Declined", "Failed"}
         -> Overlay("Candidate", arg, 0)
    [] event = "Offer" /\ s.state = "Candidate" -> Overlay("Offered", s.host, arg)
    [] event = "Decline" /\ s.state = "Offered" -> Overlay("Declined", s.host, 0)
    [] event = "Accept" /\ s.state = "Offered" -> Overlay("Armed", s.host, s.offer)
    [] event = "SpawnArm" /\ CanSpawnArm(s) -> Overlay("SpawnArmed", arg, 0)
    [] event = "BeginDelivering" /\ s.state \in {"Armed", "SpawnArmed"}
         -> Overlay("Delivering", s.host, s.offer)
    [] event = "Trust" /\ s.state = "Delivering" -> Overlay("Trusted", s.host, 0)
    [] event = "Fail" /\ s.state \in {"Candidate", "Offered", "Armed", "Delivering", "SpawnArmed"}
         -> Overlay("Failed", s.host, 0)
    [] event = "End" /\ s.state = "Trusted" -> Overlay("Ended", s.host, 0)
    [] event = "Clear" /\ s.state \in {"Candidate", "Offered", "Declined",
                                       "SpawnArmed", "Failed", "Ended"} -> NoSession
    [] OTHER -> Rejected

HoldsDirectInput(s) == s.state \in {"Armed", "Delivering"}
Trusted(e) == e.session.state = "Trusted"

-----------------------------------------------------------------------------
(* Where composer input would go, and what clients are told of it.         *)

Innermost(e) == IF Trusted(e) THEN e.remote ELSE e.shell

InputTarget(i) ==
  CASE i.phase = "AtPrompt" -> [class |-> "TrustedShell", block |-> NoBlock]
    [] HasBlock(i) -> [class |-> "Foreground", block |-> i.block]
    [] OTHER -> [class |-> "None", block |-> NoBlock]

(* Variant: the target is always the local shell's. *)
NoteLocalTarget(e) ==
  LET target == InputTarget(e.shell)
  IN  [e EXCEPT !.target = target,
                !.generation = IF e.target = target \/ @ = MaxGeneration THEN @ ELSE @ + 1,
                !.held = HoldsDirectInput(e.session)]

NoteInputTarget(e) ==
  LET target == InputTarget(Innermost(e))
  IN  [e EXCEPT !.target = target,
                !.generation = IF e.target = target \/ @ = MaxGeneration THEN @ ELSE @ + 1,
                !.held = HoldsDirectInput(e.session)]

DeriveComposer(e) ==
  LET i == Innermost(e)
  IN  CASE HoldsDirectInput(e.session) -> "BootstrapHold"
        [] e.alternate -> "AlternateScreen"
        [] i.phase = "AtPrompt" -> "Submit"
        [] HasBlock(i) /\ (\/ Trusted(e)
                           \/ e.session.host = i.block /\ e.session.state \in {"Declined", "Failed"})
             -> "Relay"
        [] i.phase = "Running" /\ i.block = NoBlock -> "NoKnownBlock"
        [] i.phase = "Terminated" -> "Terminated"
        [] OTHER -> "NotAtPrompt"

ComposerEligibility(e) == e.io /\ e.shell.phase = "AtPrompt" /\ ~e.alternate

ComposerStatus(e) ==
  [mode |-> DeriveComposer(e), generation |-> e.generation, available |-> ComposerEligibility(e)]

NoStatus == [mode |-> "Unpublished", generation |-> 0, available |-> FALSE]

(* publish_composer_status_if_changed *)
Publish(e) == LET n == NoteInputTarget(e) IN [n EXCEPT !.published = ComposerStatus(n)]

-----------------------------------------------------------------------------
(* The execution's input queue: `channel` holds submitted messages the     *)
(* Runtime has not dispatched, `input` the dispatched, unwritten ones.     *)

DirectKinds == {"Direct", "DirectLine"}   \* DirectLine: ends a line or interrupts
Kinds == DirectKinds \cup {"Composer", "Bootstrap"}
Wakes == IF WakesFail THEN {"woken", "unwoken"} ELSE {"woken"}
Unwritten(e) == Len(e.channel) + Len(e.input)

(* Variant: the limit admits one message too many. *)
RefusesPastLimit(e, kind) ==
  ~e.io \/ Unwritten(e) > MaxQueued \/ (kind # "Bootstrap" /\ e.held)

Refuses(e, kind) == ~e.io \/ Unwritten(e) >= MaxQueued \/ (kind # "Bootstrap" /\ e.held)

Submit(e, kind) ==
  IF Refuses(e, kind) THEN e
  ELSE [e EXCEPT !.channel = Append(@, kind), !.typed = @ \/ kind \in DirectKinds]

(* try_submit_kind fails when it refuses, and also when the message is queued *)
(* but the Runtime could not be woken.                                        *)
SubmitFails(e, kind, wake) == Refuses(e, kind) \/ wake = "unwoken"

(* A payload or its padding: N bytes for the remote reader. *)
QueueN(e) == LET q == Submit(e, "Bootstrap")
             IN  IF Refuses(e, "Bootstrap") THEN q ELSE [q EXCEPT !.sentN = @ + 1]

-----------------------------------------------------------------------------
(* Closing a session.                                                      *)

(* Variant: a close pads whether or not the payload was queued. *)
CloseStepAlwaysPads(e, kind) ==
  CASE e.session.state = "Delivering" -> "FailPadded"
    [] e.session.state = "Armed" -> "Fail"
    [] e.session.state = "SpawnArmed" /\ kind = "Fail" -> "Fail"
    [] Trusted(e) /\ kind = "End" -> "End"
    [] e.session.state \in {"Candidate", "Offered", "SpawnArmed"} /\ kind = "End" -> "Clear"
    [] OTHER -> "Return"

CloseStep(e, kind) ==
  CASE e.session.state = "Delivering" /\ ~e.delivered -> "FailPadded"
    [] e.session.state \in {"Armed", "Delivering"} -> "Fail"
    [] e.session.state = "SpawnArmed" /\ kind = "Fail" -> "Fail"
    [] Trusted(e) /\ kind = "End" -> "End"
    [] e.session.state \in {"Candidate", "Offered", "SpawnArmed"} /\ kind = "End" -> "Clear"
    [] OTHER -> "Return"

(* Variant: the unused challenge survives the session. *)
ForgetButChallenge(e) ==
  [e EXCEPT !.secret = FALSE, !.remotePending = NoBlock, !.deadline = FALSE, !.delivered = FALSE]

ForgetSession(e) ==
  [e EXCEPT !.secret = FALSE, !.challenge = FALSE, !.remotePending = NoBlock,
            !.deadline = FALSE, !.delivered = FALSE]

(* Variant: a close is not published to clients. *)
CloseUnpublished(e, kind) ==
  LET step    == CloseStep(e, kind)
      padded  == IF step = "FailPadded" THEN QueueN(e) ELSE e
      applied == IF step = "Clear" THEN padded ELSE ApplySession(padded, "Ended")
      event   == IF step = "FailPadded" THEN "Fail" ELSE step
  IN  IF step = "Return" THEN e
      ELSE NoteInputTarget(ForgetSession([applied EXCEPT !.session = OverlayOn(@, event, 0)]))

CloseSession(e, kind) ==
  LET step    == CloseStep(e, kind)
      padded  == IF step = "FailPadded" THEN QueueN(e) ELSE e
      applied == IF step = "Clear" THEN padded ELSE ApplySession(padded, "Ended")
      event   == IF step = "FailPadded" THEN "Fail" ELSE step
  IN  IF step = "Return" THEN e
      ELSE Publish(ForgetSession([applied EXCEPT !.session = OverlayOn(@, event, 0)]))

-----------------------------------------------------------------------------
(* Candidates, hosts and orphans.                                          *)

ConsiderCandidate(e) ==
  IF /\ HasBlock(e.shell) /\ e.session.state = "None" /\ ~e.alternate
     /\ e.input = <<>> /\ e.pending = NoBlock
  THEN NoteInputTarget([e EXCEPT !.session = OverlayOn(@, "MarkCandidate", e.shell.block)])
  ELSE e

NoteHostStarted(e, b) ==
  LET other   == e.session.state \in {"Declined", "Failed", "Ended"} /\ e.session.host # b
      cleared == NoteInputTarget([e EXCEPT !.session = OverlayOn(@, "Clear", 0)])
  IN  ConsiderCandidate(IF other THEN cleared ELSE e)

EndOrphanedSpawn(e) ==
  IF /\ e.session.state = "SpawnArmed"
     /\ e.shell.phase # "Pending"
     /\ e.shell # Running(e.session.host)
  THEN CloseSession(e, "End")
  ELSE e

-----------------------------------------------------------------------------
(* Markers parsed from terminal output.                                    *)

Marks == {"Prompt", "Started", "Finished"}
Markers == [to : {"local", "session"}, mark : Marks] \cup [to : {"readiness"}, mark : {"Bash", "Zsh"}]

(* A prompt starts a fresh line in the shell that announced it. *)
FreshLine(e, mark) == IF mark = "Prompt" THEN [e EXCEPT !.typed = FALSE] ELSE e

(* Variant: a local marker leaves an offer standing. *)
LocalMarkerKeepsOffer(e, mark) ==
  LET active  == e.session.state \in {"Candidate", "Armed", "Delivering", "Trusted"}
      closed  == IF active THEN CloseSession(e, "End") ELSE e
      applied == ApplyLocal(closed, mark)
      hosted  == IF HasBlock(applied.shell) /\ applied.shell # closed.shell
                 THEN NoteHostStarted(applied, applied.shell.block)
                 ELSE applied
  IN  EndOrphanedSpawn(FreshLine(hosted, mark))

LocalMarker(e, mark) ==
  LET active  == e.session.state \in {"Candidate", "Offered", "Armed", "Delivering", "Trusted"}
      closed  == IF active THEN CloseSession(e, "End") ELSE e
      applied == ApplyLocal(closed, mark)
      hosted  == IF HasBlock(applied.shell) /\ applied.shell # closed.shell
                 THEN NoteHostStarted(applied, applied.shell.block)
                 ELSE applied
  IN  EndOrphanedSpawn(FreshLine(hosted, mark))

SessionMarker(e, mark) ==
  LET trusts  == e.session.state = "Delivering" /\ mark = "Prompt"
      trusted == IF trusts THEN [e EXCEPT !.session = OverlayOn(@, "Trust", 0), !.deadline = FALSE]
                 ELSE e
  IN  IF ~e.secret THEN e   \* no session secret: an untrusted marker
      ELSE Publish(IF Trusted(trusted) THEN FreshLine(ApplySession(trusted, mark), mark) ELSE e)

AcceptReadiness(e, shell, wake) ==
  LET spawn     == e.session.state = "SpawnArmed"
      used      == [e EXCEPT !.challenge = FALSE]
      delivered == NoteInputTarget([used EXCEPT !.session = OverlayOn(@, "BeginDelivering", 0),
                                                !.deadline = TRUE, !.sentN = 0])
      queued    == QueueN(delivered)
  IN  IF ~(e.session.state \in {"SpawnArmed", "Armed"} /\ e.challenge /\ e.secret) THEN e
      ELSE IF spawn /\ shell # "Bash" THEN CloseSession(used, "Fail")
      ELSE IF SubmitFails(delivered, "Bootstrap", wake) THEN CloseSession(queued, "Fail")
      ELSE Publish([queued EXCEPT !.delivered = TRUE])

Dispatch(e, m, wake) ==
  CASE m.to = "local" -> LocalMarker(e, m.mark)
    [] m.to = "session" -> SessionMarker(e, m.mark)
    [] m.to = "readiness" -> AcceptReadiness(e, m.mark, wake)

GateOpen(i) == i.phase \in {"AtPrompt", "Pending"}

(* observe_shell_integration_events, after a read: the batch of markers, then *)
(* the screen the read left the terminal on.                                  *)
Observe(batch, alternate, wake) ==
  LET read   == [entry EXCEPT !.alternate = alternate]
      seen   == FoldLeft(LAMBDA e, m : Dispatch(e, m, wake), read, batch)
      local  == IF alternate /\ GateOpen(seen.shell) THEN ApplyLocal(seen, "Alternate") ELSE seen
      remote == IF alternate /\ Trusted(local) /\ GateOpen(local.remote)
                THEN ApplySession(local, "Alternate") ELSE local
  IN  entry' = Publish(remote)

-----------------------------------------------------------------------------
(* Submissions.                                                            *)

SubmitDirect(kind) ==
  /\ ~Refuses(entry, kind)
  /\ entry' = Submit(entry, kind)

NextBlock(e) == e.lastBlock + 1

(* Variant: messages still in the control channel are overlooked. *)
EligibleBeforeDrain(e) ==
  e.shell.phase = "AtPrompt" /\ ~e.alternate /\ e.pending = NoBlock /\ e.input = <<>>

LocalEligible(e) ==
  e.shell.phase = "AtPrompt" /\ ~e.alternate /\ e.pending = NoBlock /\ Unwritten(e) = 0

SessionEligible(e) ==
  /\ Trusted(e) /\ e.remote.phase = "AtPrompt" /\ ~e.alternate
  /\ e.remotePending = NoBlock /\ Unwritten(e) = 0

SpawnArm(e, b) ==
  NoteInputTarget([e EXCEPT !.session = OverlayOn(@, "SpawnArm", b), !.secret = TRUE,
                            !.challenge = TRUE, !.deadline = FALSE, !.delivered = FALSE,
                            !.remote = At("Unproven"), !.remotePending = NoBlock])

LocalCommand(e, spawn) ==
  LET b    == NextBlock(e)
      held == [e EXCEPT !.lastBlock = b, !.pending = b, !.shell = At("Pending")]
  IN  Publish(NoteInputTarget(IF spawn THEN SpawnArm(held, b) ELSE held))

SessionCommand(e) ==
  LET b == NextBlock(e)
  IN  Publish([e EXCEPT !.lastBlock = b, !.remotePending = b, !.remote = At("Pending")])

(* A Composer message whose command leaves `accepted`; an error after it was *)
(* queued leaves no trace beyond the queued bytes.                           *)
Composed(e, eligible, wake, accepted) ==
  IF ~eligible \/ Refuses(e, "Composer") \/ e.lastBlock = MaxBlock THEN e
  ELSE IF wake = "unwoken" THEN Submit(e, "Composer")
  ELSE accepted

(* submit_composer_command_fenced with a current generation when fenced: a    *)
(* stale one is refused.  `ssh`: the command is an interactive ssh.           *)
SubmitComposer(fenced, ssh, wake) ==
  LET e     == NoteInputTarget(entry)
      mode  == DeriveComposer(e)
      spawn == fenced /\ ssh /\ CanSpawnArm(e.session)
      sent  == Submit(e, "Composer")
  IN  entry' = CASE HoldsDirectInput(e.session) \/ ~e.io -> e
                 [] fenced /\ mode = "Relay" -> Submit(e, "DirectLine")
                 [] fenced /\ mode \notin {"Relay", "Submit"} -> e
                 [] Trusted(e) -> Composed(e, SessionEligible(e), wake, SessionCommand(sent))
                 [] OTHER -> Composed(e, LocalEligible(e), wake, LocalCommand(sent, spawn))

(* drain_control for one message, and the writes it attempts: `n` messages *)
(* leave for the terminal.                                                 *)
DrainControl(n) ==
  LET kind     == Head(entry.channel)
      rest     == [entry EXCEPT !.channel = Tail(@)]
      queued   == [rest EXCEPT !.input = Append(@, kind)]
      noted    == IF kind \in DirectKinds THEN Publish(ApplyLocal(queued, "Direct")) ELSE queued
      edge     == IF kind = "DirectLine" THEN Publish(ConsiderCandidate(noted)) ELSE noted
  IN  /\ entry.channel # <<>>
      /\ IF entry.io
         THEN n <= Len(edge.input) /\ entry' = [edge EXCEPT !.input = SubSeq(@, n + 1, Len(@))]
         ELSE n = 0 /\ entry' = rest

ServiceWrites(n) ==
  /\ n \in 1..Len(entry.input)
  /\ entry' = [entry EXCEPT !.input = SubSeq(@, n + 1, Len(@))]

-----------------------------------------------------------------------------
(* Offers, consent and the ends of a session.                              *)

OfferSession(h) ==
  LET repeated  == entry.session.state = "Offered" /\ entry.session.host = h
      candidate == IF entry.session.state = "Candidate" /\ entry.session.host = h
                   THEN entry.session ELSE OverlayOn(entry.session, "MarkCandidate", h)
  IN  /\ entry.shell = Running(h) /\ h # NoBlock /\ ~entry.alternate
      /\ IF repeated THEN entry' = Publish(entry)
         ELSE /\ candidate # Rejected
              /\ entry.nextOffer <= MaxOffer
              /\ entry' = Publish(NoteInputTarget(
                   [entry EXCEPT !.session = OverlayOn(candidate, "Offer", entry.nextOffer),
                                 !.nextOffer = @ + 1]))

ConsentFence(h, offer) ==
  entry.session.host = h /\ entry.session.state \in {"Offered", "Armed", "Delivering"}
                         /\ entry.session.offer = offer

Decline(h, offer) ==
  /\ ConsentFence(h, offer)
  /\ OverlayOn(entry.session, "Decline", 0) # Rejected
  /\ entry' = ConsiderCandidate(Publish([entry EXCEPT !.session = OverlayOn(@, "Decline", 0)]))

(* begin_armed_bootstrap *)
Arm(e, wake) ==
  LET armed  == NoteInputTarget([e EXCEPT !.secret = TRUE, !.challenge = TRUE, !.deadline = TRUE,
                                          !.delivered = FALSE, !.remote = At("Unproven"),
                                          !.remotePending = NoBlock])
      queued == Submit(armed, "Bootstrap")
  IN  IF SubmitFails(armed, "Bootstrap", wake) THEN CloseSession(queued, "Fail")
      ELSE Publish(queued)

Accept(h, offer, drawn, wake) ==
  LET accepted == [entry EXCEPT !.session = OverlayOn(@, "Accept", 0)]
  IN  /\ ConsentFence(h, offer)
      /\ accepted.session # Rejected
      /\ entry' = IF drawn THEN ConsiderCandidate(Arm(accepted, wake)) ELSE accepted

ExpireBootstrap ==
  /\ entry.deadline
  /\ entry' = CloseSession(entry, "Fail")

AbortOnDetach ==
  /\ HoldsDirectInput(entry.session)
  /\ entry' = CloseSession(entry, "Fail")

Attach == entry' = ConsiderCandidate(entry)

(* request_termination: input stops before the shell is known to be gone. *)
RequestTermination == entry.io /\ entry' = [entry EXCEPT !.io = FALSE, !.input = <<>>]

(* mark_terminal_io_closed: the terminal reached its end. *)
ExecutionEnds ==
  LET closed == CloseSession([entry EXCEPT !.io = FALSE, !.input = <<>>], "End")
  IN  entry' = Publish(ApplyLocal(closed, "Ended"))

-----------------------------------------------------------------------------
Init ==
  entry = [shell |-> At("Unproven"), pending |-> NoBlock, session |-> NoSession,
           remote |-> At("Unproven"), remotePending |-> NoBlock,
           secret |-> FALSE, challenge |-> FALSE, deadline |-> FALSE, delivered |-> FALSE,
           target |-> InputTarget(At("Unproven")), generation |-> 1, held |-> FALSE,
           published |-> NoStatus,
           alternate |-> FALSE, io |-> TRUE, channel |-> <<>>, input |-> <<>>,
           blocks |-> [b \in Blocks |-> "Unstarted"], lastBlock |-> NoBlock, nextOffer |-> 1,
           typed |-> FALSE, sentN |-> 0]

Batches == UNION {[1..n -> Markers] : n \in 0..MaxBatch}

Next ==
  \/ \E batch \in Batches, alternate \in BOOLEAN, wake \in Wakes : Observe(batch, alternate, wake)
  \/ \E kind \in DirectKinds : SubmitDirect(kind)
  \/ \E fenced, ssh \in BOOLEAN, wake \in Wakes : SubmitComposer(fenced, ssh, wake)
  \/ \E n \in 0..MaxQueued : DrainControl(n)
  \/ \E n \in 1..MaxQueued : ServiceWrites(n)
  \/ \E h \in Blocks : OfferSession(h)
  \/ \E h \in Blocks, offer \in 1..MaxOffer : Decline(h, offer)
  \/ \E h \in Blocks, offer \in 1..MaxOffer, drawn \in IF SecretsFail THEN BOOLEAN ELSE {TRUE},
        wake \in Wakes : Accept(h, offer, drawn, wake)
  \/ ExpireBootstrap
  \/ AbortOnDetach
  \/ Attach
  \/ RequestTermination
  \/ ExecutionEnds

Spec == Init /\ [][Next]_entry

-----------------------------------------------------------------------------
(* Properties.                                                             *)

Integrations == [phase : {"Unproven", "AtPrompt", "Pending", "Running", "Terminated"},
                 block : 0..MaxBlock]
OverlayStates == {"None", "Candidate", "Offered", "Declined", "Armed", "Delivering",
                  "SpawnArmed", "Trusted", "Failed", "Ended"}
Modes == {"BootstrapHold", "AlternateScreen", "Submit", "Relay", "NoKnownBlock", "Terminated",
          "NotAtPrompt", "Unpublished"}

(* Type invariant of the Entry fields the handlers work on: Blocks are known *)
(* to the timeline, the queue respects its limit, and no overlay is ever the *)
(* outcome of a rejected transition.                                         *)
TypeOK ==
  /\ entry.shell \in Integrations /\ entry.remote \in Integrations
  /\ entry.pending \in 0..entry.lastBlock /\ entry.remotePending \in 0..entry.lastBlock
  /\ entry.lastBlock \in 0..MaxBlock
  /\ entry.session \in [state : OverlayStates, host : 0..entry.lastBlock, offer : 0..MaxOffer]
  /\ entry.secret \in BOOLEAN /\ entry.challenge \in BOOLEAN
  /\ entry.deadline \in BOOLEAN /\ entry.delivered \in BOOLEAN /\ entry.held \in BOOLEAN
  /\ entry.target \in [class : {"None", "TrustedShell", "Foreground"}, block : 0..MaxBlock]
  /\ entry.generation \in 1..MaxGeneration /\ entry.nextOffer \in 1..(MaxOffer + 1)
  /\ entry.published \in [mode : Modes, generation : 0..MaxGeneration, available : BOOLEAN]
  /\ entry.alternate \in BOOLEAN /\ entry.io \in BOOLEAN /\ entry.typed \in BOOLEAN
  /\ entry.channel \in Seq(Kinds) /\ entry.input \in Seq(Kinds) /\ Unwritten(entry) <= MaxQueued
  /\ entry.blocks \in [Blocks -> {"Unstarted", "Running", "Completed"}]
  /\ entry.sentN \in Nat

(* Between handlers the ingress hold flag, the secrets, the one-time challenge *)
(* and the deadline are exactly those the overlay calls for: direct input is   *)
(* held while a bootstrap is in flight and only then, K is gone once used, S   *)
(* outlives neither a failed nor an ended session, and no bootstrap that holds *)
(* input is without a deadline (ADR-026 3.2 rule 7, 6.1, 6.2).                 *)
OverlayOwnsBootstrap ==
  LET state == entry.session.state
  IN  /\ entry.held <=> state \in {"Armed", "Delivering"}
      /\ entry.deadline <=> state \in {"Armed", "Delivering"}
      /\ entry.challenge <=> state \in {"Armed", "SpawnArmed"}
      /\ entry.secret <=> state \in {"Armed", "SpawnArmed", "Delivering", "Trusted"}
      /\ entry.delivered <=> state \in {"Delivering", "Trusted"}

(* A session offered to, or armed by, the user lives only while the host Block *)
(* it was offered for is the command the local shell is running, and no        *)
(* session is being delivered to or trusted once the local shell is back at    *)
(* its own prompt or gone.                                                     *)
SessionFollowsHost ==
  /\ \/ entry.session.state \in {"Candidate", "Offered", "Armed"}
     \/ entry.session.state = "Delivering" /\ entry.session.offer # 0
     => entry.shell = Running(entry.session.host)
  /\ entry.session.state \in {"Delivering", "Trusted"} => entry.shell.phase \in {"Pending", "Running"}

(* A composer command is pending exactly while its shell's state is Pending,   *)
(* and a Block is Running in the timeline exactly when it is the Block of a    *)
(* running shell command: none is left Running without an owner.               *)
BlocksHaveOwners ==
  /\ entry.shell.phase = "Pending" <=> entry.pending # NoBlock
  /\ entry.remote.phase = "Pending" <=> entry.remotePending # NoBlock
  /\ {b \in Blocks : entry.blocks[b] = "Running"}
       = {entry.shell.block, entry.remote.block} \ {NoBlock}

(* The local composer is eligible only on a fresh prompt line: no direct input *)
(* was admitted, queued or not, since the shell announced the prompt, so a     *)
(* composer command is never appended to bytes the user typed (mechanism 5).   *)
LocalPromptIsFresh == entry.io /\ LocalEligible(entry) /\ ~Trusted(entry) => ~entry.typed

(* While the terminal takes input, what clients were last told about the       *)
(* composer is what Runtime would decide now: every handler that moves the     *)
(* target, the mode or the eligibility publishes it before it returns.         *)
PublishedStatusIsCurrent ==
  entry.io /\ entry.published # NoStatus => entry.published = ComposerStatus(entry)

(* From readiness on, at most one block of N bytes, payload or padding, is     *)
(* queued for the remote reader, and a session is trusted only after one.      *)
ExactlyNBytes ==
  /\ entry.sentN <= 1
  /\ Trusted(entry) => entry.sentN = 1

Destination(e) ==
  IF InputTarget(Innermost(e)).class = "None" THEN <<>>
  ELSE <<IF Trusted(e) THEN "session" ELSE "local", InputTarget(Innermost(e))>>

(* A target generation names one destination: while the generation stands, a   *)
(* submission fenced by it cannot move from the local shell to the remote one, *)
(* from a shell to a foreground program, or from one Block to another.  It     *)
(* holds up to the saturation of the 64-bit counter.                           *)
GenerationNamesDestination ==
  [][entry'.generation = entry.generation /\ entry.generation < MaxGeneration
       => Destination(entry') = Destination(entry)]_entry

(* The remote shell's prompt gate is its own mechanism-5 state, so the session *)
(* composer, too, must be eligible only on a fresh prompt line.                *)
SessionPromptIsFresh == entry.io /\ SessionEligible(entry) => ~entry.typed

=============================================================================
