------------------------- MODULE AttachmentOutbound -------------------------
(***************************************************************************)
(* The outbound side of one negotiated local connection: the queues that   *)
(* several attachments share (local_ipc/connection/outbound.rs), the       *)
(* writer that flushes them into one byte stream (attachment_outbound.rs)  *)
(* and the Runtime handlers that fill them (runtime/local).                *)
(*                                                                         *)
(* A socket accepts some number of bytes (credit) per writable event, so a *)
(* frame may be left half written.  Frames all have FrameBytes bytes.      *)
(* Every attachment views an execution of its own.  The fields open, cut,  *)
(* client, gaps and lost describe what the peer sees; the code has none.   *)
(***************************************************************************)
EXTENDS Naturals, Sequences, SequencesExt, FiniteSetsExt, TLC

CONSTANTS
    Atts,           \* attachment identifiers, each used once
    None,           \* Option::None
    MaxGeneration,  \* bound: display generations per execution
    MaxSequence,    \* bound: resume sequences
    MaxQueueBytes,  \* MAX_OUTBOUND_QUEUE_BYTES
    MaxIdBytes,     \* MAX_VIEWPORT_LINE_IDS_QUEUE_BYTES
    MaxCredit,      \* bound: bytes one writable event accepts
    MaxRequests,    \* bound: handler calls that touch the connection
    LineIds,        \* was CAP_VIEWPORT_LINE_IDS negotiated?
    BudgetSpent     \* may other attachments use up the resync budget?

FrameBytes == 2

\* Frames of a display batch (into_transport_batches).
Frames(kind) == IF kind = "snapshot" THEN 2 ELSE 1

VARIABLES
    c,        \* the Connection and its stream
    view,     \* [Atts -> what the Runtime knows of an attachment]
    requests  \* handler calls so far

vars == <<c, view, requests>>

-----------------------------------------------------------------------------
(* Connection, AttachmentPresentationSlot, OutboundItem, DisplayItem. *)

NoQueue == [items |-> <<>>, sent |-> 0]
NoBatch == [kind |-> None, gen |-> 0, base |-> 0, seq |-> 0]
Idle == [batch |-> NoBatch, left |-> 0, sent |-> 0]

NewSlot ==
    [inflight |-> Idle, pending |-> NoBatch, gen |-> 0,
     pin |-> FALSE, deferred |-> NoBatch,
     ids |-> None, nextIds |-> None, after |-> NoQueue,
     drop |-> FALSE, remove |-> FALSE, retire |-> FALSE]

InFlight(s) == s.inflight # Idle
HasDisplay(s) == InFlight(s) \/ s.pending # NoBatch

Closed(k) == [k EXCEPT !.closed = TRUE]

Init ==
    /\ c = [mandatory |-> NoQueue, after |-> NoQueue,
            controlBytes |-> 0, idBytes |-> 0,
            slots |-> <<>>, order |-> <<>>,
            partialDisplay |-> None, partialAfter |-> None, last |-> None,
            closed |-> FALSE, credit |-> 0, go |-> TRUE,
            open |-> None, cut |-> {}, gaps |-> {}, lost |-> {},
            client |-> [a \in Atts |->
               [attached |-> FALSE, gen |-> 0, seq |-> 0]]]
    /\ view = [a \in Atts |->
                 [phase |-> "fresh", delivering |-> FALSE, seq |-> 0,
                  canon |-> 1, published |-> 0, announced |-> 0,
                  resync |-> FALSE]]
    /\ requests = 0

Remaining(q) == FrameBytes * Len(q.items) - q.sent
IdsRemaining(i) == IF i = None THEN 0 ELSE FrameBytes - i.sent

\* presentation_slot: get, or insert at the end of the order.
WithSlot(k, a) ==
    IF a \in DOMAIN k.slots THEN k
    ELSE [k EXCEPT !.slots = (a :> NewSlot) @@ @,
                   !.order = Append(@, a)]

\* Variant: the order keeps the removed attachment.
WithoutSlotInOrder(k, a) ==
    [k EXCEPT !.slots = [b \in DOMAIN @ \ {a} |-> @[b]]]

\* presentation_slots.remove and presentation_order.retain.
WithoutSlot(k, a) ==
    [k EXCEPT !.slots = [b \in DOMAIN @ \ {a} |-> @[b]],
              !.order = SelectSeq(@, LAMBDA b : b # a)]

-----------------------------------------------------------------------------
(* Enqueueing. *)

\* enqueue_control: over capacity the send fails and the Runtime closes the
\* connection.
Push(k, field, item) ==
    IF k.controlBytes + FrameBytes > MaxQueueBytes THEN Closed(k)
    ELSE [k EXCEPT ![field].items = Append(@, item),
                   !.controlBytes = @ + FrameBytes]

PushMandatory(k, item) == Push(k, "mandatory", item)

PushAfter(k) == Push(k, "after", "status")

\* enqueue_attachment_after_display
PushSlotAfter(k, a) ==
    IF k.controlBytes + FrameBytes > MaxQueueBytes THEN Closed(k)
    ELSE [WithSlot(k, a) EXCEPT !.slots[a].after.items = Append(@, "meta"),
                                !.controlBytes = @ + FrameBytes]

IdsStarted(s) == s.ids # None /\ s.ids.sent > 0

\* enqueue_attachment_viewport_line_ids: replace the waiting vector, or the
\* one behind a half-written frame; over capacity the new one is dropped.
PushIds(k, a, gen, seq) ==
    LET j == WithSlot(k, a)
        s == j.slots[a]
        new == [gen |-> gen, seq |-> seq, sent |-> 0]
        old == IdsRemaining(IF IdsStarted(s) THEN s.nextIds ELSE s.ids)
        total == j.idBytes - old + FrameBytes
    IN IF ~LineIds \/ total > MaxIdBytes THEN k
       ELSE IF IdsStarted(s)
            THEN [j EXCEPT !.slots[a].nextIds = new, !.idBytes = total]
            ELSE [j EXCEPT !.slots[a].ids = new, !.idBytes = total]

\* Variant: the attach snapshot may be superseded before it is in flight.
PushSnapshotUnpinned(k, a, b) ==
    [WithSlot(k, a) EXCEPT !.slots[a].gen = b.gen, !.slots[a].pending = b]

\* queue_attachment_snapshot: behind an attach pin it only waits.
PushSnapshot(k, a, b) ==
    LET j == WithSlot(k, a) IN
    IF j.slots[a].pin THEN [j EXCEPT !.slots[a].deferred = b]
    ELSE [j EXCEPT !.slots[a].gen = b.gen, !.slots[a].pending = b]

\* enqueue_attachment_attach_transaction
PushAttach(k, a, b) ==
    LET j == PushMandatory(k, a) IN
    IF j.closed THEN j
    ELSE [WithSlot(j, a) EXCEPT !.slots[a].gen = b.gen,
                                !.slots[a].pending = b,
                                !.slots[a].pin = TRUE]

\* has_attachment_snapshot_delivery
SnapshotActive(k, a) ==
    /\ a \in DOMAIN k.slots
    /\ \/ k.slots[a].inflight.batch.kind = "snapshot"
       \/ k.slots[a].pending.kind = "snapshot"

Snapshot(a, v) ==
    [kind |-> "snapshot", gen |-> v.canon, base |-> 0, seq |-> v.seq]

Delta(a, v) ==
    [kind |-> "delta", gen |-> v.canon, base |-> v.published, seq |-> v.seq]

-----------------------------------------------------------------------------
(* Dropping. *)

\* Variant: a half-written frame is thrown away with the rest.
DropAtOnce(k, a) ==
    IF a \notin DOMAIN k.slots THEN k
    ELSE LET s == k.slots[a] IN
         [k EXCEPT !.idBytes = @ - IdsRemaining(s.ids)
                                 - IdsRemaining(s.nextIds),
                   !.slots[a].pending = NoBatch,
                   !.slots[a].inflight = Idle,
                   !.slots[a].ids = None,
                   !.slots[a].nextIds = None,
                   !.slots[a].pin = FALSE,
                   !.slots[a].deferred = NoBatch]

\* Variant: a dropped type-35 frame stays on the account.
DropUncounted(k, a) ==
    IF a \notin DOMAIN k.slots THEN k
    ELSE LET s == k.slots[a]
             busy == s.inflight.sent > 0 \/ IdsStarted(s)
         IN [k EXCEPT !.slots[a] =
               [s EXCEPT !.pending = NoBatch, !.drop = @ \/ busy,
                         !.inflight = IF busy THEN @ ELSE Idle,
                         !.ids = IF IdsStarted(s) THEN @ ELSE None,
                         !.nextIds = None, !.pin = FALSE,
                         !.deferred = IF s.pin THEN NoBatch ELSE @]]

\* drop_attachment_presentation, on suspend and on resume: a half-written
\* frame stays and marks the slot, everything not started goes.
DropPresentation(k, a) ==
    IF a \notin DOMAIN k.slots THEN k
    ELSE LET s == k.slots[a]
             busy == s.inflight.sent > 0 \/ IdsStarted(s)
             ids == IF IdsStarted(s) THEN s.ids ELSE None
         IN [k EXCEPT !.idBytes = @ + IdsRemaining(ids) - IdsRemaining(s.ids)
                                    - IdsRemaining(s.nextIds),
                      !.slots[a] =
                        [s EXCEPT !.pending = NoBatch,
                                  !.drop = @ \/ busy,
                                  !.inflight = IF busy THEN @ ELSE Idle,
                                  !.ids = ids,
                                  !.nextIds = None,
                                  !.pin = FALSE,
                                  !.deferred = IF s.pin THEN NoBatch ELSE @]]

\* remove_attachment_presentation, on detach.
RemovePresentation(k, a) ==
    IF a \notin DOMAIN k.slots THEN k
    ELSE LET s == k.slots[a]
             started == s.after.sent > 0
             busy == s.inflight.sent > 0 \/ IdsStarted(s) \/ started
             ids == IF IdsStarted(s) THEN s.ids ELSE None
             after == IF started
                      THEN [s.after EXCEPT !.items = <<Head(@)>>] ELSE NoQueue
             j == [k EXCEPT
                     !.idBytes = @ + IdsRemaining(ids) - IdsRemaining(s.ids)
                                   - IdsRemaining(s.nextIds),
                     !.controlBytes = @ + Remaining(after)
                                        - Remaining(s.after)]
             Unless(b) == IF b = a THEN None ELSE b
         IN IF busy
            THEN [j EXCEPT !.slots[a] =
                    [s EXCEPT !.remove = TRUE, !.drop = TRUE,
                              !.pending = NoBatch, !.ids = ids,
                              !.nextIds = None, !.after = after]]
            ELSE [WithoutSlot(j, a) EXCEPT
                    !.partialDisplay = Unless(@),
                    !.partialAfter = Unless(@),
                    !.last = Unless(@)]

-----------------------------------------------------------------------------
(* The writer.  go turns FALSE where flush_attachment_outbound returns. *)

Fits(k, bytes) == IF bytes <= k.credit THEN bytes ELSE k.credit

\* n bytes of label's frame reach the stream; sent of them were there before.
\* A frame that is open and does not continue is cut.
Put(k, label, sent, n, openAfter) ==
    IF n = 0 THEN k
    ELSE [k EXCEPT
            !.credit = @ - n,
            !.cut = IF k.open = None \/ (sent > 0 /\ k.open = label)
                    THEN @ ELSE @ \cup {k.open},
            !.open = IF openAfter THEN label ELSE None]

\* Whole queues of control frames (flush_mandatory; the last loop).
FlushQueue(k, field) ==
    LET q == k[field]
        n == Fits(k, Remaining(q))
        sent == (q.sent + n) % FrameBytes
        done == (q.sent + n) \div FrameBytes
    IN [Put(k, <<field>>, q.sent, n, sent > 0) EXCEPT
          ![field] = [items |-> SubSeq(q.items, done + 1, Len(q.items)),
                      sent |-> sent],
          !.controlBytes = @ - n,
          !.client = [a \in Atts |->
             IF \E i \in 1..done : q.items[i] = a
             THEN [@[a] EXCEPT !.attached = TRUE] ELSE @[a]],
          !.go = done = Len(q.items)]

FlushMandatory(k) == IF k.go THEN FlushQueue(k, "mandatory") ELSE k

\* Nothing is left that would keep a retired or removed slot.
SlotDrained(s) ==
    ~HasDisplay(s) /\ s.ids = None /\ s.nextIds = None
    /\ s.after.items = <<>>

\* flush_one_attachment_after_display
FlushSlotAfter(k, a) ==
    IF a \notin DOMAIN k.slots \/ k.slots[a].after.items = <<>>
    THEN [k EXCEPT !.partialAfter = None]
    ELSE IF HasDisplay(k.slots[a]) /\ k.slots[a].after.sent = 0 THEN k
    ELSE LET q == k.slots[a].after
             n == Fits(k, FrameBytes - q.sent)
             done == q.sent + n = FrameBytes
             j == [Put(k, <<"after", a>>, q.sent, n, ~done) EXCEPT
                     !.controlBytes = @ - n]
             rest == [items |-> Tail(q.items), sent |-> 0]
             popped == [j EXCEPT !.slots[a].after = rest,
                                 !.partialAfter = None, !.last = a]
             t == popped.slots[a]
         IN IF done
            THEN IF (t.retire \/ t.remove) /\ SlotDrained(t)
                 THEN WithoutSlot(popped, a) ELSE popped
            ELSE [j EXCEPT !.slots[a].after.sent = @ + n,
                           !.partialAfter = a, !.go = FALSE]

\* Attachments in round-robin order, after the one served last.
Rotation(k) ==
    LET n == Len(k.order)
        here == {i \in 1..n : k.order[i] = k.last}
        start == IF here = {} THEN 0 ELSE CHOOSE i \in here : TRUE
    IN [i \in 1..n |-> k.order[((start + i - 1) % n) + 1]]

FirstOf(q, P(_)) ==
    LET hits == SelectSeq(q, P) IN IF hits = <<>> THEN None ELSE Head(hits)

\* next_ready_after_display_attachment
NextReady(k) ==
    FirstOf(Rotation(k),
            LAMBDA a : /\ ~HasDisplay(k.slots[a])
                       /\ k.slots[a].after.items # <<>>)

\* next_attachment_to_write
NextToWrite(k) ==
    IF k.partialDisplay # None THEN k.partialDisplay
    ELSE FirstOf(Rotation(k),
                 LAMBDA a : HasDisplay(k.slots[a]) \/ k.slots[a].ids # None)

\* The peer has a whole batch: a delta must start where the peer stands.
Received(k, a, b) ==
    IF b.kind = "delta"
       /\ (k.client[a].gen # b.base \/ k.client[a].seq # b.seq)
    THEN [k EXCEPT !.gaps = @ \cup {a}]
    ELSE [k EXCEPT !.client[a].gen = b.gen, !.client[a].seq = b.seq]

\* Variant: the frame behind the finished vector waits for no one.
FlushIdsLosingNext(k, a) ==
    LET i == k.slots[a].ids
        n == Fits(k, FrameBytes - i.sent)
        done == i.sent + n = FrameBytes
        j == [Put(k, <<"ids", a>>, i.sent, n, ~done) EXCEPT
                !.idBytes = @ - n, !.go = FALSE]
    IN IF n = 0 THEN j
       ELSE IF ~done
       THEN [j EXCEPT !.slots[a].ids.sent = @ + n, !.partialDisplay = a]
       ELSE [j EXCEPT !.slots[a].ids = None,
                      !.partialDisplay = None, !.last = a]

\* One write of the slot's type-35 frame; the writer returns after it.
FlushIds(k, a) ==
    LET i == k.slots[a].ids
        n == Fits(k, FrameBytes - i.sent)
        done == i.sent + n = FrameBytes
        j == [Put(k, <<"ids", a>>, i.sent, n, ~done) EXCEPT
                !.idBytes = @ - n, !.go = FALSE]
    IN IF n = 0 THEN j
       ELSE IF ~done
       THEN [j EXCEPT !.slots[a].ids.sent = @ + n, !.partialDisplay = a]
       ELSE [j EXCEPT !.slots[a].ids = k.slots[a].nextIds,
                      !.slots[a].nextIds = None,
                      !.partialDisplay = None, !.last = a]

\* The same for a frame that was half written: when it is complete, the marks
\* that drop_ and remove_attachment_presentation left are obeyed.
FinishIds(k, a) ==
    LET j == FlushIds(k, a)
        s == j.slots[a]
        t == IF s.drop THEN [s EXCEPT !.inflight = Idle, !.pending = NoBatch,
                                      !.nextIds = None, !.drop = FALSE]
             ELSE s
        m == [j EXCEPT !.slots[a] = t,
                       !.idBytes = @ - IdsRemaining(s.nextIds)
                                     + IdsRemaining(t.nextIds),
                       !.lost = IF s.drop /\ s.pending # NoBatch
                                THEN @ \cup {a} ELSE @]
    IN IF Fits(k, FrameBytes) + k.slots[a].ids.sent < FrameBytes THEN j
       ELSE IF t.remove /\ ~HasDisplay(t) /\ t.ids = None /\ t.nextIds = None
       THEN WithoutSlot(m, a) ELSE m

\* The pending batch goes in flight; a snapshot deferred behind the attach
\* snapshot becomes pending, unless it repeats its generation.
Promote(s) ==
    [s EXCEPT !.inflight = [batch |-> s.pending,
                            left |-> Frames(s.pending.kind), sent |-> 0],
              !.pending = IF s.deferred.gen = s.pending.gen THEN NoBatch
                          ELSE s.deferred,
              !.deferred = NoBatch,
              !.pin = FALSE]

\* One write of the display batch in flight; between two frames control may
\* pass, and a marked slot is dropped or removed.
FlushFrame(k, a) ==
    LET s == IF InFlight(k.slots[a]) THEN k.slots[a] ELSE Promote(k.slots[a])
        f == s.inflight
        n == Fits(k, FrameBytes - f.sent)
        done == f.sent + n = FrameBytes
        j == Put(k, <<"display", a>>, f.sent, n, ~done)
        last == f.left = 1
        t == [s EXCEPT !.inflight = IF last \/ s.drop THEN Idle
                                    ELSE [@ EXCEPT !.left = @ - 1, !.sent = 0],
                       !.drop = FALSE]
        gone == t.remove /\ ~InFlight(t)
        m == [(IF last THEN Received(j, a, f.batch) ELSE j) EXCEPT
                !.slots[a] = [t EXCEPT !.remove = @ /\ ~gone],
                !.partialDisplay = None, !.last = a]
        r == FlushMandatory(m)
    IN IF ~done
       THEN [j EXCEPT !.slots[a] = [s EXCEPT !.inflight.sent = @ + n],
                      !.partialDisplay = IF n = 0 THEN @ ELSE a,
                      !.go = FALSE]
       ELSE IF gone /\ r.go THEN WithoutSlot(r, a) ELSE r

\* One turn of the loop for attachment a.
WriteSlot(k, a) ==
    LET s == k.slots[a] IN
    IF IdsStarted(s) THEN FinishIds(k, a)
    ELSE IF HasDisplay(s) THEN FlushFrame(k, a)
    ELSE IF s.ids # None THEN FlushIds(k, a)
    ELSE k

\* The loop; turns bounds it (an exhausted bound leaves work behind).
RECURSIVE WriteSlots(_, _)
WriteSlots(k, turns) ==
    LET a == NextToWrite(k) IN
    IF ~k.go \/ a = None \/ turns = 0 THEN k
    ELSE IF a \notin DOMAIN k.slots
    THEN WriteSlots([k EXCEPT !.partialDisplay = None], turns - 1)
    ELSE WriteSlots(WriteSlot(k, a), turns - 1)

FinishMandatory(k) == IF k.mandatory.sent > 0 THEN FlushMandatory(k) ELSE k

\* A half-written metadata frame of an attachment comes first.
FinishSlotAfter(k) ==
    IF ~k.go \/ k.partialAfter = None THEN k
    ELSE LET j == FlushSlotAfter(k, k.partialAfter) IN
         IF j.go THEN FlushMandatory([j EXCEPT !.partialAfter = None]) ELSE j

\* Metadata of an attachment whose own display has drained.
ReadySlotAfter(k) ==
    LET a == NextReady(k) IN
    IF ~k.go \/ k.partialDisplay # None \/ a = None THEN k
    ELSE LET j == FlushSlotAfter(k, a) IN
         IF j.go THEN FlushMandatory(j) ELSE [j EXCEPT !.partialAfter = a]

\* Retired slots that have drained are removed.
Retire(k) ==
    LET old == {a \in DOMAIN k.slots :
                  k.slots[a].retire /\ SlotDrained(k.slots[a])}
    IN [k EXCEPT !.slots = [b \in DOMAIN @ \ old |-> @[b]],
                 !.order = SelectSeq(@, LAMBDA b : b \notin old)]

\* Connection-scoped metadata, once no attachment has display work.
FlushAfter(k) ==
    LET j == IF k.go THEN Retire(k) ELSE k IN
    IF ~j.go \/ \E a \in DOMAIN j.slots : HasDisplay(j.slots[a]) THEN j
    ELSE FlushQueue(j, "after")

MaxTurns == 16

\* flush_attachment_outbound
FlushAttachments(k) ==
    LET m == FinishSlotAfter(FinishMandatory(k))
        r == IF m.partialDisplay = None THEN FlushMandatory(m) ELSE m
    IN FlushAfter(FlushMandatory(WriteSlots(ReadySlotAfter(r), MaxTurns)))

\* flush_outbound, which serves a connection without slots: it finishes a
\* half-written metadata frame before any control frame.
FlushWithoutSlots(k) ==
    LET m == FinishMandatory(k)
        one == IF m.go /\ m.after.sent > 0
               THEN FlushQueue([m EXCEPT !.after.items = <<Head(@)>>], "after")
               ELSE m
        r == IF m.after.sent > 0 /\ m.go
             THEN [one EXCEPT !.after.items = @ \o Tail(m.after.items)] ELSE one
        q == FlushMandatory(r)
    IN IF q.go THEN FlushQueue(q, "after") ELSE q

\* service_write
Service(k, credit) ==
    LET j == [k EXCEPT !.credit = credit, !.go = TRUE]
        r == IF DOMAIN j.slots = {} THEN FlushWithoutSlots(j)
             ELSE FlushAttachments(j)
    IN [r EXCEPT !.credit = 0, !.go = TRUE]

\* wants_write
WantsWrite(k) ==
    \/ k.mandatory.items # <<>> \/ k.after.items # <<>>
    \/ \E a \in DOMAIN k.slots :
          \/ HasDisplay(k.slots[a]) \/ k.slots[a].ids # None
          \/ k.slots[a].after.items # <<>>

-----------------------------------------------------------------------------
(* The Runtime's handlers. *)

Live(a) == ~c.closed /\ view[a].phase = "live"

\* The bound on handler calls.
Request == requests < MaxRequests /\ requests' = requests + 1

\* handle_attach: Attached and its snapshot are admitted together, the
\* composer status behind all display work.
Attach(a) ==
    /\ ~c.closed /\ Request
    /\ view[a].phase = "fresh"
    /\ LET v == [view[a] EXCEPT !.phase = "live", !.delivering = TRUE,
                                !.published = view[a].canon,
                                !.announced = view[a].canon]
           j == PushAttach(c, a, Snapshot(a, v))
       IN /\ view' = [view EXCEPT ![a] = v]
          /\ c' = IF j.closed THEN j
                  ELSE PushAfter(PushIds(j, a, v.canon, v.seq))

\* Any reply or broadcast that is mandatory output.
Control ==
    /\ ~c.closed /\ Request
    /\ c' = PushMandatory(c, "control")
    /\ UNCHANGED view

\* handle_delivery_control, SuspendDelivery
Suspend(a) ==
    /\ Live(a) /\ Request
    /\ view[a].delivering
    /\ c' = DropPresentation(c, a)
    /\ view' = [view EXCEPT ![a].delivering = FALSE, ![a].resync = FALSE]

\* handle_delivery_control, ResumeDelivery with a greater sequence, from a
\* suspended or a delivering attachment.
Resume(a) ==
    /\ Live(a) /\ Request
    /\ view[a].seq < MaxSequence
    /\ c' = DropPresentation(c, a)
    /\ view' = [view EXCEPT ![a].delivering = TRUE, ![a].resync = TRUE,
                            ![a].seq = @ + 1]

\* handle_resync
Resync(a) ==
    /\ Live(a) /\ Request
    /\ view[a].delivering
    /\ view' = [view EXCEPT ![a].resync = TRUE]
    /\ UNCHANGED c

\* service_pending_resyncs for one attachment, unless a snapshot of it is
\* still queued or the budget of this poll is spent.
ServiceResync(k, a, v, spent) ==
    IF ~v.resync \/ ~v.delivering \/ SnapshotActive(k, a) \/ spent
    THEN [conn |-> k, view |-> v]
    ELSE [conn |-> PushIds(PushSnapshot(k, a, Snapshot(a, v)), a,
                           v.canon, v.seq),
          view |-> [v EXCEPT !.resync = FALSE, !.published = v.canon]]

\* Variant: a delta is queued over display work that has not been sent.
PublishOverQueued(k, a, v) ==
    LET j == WithSlot(k, a) IN
    IF v.canon <= v.published \/ ~v.delivering THEN [conn |-> k, view |-> v]
    ELSE [conn |-> [j EXCEPT !.slots[a].gen = v.canon,
                             !.slots[a].pending = Delta(a, v)],
          view |-> [v EXCEPT !.published = v.canon]]

\* publish_display_updates for one viewer: skip, snapshot or delta.
\* try_queue_attachment_delta skips what the slot is past, and asks for a
\* snapshot where continuity is not certain.
PublishUpdate(k, a, v) ==
    LET j == WithSlot(k, a)
        s == j.slots[a]
        done == [v EXCEPT !.published = v.canon]
    IN IF v.canon <= v.published \/ ~v.delivering
       THEN [conn |-> k, view |-> v]
       ELSE IF v.published = 0
       THEN [conn |-> PushIds(PushSnapshot(k, a, Snapshot(a, v)), a,
                              v.canon, v.seq),
             view |-> done]
       ELSE IF v.canon <= s.gen
       THEN [conn |-> j, view |-> done]
       ELSE IF s.gen # v.published \/ HasDisplay(s)
       THEN [conn |-> j,
             view |-> [v EXCEPT !.published = 0, !.resync = TRUE]]
       ELSE [conn |-> PushIds([j EXCEPT !.slots[a].gen = v.canon,
                                        !.slots[a].pending = Delta(a, v)],
                              a, v.canon, v.seq),
             view |-> done]

\* One poll: perhaps output, then publish_display_updates.
Poll(a, output, spent) ==
    /\ Live(a) /\ Request
    /\ output \/ view[a].resync
    /\ output => view[a].canon < MaxGeneration
    /\ spent => BudgetSpent
    /\ LET v == [view[a] EXCEPT !.canon = IF output THEN @ + 1 ELSE @]
           r == ServiceResync(c, a, v, spent)
           p == IF output THEN PublishUpdate(r.conn, a, r.view) ELSE r
       IN c' = p.conn /\ view' = [view EXCEPT ![a] = p.view]

\* handle_detach
Detach(a) ==
    /\ Live(a) /\ Request
    /\ c' = PushMandatory(RemovePresentation(c, a), "control")
    /\ view' = [view EXCEPT ![a].phase = "gone", ![a].resync = FALSE,
                            ![a].delivering = FALSE]

\* finalize: publish_final_display_snapshot, then
\* notify_local_ipc_execution_finalized with the slot's last metadata.
Finalize(a) ==
    /\ Live(a) /\ Request
    /\ LET v == view[a]
           j == IF v.delivering
                THEN PushIds(PushSnapshot(c, a, Snapshot(a, v)), a,
                             v.canon, v.seq)
                ELSE c
           r == IF a \in DOMAIN j.slots
                THEN [j EXCEPT !.slots[a].retire = TRUE] ELSE j
       IN c' = PushSlotAfter(r, a)
    /\ view' = [view EXCEPT ![a].phase = "gone", ![a].resync = FALSE,
                            ![a].delivering = FALSE]

\* A writable event; the socket takes credit bytes.
ServiceWrite(credit) ==
    /\ ~c.closed
    /\ WantsWrite(c)
    /\ c' = Service(c, credit)
    /\ UNCHANGED <<view, requests>>

Next ==
    \/ Control
    \/ \E a \in Atts :
          \/ Attach(a) \/ Suspend(a) \/ Resume(a) \/ Resync(a)
          \/ Detach(a) \/ Finalize(a)
          \/ \E output, spent \in BOOLEAN : Poll(a, output, spent)
    \/ \E credit \in 1..MaxCredit : ServiceWrite(credit)

Spec == Init /\ [][Next]_vars

-----------------------------------------------------------------------------
Batches ==
    [kind : {"snapshot", "delta", None}, gen : 0..MaxGeneration,
     base : 0..MaxGeneration, seq : 0..MaxSequence]

IdFrames ==
    {None} \cup [gen : 1..MaxGeneration, seq : 0..MaxSequence,
                 sent : 0..(FrameBytes - 1)]

TypeOK ==
    /\ \A a \in Atts :
         /\ view[a].canon \in 1..MaxGeneration
         /\ view[a].published \in 0..view[a].canon
    /\ Range(c.order) = DOMAIN c.slots
    /\ \A a \in DOMAIN c.slots :
         /\ c.slots[a].inflight.batch \in Batches
         /\ c.slots[a].pending \in Batches
         /\ c.slots[a].ids \in IdFrames
         /\ c.slots[a].nextIds \in IdFrames
    /\ {c.partialDisplay, c.partialAfter, c.last} \subseteq Atts \cup {None}
    /\ c.credit = 0 /\ c.go

\* A frame that has begun is finished before another begins (SPEC-004
\* section 11), for every queue the writer serves.
FramesAreNotInterleaved == c.cut = {}

\* A half-written frame other than connection-scoped metadata is never cut,
\* and its rest is still queued, through suspend, resume and detach.
AttachmentFramesAreWhole ==
    /\ c.cut \subseteq {<<"after">>}
    /\ \A a \in Atts :
         /\ c.open = <<"display", a>> =>
              a \in DOMAIN c.slots /\ c.slots[a].inflight.sent > 0
         /\ c.open = <<"ids", a>> =>
              a \in DOMAIN c.slots /\ IdsStarted(c.slots[a])
         /\ c.open = <<"after", a>> =>
              a \in DOMAIN c.slots /\ c.slots[a].after.sent > 0

\* A delta reaches the peer only when the peer holds its base, in the same
\* resume sequence: a resumed view starts with its snapshot (SPEC-004
\* section 11).
DeltasHaveTheirBase == c.gaps = {}

\* The same, but for attachments whose pending batch was thrown away by
\* FinishIds.
DeltasFollow == c.gaps \subseteq c.lost

RECURSIVE Drained(_, _)
Drained(k, events) ==
    IF events = 0 \/ ~WantsWrite(k) THEN k
    ELSE Drained(Service(k, 64), events - 1)

\* Writable events alone empty every queue: no mark, pin or rotation strands
\* a frame or lets the writer's loop spin.
QueuesDrain ==
    ~c.closed =>
        LET k == Drained(c, 8) IN
        /\ ~WantsWrite(k)
        /\ \A a \in DOMAIN k.slots :
              /\ k.slots[a].deferred = NoBatch
              /\ k.slots[a].nextIds = None
        /\ k.open = None

\* Both byte accounts are what is queued, through every drop and removal.
SumOver(S, f(_)) == MapThenSumSet(f, S)

AccountsMatchQueues ==
    LET S == DOMAIN c.slots IN
    /\ c.controlBytes = Remaining(c.mandatory) + Remaining(c.after)
         + SumOver(S, LAMBDA a : Remaining(c.slots[a].after))
    /\ c.idBytes = SumOver(S, LAMBDA a : IdsRemaining(c.slots[a].ids)
                                        + IdsRemaining(c.slots[a].nextIds))

\* The first display a peer gets in sequence 0 follows the Attached frame and
\* has the generation that frame announced (attach_snapshot_pin).
FirstSnapshotIsAnnounced ==
    [][\A a \in Atts :
         /\ c.client[a].gen = 0
         /\ c'.client[a].gen > 0
         /\ c'.client[a].seq = 0
         => c'.client[a].attached /\ c'.client[a].gen = view[a].announced]_vars
=============================================================================
