---------------------------- MODULE DisplayFanout ----------------------------
(***************************************************************************)
(* Display publication: one poll serves the queued snapshot requirements   *)
(* (service_pending_resyncs) and then fans every execution's update out to *)
(* its viewers as a delta or a snapshot (publish_display_updates).         *)
(*                                                                         *)
(* A viewer is a (connection, attachment) pair.  Its presentation slot is  *)
(* kept to what publication reads: the batch in flight, the one pending    *)
(* and the generation they lead to; AttachmentOutbound has the bytes.      *)
(***************************************************************************)
EXTENDS Naturals, Sequences, SequencesExt, FiniteSets, FiniteSetsExt

CONSTANTS
    Viewers,        \* attachments
    Execs,          \* executions
    NoExec,         \* what an attachment views before it exists
    Budget,         \* RESYNC_SNAPSHOT_BUDGET_PER_POLL
    MaxOutputs,     \* bound: changes of the terminals
    MaxRequests,    \* bound: attach, resync, suspend, resume and detach calls
    MaxFailures     \* bound: polls in which an encoding fails

ASSUME FanoutAssumption == NoExec \notin Execs /\ Budget \in Nat \ {0}

VARIABLES
    canon,      \* [Execs -> Nat]: source_damage_generation
    taken,      \* [Execs -> Nat]: generation of the last update taken
    geometry,   \* [Execs -> {0, 1}]: rows and columns
    published,  \* [Execs -> [gen, geometry]]: gen 0 when there is no entry
    mode,       \* [Viewers -> Modes]
    execOf,     \* [Viewers -> Execs]: the execution attached to
    slot,       \* [Viewers -> presentation slot]
    wanted,     \* pending_resync_set
    queue,      \* pending_resync
    awake,      \* an event or the waker brings the next poll
    client,     \* [Viewers -> [gen, fresh]]: what the peer shows
    passed,     \* viewers whose update was skipped for another's snapshot
    requests,
    failures

execVars == <<canon, taken, geometry, published>>
vars == <<execVars, mode, execOf, slot, wanted, queue, awake, client, passed,
          requests, failures>>

Modes == {"absent", "delivering", "suspended", "gone"}

NoItem == [kind |-> "none", gen |-> 0, base |-> 0]
NewSlot == [inflight |-> NoItem, dead |-> FALSE, pending |-> NoItem,
            gen |-> 0, pin |-> FALSE, deferred |-> NoItem]
Unpublished == [gen |-> 0, geometry |-> 0]
Blank == [gen |-> 0, fresh |-> TRUE]

\* Variant: labels the snapshot with the generation after the one it shows.
SnapshotAhead(g) == [kind |-> "snapshot", gen |-> g + 1, base |-> 0]

Snapshot(g) == [kind |-> "snapshot", gen |-> g, base |-> 0]
Delta(g, b) == [kind |-> "delta", gen |-> g, base |-> b]

HasDisplay(s) == s.inflight # NoItem \/ s.pending # NoItem

\* has_attachment_snapshot_delivery
SnapshotActive(s) == "snapshot" \in {s.inflight.kind, s.pending.kind}

Init ==
    /\ canon = [e \in Execs |-> 1]
    /\ taken = [e \in Execs |-> 1]
    /\ geometry = [e \in Execs |-> 0]
    /\ published = [e \in Execs |-> Unpublished]
    /\ mode = [v \in Viewers |-> "absent"]
    /\ execOf = [v \in Viewers |-> NoExec]
    /\ slot = [v \in Viewers |-> NewSlot]
    /\ wanted = {}
    /\ queue = <<>>
    /\ awake = FALSE
    /\ client = [v \in Viewers |-> Blank]
    /\ passed = {}
    /\ requests = 0
    /\ failures = 0

Present(v) == mode[v] \in {"delivering", "suspended"}
ViewersOf(e) == {v \in Viewers : execOf[v] = e /\ Present(v)}
Delivering(e) == {v \in ViewersOf(e) : mode[v] = "delivering"}

\* queue_attachment_snapshot
QueueSnapshot(s, g) ==
    IF s.pin THEN [s EXCEPT !.deferred = Snapshot(g)]
    ELSE [s EXCEPT !.gen = g, !.pending = Snapshot(g)]

\* drop_attachment_presentation; started is whether the batch in flight has a
\* half-written frame, which must be completed and then drops the rest.
DropQueued(s, started) ==
    LET keep == started /\ s.inflight # NoItem IN
    [s EXCEPT !.inflight = IF keep THEN @ ELSE NoItem,
              !.dead = keep,
              !.pending = NoItem,
              !.pin = FALSE,
              !.deferred = IF s.pin THEN NoItem ELSE @]

-----------------------------------------------------------------------------
(* Events between two publications. *)

Request == requests < MaxRequests /\ requests' = requests + 1

\* The PTY or a resize changes the terminal.
Output(e) ==
    /\ MapThenSumSet(LAMBDA x : canon[x] - 1, Execs) < MaxOutputs
    /\ canon' = [canon EXCEPT ![e] = @ + 1]
    /\ \E g \in {0, 1} : geometry' = [geometry EXCEPT ![e] = g]
    /\ awake' = TRUE
    /\ UNCHANGED <<execOf, taken, published, mode, slot, wanted, queue, client, passed,
                   requests, failures>>

\* handle_attach: the first viewer also sets the published generation.
Attach(v, e) ==
    LET g == canon[e] IN
    /\ Request
    /\ execOf' = [execOf EXCEPT ![v] = e]
    /\ mode[v] = "absent"
    /\ mode' = [mode EXCEPT ![v] = "delivering"]
    /\ slot' = [slot EXCEPT ![v] = [NewSlot EXCEPT !.gen = g,
                                                   !.pending = Snapshot(g),
                                                   !.pin = TRUE]]
    /\ client' = [client EXCEPT ![v] = Blank]
    /\ published' = IF ViewersOf(e) # {} THEN published
                    ELSE [published EXCEPT ![e] =
                            [gen |-> g, geometry |-> geometry[e]]]
    /\ passed' = passed \ {v}
    /\ awake' = TRUE
    /\ UNCHANGED <<canon, taken, geometry, wanted, queue, failures>>

\* recovery::schedule_snapshot_recovery
Schedule(v) ==
    /\ wanted' = wanted \cup {v}
    /\ queue' = IF v \in wanted THEN queue ELSE Append(queue, v)

\* handle_resync
Resync(v) ==
    /\ Request
    /\ mode[v] = "delivering"
    /\ Schedule(v)
    /\ awake' = TRUE
    /\ UNCHANGED <<execOf, execVars, mode, slot, client, passed, failures>>

\* SuspendDelivery: the requirement leaves the set, its node stays queued.
Suspend(v) ==
    /\ Request
    /\ mode[v] = "delivering"
    /\ mode' = [mode EXCEPT ![v] = "suspended"]
    /\ \E started \in BOOLEAN :
         slot' = [slot EXCEPT ![v] = DropQueued(@, started \/ @.dead)]
    /\ wanted' = wanted \ {v}
    /\ awake' = TRUE
    /\ UNCHANGED <<execOf, execVars, queue, client, passed, failures>>

\* ResumeDelivery: a new sequence, which must begin with a snapshot.
Resume(v) ==
    /\ Request
    /\ Present(v)
    /\ mode' = [mode EXCEPT ![v] = "delivering"]
    /\ \E started \in BOOLEAN :
         slot' = [slot EXCEPT ![v] = DropQueued(@, started \/ @.dead)]
    /\ wanted' = wanted \cup {v}
    /\ queue' = Append(queue, v)
    /\ client' = [client EXCEPT ![v].fresh = TRUE]
    /\ passed' = passed \ {v}
    /\ awake' = TRUE
    /\ UNCHANGED <<execOf, execVars, failures>>

\* handle_detach
Detach(v) ==
    /\ Request
    /\ Present(v)
    /\ mode' = [mode EXCEPT ![v] = "gone"]
    /\ slot' = [slot EXCEPT ![v] = NewSlot]
    /\ wanted' = wanted \ {v}
    /\ published' = IF ViewersOf(execOf[v]) = {v}
                    THEN [published EXCEPT ![execOf[v]] = Unpublished]
                    ELSE published
    /\ client' = [client EXCEPT ![v] = Blank]
    /\ awake' = TRUE
    /\ UNCHANGED <<execOf, canon, taken, geometry, queue, passed, failures>>

-----------------------------------------------------------------------------
(* The peer reads. *)

\* The pending batch goes in flight, and with it the attach pin.
Start(v) ==
    LET s == slot[v] IN
    /\ s.inflight = NoItem
    /\ s.pending # NoItem
    /\ slot' = [slot EXCEPT ![v] =
         [s EXCEPT !.inflight = s.pending,
                   !.pending = IF s.deferred.gen = s.pending.gen THEN NoItem
                               ELSE s.deferred,
                   !.pin = FALSE,
                   !.deferred = NoItem]]
    /\ awake' = TRUE
    /\ UNCHANGED <<execOf, execVars, mode, wanted, queue, client, passed, requests,
                   failures>>

\* The batch in flight is complete.  A dropped one is cut short; a delta is
\* applied where its base is shown.
Finish(v) ==
    LET i == slot[v].inflight
        applies == \/ i.kind = "snapshot"
                   \/ ~client[v].fresh /\ client[v].gen = i.base
    IN
    /\ i # NoItem
    /\ slot' = [slot EXCEPT ![v].inflight = NoItem, ![v].dead = FALSE]
    /\ client' = IF slot[v].dead \/ ~applies THEN client
                 ELSE [client EXCEPT ![v] = [gen |-> i.gen, fresh |-> FALSE]]
    /\ passed' = IF client'[v].gen = canon[execOf[v]] THEN passed \ {v}
                 ELSE passed
    /\ awake' = TRUE
    /\ UNCHANGED <<execOf, execVars, mode, wanted, queue, requests, failures>>

-----------------------------------------------------------------------------
(* One publication. *)

\* pending_resync.push_back
Requeue(r, v) == [r EXCEPT !.queue = Append(@, v)]

\* service_pending_resyncs takes one node: r is the state of the scan, broken
\* the executions that cannot be encoded now.
ServeNode(r, v, broken) ==
    LET e == execOf[v]
        back == Requeue(r, v)
    IN IF v \notin r.wanted THEN r
       ELSE IF mode[v] # "delivering" THEN [r EXCEPT !.wanted = @ \ {v}]
       ELSE IF SnapshotActive(r.slot[v]) THEN back
       ELSE IF e \notin r.made /\ r.tried >= Budget THEN back
       ELSE IF e \notin r.made /\ e \in broken
       THEN [back EXCEPT !.tried = @ + 1]
       ELSE [r EXCEPT !.tried = IF e \in r.made THEN @ ELSE @ + 1,
                      !.made = @ \cup {e},
                      !.wanted = @ \ {v},
                      !.slot[v] = QueueSnapshot(@, canon[e]),
                      !.published[e] = IF e \in r.made THEN @
                           ELSE [gen |-> canon[e], geometry |-> geometry[e]]]

Scan(broken) ==
    FoldLeft(LAMBDA r, v : ServeNode(r, v, broken),
             [queue |-> <<>>, wanted |-> wanted, slot |-> slot,
              published |-> published, made |-> {}, tried |-> 0],
             queue)

\* Variant: the scan ends without a look at what it left.
ReadyPendingNot(r) == FALSE

\* ready_pending: the scan left a node that the next one can serve.
ReadyPending(r) ==
    \E v \in Range(r.queue) \cap r.wanted : ~SnapshotActive(r.slot[v])

\* publish_display_updates decides what an execution's viewers get.
Fanout(r, e, broken) ==
    LET p == r.published[e] IN
    CASE canon[e] <= taken[e] -> "none"
      [] OTHER ->
           CASE p.gen > 0 /\ canon[e] <= p.gen -> "skip"
             [] Delivering(e) = {} -> "none"
             [] e \in broken -> "fail"
             [] p.gen = 0 \/ p.geometry # geometry[e] -> "snapshot"
             [] OTHER -> "delta"

\* Variant: does not compare the base with the generation queued last.
DeltaResultAnyBase(s, g, base) ==
    IF g <= s.gen THEN "Skipped"
    ELSE IF HasDisplay(s) THEN "NeedSnapshot" ELSE "Queued"

\* Variant: an occupied slot skips the delta.
DeltaResultBusy(s, g, base) ==
    IF g <= s.gen \/ HasDisplay(s) THEN "Skipped"
    ELSE IF s.gen # base THEN "NeedSnapshot" ELSE "Queued"

\* try_queue_attachment_delta
DeltaResult(s, g, base) ==
    IF g <= s.gen THEN "Skipped"
    ELSE IF s.gen # base \/ HasDisplay(s) THEN "NeedSnapshot"
    ELSE "Queued"

Publish(broken) ==
    LET r == Scan(broken)
        what(e) == Fanout(r, e, broken)
        result(v) == DeltaResult(r.slot[v], canon[execOf[v]],
                                 r.published[execOf[v]].gen)
        given(v) ==
            LET e == execOf[v]
                s == r.slot[v]
            IN CASE mode[v] = "delivering" /\ what(e) = "snapshot" ->
                      QueueSnapshot(s, canon[e])
                 [] mode[v] = "delivering" /\ what(e) = "delta"
                    /\ result(v) = "Queued" ->
                      [s EXCEPT !.gen = canon[e],
                                !.pending = Delta(canon[e],
                                                  r.published[e].gen)]
                 [] OTHER -> s
        needs == {v \in Viewers :
                    /\ mode[v] = "delivering"
                    /\ \/ what(execOf[v]) = "fail"
                       \/ /\ what(execOf[v]) = "delta"
                          /\ result(v) = "NeedSnapshot"}
        ok(e) == \/ what(e) = "snapshot"
                 \/ /\ what(e) = "delta"
                    /\ \E v \in Delivering(e) : result(v) # "NeedSnapshot"
    IN
    /\ awake
    /\ broken # {} => failures < MaxFailures
    /\ failures' = IF broken = {} THEN failures ELSE failures + 1
    /\ slot' = [v \in Viewers |-> given(v)]
    /\ published' = [e \in Execs |->
         CASE what(e) \in {"none", "skip"} -> r.published[e]
           [] ok(e) -> [gen |-> canon[e], geometry |-> geometry[e]]
           [] OTHER -> Unpublished]
    /\ taken' = [e \in Execs |->
         IF ViewersOf(e) = {} THEN taken[e] ELSE canon[e]]
    /\ wanted' = r.wanted \cup needs
    /\ \E nodes \in SetToSeqs(needs \ r.wanted) : queue' = r.queue \o nodes
    /\ awake' = \/ ReadyPending(r)
                \/ \E v \in needs \ r.wanted : ~SnapshotActive(r.slot[v])
    /\ passed' = passed \cup
         {v \in Viewers : /\ mode[v] = "delivering"
                          /\ what(execOf[v]) = "skip"
                          /\ r.slot[v].gen < canon[execOf[v]]
                          /\ r.slot[v].deferred.gen < canon[execOf[v]]}
    /\ UNCHANGED <<execOf, canon, geometry, mode, client, requests>>

Next ==
    \/ \E e \in Execs : Output(e)
    \/ \E v \in Viewers :
          \/ \E e \in Execs : Attach(v, e)
          \/ Resync(v) \/ Suspend(v) \/ Resume(v) \/ Detach(v)
          \/ Start(v) \/ Finish(v)
    \/ \E broken \in SUBSET Execs : Publish(broken)

Spec == Init /\ [][Next]_vars

-----------------------------------------------------------------------------
Generations == 0..(1 + MaxOutputs)
Items == [kind : {"none", "snapshot", "delta"}, gen : Generations,
          base : Generations]

TypeOK ==
    /\ canon \in [Execs -> Generations \ {0}]
    /\ \A e \in Execs : taken[e] <= canon[e] /\ published[e].gen <= canon[e]
    /\ mode \in [Viewers -> Modes]
    /\ execOf \in [Viewers -> Execs \cup {NoExec}]
    /\ \A v \in Viewers :
         /\ {slot[v].inflight, slot[v].pending, slot[v].deferred} \subseteq Items
         /\ slot[v].gen \in Generations
         /\ client[v].gen \in Generations
    /\ wanted \subseteq Viewers
    /\ queue \in Seq(Viewers)

\* A requirement that can be served brings a poll: otherwise it waits for the
\* snapshot being delivered, whose writable events bring one.
RequirementsWake ==
    \A v \in wanted : mode[v] = "delivering" =>
        awake \/ SnapshotActive(slot[v])

\* A delta in flight applies to what the peer shows, or a snapshot that
\* repairs the view is required or queued behind it.
DeltasApplyOrAreRepaired ==
    \A v \in Viewers :
        slot[v].inflight.kind = "delta" /\ ~slot[v].dead =>
            \/ ~client[v].fresh /\ client[v].gen = slot[v].inflight.base
            \/ v \in wanted
            \/ slot[v].pending.kind = "snapshot"

Quiet == ~awake /\ \A v \in Viewers : ~HasDisplay(slot[v])

Current(v) ==
    mode[v] = "delivering" =>
        ~client[v].fresh /\ client[v].gen = canon[execOf[v]]

\* When no event is left to bring a poll and everything queued was read, each
\* delivering peer shows the terminal's state, unless its update was skipped
\* because another viewer's recovery snapshot had the same generation.
QuietMeansCurrent == Quiet => \A v \in Viewers \ passed : Current(v)

\* The same for every delivering peer: the presentation queue delivered each
\* update or a recovery snapshot took its place.
DeliveredOrRecovered == Quiet => \A v \in Viewers : Current(v)
=============================================================================
