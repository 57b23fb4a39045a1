------------------------ MODULE AttachmentAuthority ------------------------
(***************************************************************************)
(* Who may see and who may control an execution: the attachment registry   *)
(* (seyal-runtime/src/local_ipc/attachment.rs) together with the three     *)
(* places that mirror it -- the connection table, the connection states    *)
(* and every execution entry's attachment set -- and the handlers that     *)
(* keep the four in step (runtime/local/session.rs, delivery.rs,           *)
(* disposition.rs, resize_resync.rs, connection.rs, display_publish.rs).   *)
(*                                                                         *)
(* Handlers run on the Runtime thread and are atomic.  A handler whose     *)
(* reply does not fit the connection's control queue closes the connection *)
(* after its own effects; detaching, suspending or resuming and then       *)
(* closing leaves what closing alone leaves, so CloseConnection stands for *)
(* those, and the two handlers for which that is not so carry the failed   *)
(* reply themselves.  A refused request that changes nothing is a stutter. *)
(***************************************************************************)
EXTENDS Naturals, FiniteSets

CONSTANTS
    Conns,        \* connection tokens; a token is never given out twice
    Execs,        \* execution ids
    Ids,          \* attachment ids; AttachmentId::new never repeats one
    None,         \* the absent value of the code's Options
    MaxLive,      \* MAX_LIVE_ATTACHMENTS
    MaxPerConn,   \* MAX_ATTACHMENTS_PER_CONNECTION
    MaxSequence,  \* largest resume sequence a client of the instance sends
    MaxRequest    \* largest request id a client of the instance sends

ASSUME ConstantsAssumption ==
    /\ None \notin Conns \cup Execs \cup Ids
    /\ MaxLive \in Nat
    /\ MaxPerConn \in Nat
    /\ MaxSequence \in Nat
    /\ MaxRequest \in Nat

VARIABLES
    connState,   \* [Conns -> ConnStates]: ConnectionState of the server
    negotiated,  \* connections with CAP_ATTACHMENT_DELIVERY_CONTROL
    provisioner, \* connections with CAP_EXECUTION_PROVISIONING
    primary,     \* [Conns -> Ids \cup {None}]: ConnectionMeta::attachment
    lastRequest, \* [Conns -> Nat]: last_provisioning_request_id
    lastResize,  \* [Conns -> Nat]: last_resize_request_id
    execOf,      \* [Ids -> Execs \cup {None}]: the record, None when absent
    connOf,      \* [Ids -> Conns \cup {None}]: connection_token
    controlling, \* attachments whose record has Role::Controller
    suspended,   \* attachments whose record has DeliveryState::Suspended
    sequence,    \* [Ids -> Nat]: resume_sequence
    controllers, \* [Execs -> Ids \cup {None}]: AttachmentRegistry::controllers
    entries,     \* executions in Runtime::entries
    entryAtts,   \* [Execs -> SUBSET Ids]: Entry::attachments
    terminating, \* entries a client has asked to terminate
    issued       \* attachment ids ever generated

connVars == <<connState, negotiated, provisioner, primary, lastRequest,
              lastResize>>
recordVars == <<execOf, connOf, controlling, suspended, sequence>>
registryVars == <<recordVars, controllers>>
entryVars == <<entries, entryAtts, terminating>>
vars == <<connVars, registryVars, entryVars, issued>>

ConnStates == {"Unaccepted", "AwaitHello", "Ready", "Attached", "Closed"}
Roles == {"Observer", "Controller"}

-----------------------------------------------------------------------------
(* Queries of the registry. *)

Live == {a \in Ids : execOf[a] # None}
AttachmentsOn(c) == {a \in Live : connOf[a] = c}
ViewersOf(e) == {a \in Live : execOf[a] = e}
DeliveringOn(c) == AttachmentsOn(c) \ suspended
HasExecutionOn(c, e) == \E a \in AttachmentsOn(c) : execOf[a] = e

\* execution_for_connection succeeds: the id is live on this connection.
OnConnection(c, a) == a \in AttachmentsOn(c)

\* authorize_mutation succeeds.
MayMutate(c, a) == OnConnection(c, a) /\ a \in controlling

\* Some element of S, or None: Iterator::next of an unordered map.
AnyOf(S) == IF S = {} THEN {None} ELSE S

-----------------------------------------------------------------------------
(* Updates of the registry. *)

\* insert_prevalidated
Insert(a, e, r, c) ==
    /\ execOf' = [execOf EXCEPT ![a] = e]
    /\ connOf' = [connOf EXCEPT ![a] = c]
    /\ controlling' = IF r = "Controller" THEN controlling \cup {a}
                                          ELSE controlling
    /\ controllers' = IF r = "Controller" THEN [controllers EXCEPT ![e] = a]
                                          ELSE controllers
    /\ UNCHANGED <<suspended, sequence>>

\* The records of the attachments in A are dropped.
DropRecords(A) ==
    /\ execOf' = [a \in Ids |-> IF a \in A THEN None ELSE execOf[a]]
    /\ connOf' = [a \in Ids |-> IF a \in A THEN None ELSE connOf[a]]
    /\ controlling' = controlling \ A
    /\ suspended' = suspended \ A
    /\ sequence' = [a \in Ids |-> IF a \in A THEN 0 ELSE sequence[a]]

\* detach, for each attachment in A: a controller's lease goes with it, but
\* only while the execution's lease is still its own.
LeasesAfterDetach(A) ==
    [e \in Execs |->
        IF \E a \in A \cap controlling : execOf[a] = e /\ controllers[e] = a
        THEN None ELSE controllers[e]]

\* Variant: the lease outlives a detached controller.
DetachAllKeepsLease(A) ==
    /\ DropRecords(A)
    /\ UNCHANGED controllers

DetachAll(A) ==
    /\ DropRecords(A)
    /\ controllers' = LeasesAfterDetach(A)

\* Variant: the entries still list attachments that are gone.
KeepInEntries(A) == UNCHANGED entryAtts

\* The entries forget the attachments in A.
ForgetInEntries(A) == entryAtts' = [e \in Execs |-> entryAtts[e] \ A]

-----------------------------------------------------------------------------
(* Connections. *)

Accept(c) ==
    /\ connState[c] = "Unaccepted"
    /\ connState' = [connState EXCEPT ![c] = "AwaitHello"]
    /\ UNCHANGED <<negotiated, provisioner, primary, lastRequest, lastResize,
                   registryVars, entryVars, issued>>

\* handle_hello with acceptable capabilities.
Hello(c) ==
    /\ connState[c] = "AwaitHello"
    /\ connState' = [connState EXCEPT ![c] = "Ready"]
    /\ \E control \in SUBSET {c}, provision \in SUBSET {c} :
        /\ negotiated' = negotiated \cup control
        /\ provisioner' = provisioner \cup provision
    /\ UNCHANGED <<primary, lastRequest, lastResize, registryVars, entryVars,
                   issued>>

Open(c) == connState[c] \notin {"Unaccepted", "Closed"}

\* What close_local_connection leaves of the connections in C.
Closed(C) ==
    /\ connState' = [c \in Conns |-> IF c \in C THEN "Closed"
                                                ELSE connState[c]]
    /\ negotiated' = negotiated \ C
    /\ provisioner' = provisioner \ C
    /\ primary' = [c \in Conns |-> IF c \in C THEN None ELSE primary[c]]
    /\ lastRequest' = [c \in Conns |-> IF c \in C THEN 0 ELSE lastRequest[c]]
    /\ lastResize' = [c \in Conns |-> IF c \in C THEN 0 ELSE lastResize[c]]

\* Variant: closing releases the primary attachment only.
PrimariesReleasedWith(C) == {a \in Ids : \E c \in C : primary[c] = a}

\* Every attachment of the connections in C, the primary ones included.
AttachmentsReleasedWith(C) ==
    {a \in Ids : connOf[a] \in C \/ \E c \in C : primary[c] = a}

\* close_local_connection: hang-up, Goodbye, a protocol error, an output
\* queue that is full or cannot be armed.
CloseConnection(c) ==
    /\ Open(c)
    /\ Closed({c})
    /\ DetachAll(AttachmentsReleasedWith({c}))
    /\ ForgetInEntries(AttachmentsReleasedWith({c}))
    /\ UNCHANGED <<entries, terminating, issued>>

-----------------------------------------------------------------------------
(* Attach and detach. *)

PerConnectionMax(c) == IF c \in negotiated THEN MaxPerConn ELSE 1

\* Variant: a suspended attachment no longer counts as one to its execution.
MayAttachBesideSuspended(c, e, r) ==
    /\ connState[c] \in {"Ready", "Attached"}
    /\ e \in entries
    /\ Cardinality(Live) < MaxLive
    /\ r = "Controller" => controllers[e] = None
    /\ \A a \in DeliveringOn(c) : execOf[a] # e
    /\ Cardinality(AttachmentsOn(c)) < PerConnectionMax(c)
    /\ c \in negotiated \/ DeliveringOn(c) = {}

\* Variant: an attach that asks for control takes it.
MayAttachPreempting(c, e, r) ==
    /\ connState[c] \in {"Ready", "Attached"}
    /\ e \in entries
    /\ Cardinality(Live) < MaxLive
    /\ ~HasExecutionOn(c, e)
    /\ Cardinality(AttachmentsOn(c)) < PerConnectionMax(c)
    /\ c \in negotiated \/ DeliveringOn(c) = {}

\* The admission checks of handle_attach, in the order of the code; Attach is
\* a legal message while Ready and while Attached.
MayAttach(c, e, r) ==
    /\ connState[c] \in {"Ready", "Attached"}
    /\ e \in entries
    /\ Cardinality(Live) < MaxLive
    /\ r = "Controller" => controllers[e] = None
    /\ ~HasExecutionOn(c, e)
    /\ Cardinality(AttachmentsOn(c)) < PerConnectionMax(c)
    /\ c \in negotiated \/ DeliveringOn(c) = {}

\* handle_attach once the attached frame and the snapshot are queued; when
\* they are not, the handler closes the connection.
Attach(c, e, r, a) ==
    /\ MayAttach(c, e, r)
    /\ a \notin issued
    /\ issued' = issued \cup {a}
    /\ Insert(a, e, r, c)
    /\ primary' = [primary EXCEPT ![c] = a]
    /\ connState' = [connState EXCEPT ![c] = "Attached"]
    /\ entryAtts' = [entryAtts EXCEPT ![e] = @ \cup {a}]
    /\ UNCHANGED <<negotiated, provisioner, lastRequest, lastResize, entries,
                   terminating>>

\* Variant: detaching any attachment returns the connection to Ready.
DetachToReady(c, a) ==
    /\ connState[c] = "Attached"
    /\ OnConnection(c, a)
    /\ DetachAll({a})
    /\ ForgetInEntries({a})
    /\ \E next \in AnyOf(AttachmentsOn(c) \ {a}) :
            primary' = IF primary[c] = a
                       THEN [primary EXCEPT ![c] = next] ELSE primary
    /\ connState' = [connState EXCEPT ![c] = "Ready"]
    /\ UNCHANGED <<negotiated, provisioner, lastRequest, lastResize, entries,
                   terminating, issued>>

\* handle_detach.  The next primary is any of the attachments that remain.
Detach(c, a) ==
    /\ connState[c] = "Attached"
    /\ OnConnection(c, a)
    /\ DetachAll({a})
    /\ ForgetInEntries({a})
    /\ LET remaining == AttachmentsOn(c) \ {a}
       IN /\ \E next \in AnyOf(remaining) :
                primary' = IF primary[c] = a
                           THEN [primary EXCEPT ![c] = next] ELSE primary
          /\ connState' = IF remaining = {}
                          THEN [connState EXCEPT ![c] = "Ready"]
                          ELSE connState
    /\ UNCHANGED <<negotiated, provisioner, lastRequest, lastResize, entries,
                   terminating, issued>>

-----------------------------------------------------------------------------
(* Requests of an attached client. *)

\* handle_suspend_delivery
Suspend(c, a) ==
    /\ c \in negotiated
    /\ connState[c] = "Attached"
    /\ OnConnection(c, a)
    /\ suspended' = suspended \cup {a}
    /\ UNCHANGED <<connVars, execOf, connOf, controlling, sequence,
                   controllers, entryVars, issued>>

\* handle_resume_delivery with a sequence above the current one.
Resume(c, a, s) ==
    /\ c \in negotiated
    /\ connState[c] = "Attached"
    /\ OnConnection(c, a)
    /\ s > sequence[a]
    /\ sequence' = [sequence EXCEPT ![a] = s]
    /\ suspended' = suspended \ {a}
    /\ primary' = [primary EXCEPT ![c] = a]
    /\ UNCHANGED <<connState, negotiated, provisioner, lastRequest,
                   lastResize, execOf, connOf, controlling, controllers,
                   entryVars, issued>>

\* Variant: the id is spent before the request is authorised.
ResizeRequestSpendsFirst(c, a, id) ==
    /\ connState[c] = "Attached"
    /\ id > lastResize[c]
    /\ lastResize' = [lastResize EXCEPT ![c] = id]
    /\ UNCHANGED <<connState, negotiated, provisioner, primary, lastRequest,
                   registryVars, entryVars, issued>>

\* handle_resize_request: the id is spent once the request is authorised.
ResizeRequest(c, a, id) ==
    /\ connState[c] = "Attached"
    /\ MayMutate(c, a)
    /\ id > lastResize[c]
    /\ lastResize' = [lastResize EXCEPT ![c] = id]
    /\ UNCHANGED <<connState, negotiated, provisioner, primary, lastRequest,
                   registryVars, entryVars, issued>>

\* Variant: the execution named by the request is taken at its word.
MayTerminateAny(c, a, e) ==
    /\ OnConnection(c, a)
    /\ e \in entries
    /\ a \in controlling

\* The attachment, the execution and the role of a terminate request agree.
MayTerminate(c, a, e) ==
    /\ OnConnection(c, a)
    /\ execOf[a] = e
    /\ a \in controlling

\* handle_terminate_execution_request: an id above the last one is spent
\* whatever becomes of the request; request_termination may fail; and the
\* reply may not fit, which closes the connection after all of that.
Terminate(c, a, e, id) ==
    /\ c \in provisioner
    /\ connState[c] = "Attached"
    /\ id > lastRequest[c]
    /\ \/ ~MayTerminate(c, a, e) /\ UNCHANGED terminating
       \/ /\ MayTerminate(c, a, e)
          /\ terminating' \in {terminating, terminating \cup {e}}
    /\ UNCHANGED <<entries, issued>>
    /\ \/ /\ lastRequest' = [lastRequest EXCEPT ![c] = id]
          /\ UNCHANGED <<connState, negotiated, provisioner, primary,
                         lastResize, registryVars, entryAtts>>
       \/ /\ Closed({c})
          /\ DetachAll(AttachmentsReleasedWith({c}))
          /\ ForgetInEntries(AttachmentsReleasedWith({c}))

-----------------------------------------------------------------------------
(* Executions. *)

Create(e) ==
    /\ e \notin entries
    /\ entries' = entries \cup {e}
    /\ entryAtts' = [entryAtts EXCEPT ![e] = {}]
    /\ UNCHANGED <<connVars, registryVars, terminating, issued>>

\* Variant: the termination mark outlives the entry.
RemoveEntryOnly(e) ==
    /\ entries' = entries \ {e}
    /\ UNCHANGED terminating

RemoveEntry(e) ==
    /\ entries' = entries \ {e}
    /\ terminating' = terminating \ {e}

\* finalize_ready and notify_local_ipc_execution_finalized: every viewer's
\* record goes, the connections in C, whose notice cannot be queued, are
\* closed, the others fall back to another attachment or to Ready.
Finalize(e, C) ==
    LET gone == ViewersOf(e) \cup AttachmentsReleasedWith(C)
        viewers == {connOf[a] : a \in ViewersOf(e)}
        left(c) == AttachmentsOn(c) \ gone
    IN /\ e \in entries
       /\ C \subseteq viewers
       /\ RemoveEntry(e)
       /\ entryAtts' = [x \in Execs |-> IF x = e THEN {}
                                        ELSE entryAtts[x] \ gone]
       /\ DropRecords(gone)
       /\ controllers' = [LeasesAfterDetach(gone) EXCEPT ![e] = None]
       /\ primary' \in {p \in [Conns -> Ids \cup {None}] : \A c \in Conns :
              CASE c \in C -> p[c] = None
                [] c \notin C /\ primary[c] \in ViewersOf(e)
                     -> p[c] \in AnyOf(left(c))
                [] OTHER -> p[c] = primary[c]}
       /\ connState' = [c \in Conns |->
              CASE c \in C -> "Closed"
                [] c \in viewers \ C /\ left(c) = {} -> "Ready"
                [] OTHER -> connState[c]]
       /\ negotiated' = negotiated \ C
       /\ provisioner' = provisioner \ C
       /\ lastRequest' = [c \in Conns |-> IF c \in C THEN 0
                                          ELSE lastRequest[c]]
       /\ lastResize' = [c \in Conns |-> IF c \in C THEN 0
                                         ELSE lastResize[c]]
       /\ UNCHANGED issued

-----------------------------------------------------------------------------
Init ==
    /\ connState = [c \in Conns |-> "Unaccepted"]
    /\ negotiated = {}
    /\ provisioner = {}
    /\ primary = [c \in Conns |-> None]
    /\ lastRequest = [c \in Conns |-> 0]
    /\ lastResize = [c \in Conns |-> 0]
    /\ execOf = [a \in Ids |-> None]
    /\ connOf = [a \in Ids |-> None]
    /\ controlling = {}
    /\ suspended = {}
    /\ sequence = [a \in Ids |-> 0]
    /\ controllers = [e \in Execs |-> None]
    /\ entries = {}
    /\ entryAtts = [e \in Execs |-> {}]
    /\ terminating = {}
    /\ issued = {}

Next ==
    \/ \E c \in Conns : Accept(c) \/ Hello(c) \/ CloseConnection(c)
    \/ \E c \in Conns, e \in Execs, r \in Roles, a \in Ids :
            Attach(c, e, r, a)
    \/ \E c \in Conns, a \in Ids : Detach(c, a) \/ Suspend(c, a)
    \/ \E c \in Conns, a \in Ids, s \in 1..MaxSequence : Resume(c, a, s)
    \/ \E c \in Conns, a \in Ids, id \in 1..MaxRequest :
            ResizeRequest(c, a, id)
    \/ \E c \in Conns, a \in Ids, e \in Execs, id \in 1..MaxRequest :
            Terminate(c, a, e, id)
    \/ \E e \in Execs : Create(e)
    \/ \E e \in Execs, C \in SUBSET Conns : Finalize(e, C)

Spec == Init /\ [][Next]_vars

-----------------------------------------------------------------------------
(* Properties. *)

TypeOK ==
    /\ connState \in [Conns -> ConnStates]
    /\ negotiated \subseteq Conns
    /\ provisioner \subseteq Conns
    /\ primary \in [Conns -> Ids \cup {None}]
    /\ lastRequest \in [Conns -> Nat]
    /\ lastResize \in [Conns -> Nat]
    /\ execOf \in [Ids -> Execs \cup {None}]
    /\ connOf \in [Ids -> Conns \cup {None}]
    /\ controlling \subseteq Ids
    /\ suspended \subseteq Ids
    /\ sequence \in [Ids -> Nat]
    /\ controllers \in [Execs -> Ids \cup {None}]
    /\ entries \subseteq Execs
    /\ entryAtts \in [Execs -> SUBSET Ids]
    /\ terminating \subseteq entries
    /\ issued \subseteq Ids

\* The controllers map and the roles in the records tell the same story: an
\* execution's lease names an attachment exactly when that attachment is live,
\* belongs to the execution and has the Controller role.  The handlers write
\* the two separately and consult sometimes one (has_controller), sometimes
\* the other (authorize_mutation, role_of).
LeaseMatchesRecords ==
    \A e \in Execs, a \in Ids :
        controllers[e] = a <=> execOf[a] = e /\ a \in controlling

\* Entry::attachments, which execution summaries count, equals the registry's
\* viewers of that execution through attach, detach, hang-up and finalisation,
\* and no record outlives its execution's entry.
EntriesMatchRegistry ==
    \A e \in Execs :
        /\ entryAtts[e] = ViewersOf(e)
        /\ e \notin entries => ViewersOf(e) = {}

\* The connection table and the registry agree: a live attachment belongs to a
\* connection in state Attached, an Attached connection has an attachment, and
\* the primary one that unaddressed requests fall back to is among them.
ConnectionsMatchRegistry ==
    /\ \A a \in Live : connOf[a] \in Conns /\ connState[connOf[a]] = "Attached"
    /\ \A c \in Conns :
        /\ connState[c] = "Attached" <=> primary[c] # None
        /\ primary[c] # None => OnConnection(c, primary[c])

\* A connection has at most one live attachment per execution, suspended ones
\* included, and without delivery control at most one in all: frames carry no
\* attachment envelope there, so a second view would be indistinguishable.
ViewsAreDistinguishable ==
    \A a, b \in Live :
        /\ a # b
        /\ connOf[a] = connOf[b]
        => execOf[a] # execOf[b] /\ connOf[a] \in negotiated

\* "an unauthorized or stale request cannot poison the request-ID sequence for
\* a later valid attachment" (handle_resize_request): a resize id is spent only
\* by the connection that controls some execution at that moment.
ResizeIdsSpentByControllers ==
    [][\A c \in Conns :
        lastResize'[c] > lastResize[c] =>
            \E e \in Execs :
                controllers[e] # None /\ connOf[controllers[e]] = c]_vars

\* Who controls an execution, as the abstract specification sees it.
Holder == [e \in Execs |-> IF controllers[e] = None THEN None
                           ELSE connOf[controllers[e]]]

Lease == INSTANCE ControllerLease
            WITH alive <- entries, holder <- Holder, stopping <- terminating

\* The registry and its handlers implement the controller lease: control goes
\* from one connection to another only through nobody, and termination is
\* requested only by the connection that holds the lease.
LeaseSpec == Lease!Spec
=============================================================================
