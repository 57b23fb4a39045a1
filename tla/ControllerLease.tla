-------------------------- MODULE ControllerLease --------------------------
(***************************************************************************)
(* What the local IPC promises about control of an execution, with none of *)
(* the machinery: at any time at most one connection controls an           *)
(* execution, the lease returns to nobody before another connection gets   *)
(* it, and only the holder can have the execution terminated.              *)
(* AttachmentAuthority implements this specification.                      *)
(***************************************************************************)
CONSTANTS Conns, Execs, None

VARIABLES
    alive,      \* executions the Runtime has an entry for
    holder,     \* [Execs -> Conns \cup {None}]: who controls it
    stopping    \* executions a client has had terminated

vars == <<alive, holder, stopping>>

Init ==
    /\ alive = {}
    /\ holder = [e \in Execs |-> None]
    /\ stopping = {}

\* The leases on the executions in S return to nobody.
Freed(S) == [e \in Execs |-> IF e \in S THEN None ELSE holder[e]]

Start(e) ==
    /\ e \notin alive
    /\ alive' = alive \cup {e}
    /\ UNCHANGED <<holder, stopping>>

Grant(c, e) ==
    /\ e \in alive
    /\ holder[e] = None
    /\ holder' = [holder EXCEPT ![e] = c]
    /\ UNCHANGED <<alive, stopping>>

Revoke(S) ==
    /\ holder' = Freed(S)
    /\ UNCHANGED <<alive, stopping>>

\* The holder has the execution terminated; a holder that cannot be answered
\* loses its leases.
Stop(c, e, S) ==
    /\ e \in alive
    /\ holder[e] = c
    /\ stopping' = stopping \cup {e}
    /\ holder' = Freed(S)
    /\ UNCHANGED alive

\* An execution ends; connections that cannot be told lose their leases too.
Finish(e, S) ==
    /\ e \in alive
    /\ e \in S
    /\ alive' = alive \ {e}
    /\ stopping' = stopping \ {e}
    /\ holder' = Freed(S)

Next ==
    \/ \E e \in Execs : Start(e)
    \/ \E c \in Conns, e \in Execs : Grant(c, e)
    \/ \E c \in Conns, e \in Execs, S \in SUBSET Execs : Stop(c, e, S)
    \/ \E S \in SUBSET Execs : Revoke(S)
    \/ \E e \in Execs, S \in SUBSET Execs : Finish(e, S)

Spec == Init /\ [][Next]_vars
=============================================================================
