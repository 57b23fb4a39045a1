---------------------- MODULE AttachmentAuthorityProofs ---------------------
(***************************************************************************)
(* For any numbers of connections, executions and attachments: the         *)
(* controllers map, the records, the entries and the connection table      *)
(* always agree, and the handlers implement the controller lease.          *)
(*                                                                         *)
(* None of the agreements is inductive alone.  Granting a lease reads the  *)
(* map and using it reads the record; dropping a connection's attachments  *)
(* goes through connection_token; a connection without delivery control    *)
(* is kept to one attachment by the absence of a delivering one, which     *)
(* takes that only negotiated connections ever suspend.  Residue collects  *)
(* what a dead id leaves behind: nothing.                                  *)
(***************************************************************************)
EXTENDS AttachmentAuthority, TLAPS

Residue ==
    \A a \in Ids :
        /\ execOf[a] = None <=> connOf[a] = None
        /\ execOf[a] # None => a \in issued
        /\ execOf[a] = None => a \notin controlling /\ a \notin suspended
        /\ a \in suspended => connOf[a] \in negotiated

IInv ==
    /\ TypeOK
    /\ Residue
    /\ LeaseMatchesRecords
    /\ EntriesMatchRegistry
    /\ ConnectionsMatchRegistry
    /\ ViewsAreDistinguishable

\* Dropping the records of a set of attachments takes exactly their leases.
LEMMA LeasesGoWithRecords ==
    ASSUME IInv, NEW A \in SUBSET Ids
    PROVE  LeasesAfterDetach(A) =
             [e \in Execs |-> IF controllers[e] \in A THEN None
                                                      ELSE controllers[e]]
  BY ConstantsAssumption
     DEF IInv, TypeOK, LeaseMatchesRecords, LeasesAfterDetach

\* A connection's attachments are those its records name: the primary one,
\* which close_local_connection adds, is always among them.
LEMMA ReleasedAreOnConnection ==
    ASSUME IInv, NEW C \in SUBSET Conns
    PROVE  /\ AttachmentsReleasedWith(C) = {a \in Ids : connOf[a] \in C}
           /\ AttachmentsReleasedWith(C) \subseteq Ids
  BY ConstantsAssumption
     DEF IInv, TypeOK, ConnectionsMatchRegistry, AttachmentsReleasedWith,
         OnConnection, AttachmentsOn, Live

\* Closing a set of connections preserves the invariant, whatever the closing
\* handler did to the termination marks before.
LEMMA ClosingPreservesIInv ==
    ASSUME IInv, NEW C \in SUBSET Conns,
           Closed(C),
           DetachAll(AttachmentsReleasedWith(C)),
           ForgetInEntries(AttachmentsReleasedWith(C)),
           entries' = entries, terminating' \subseteq entries,
           issued' = issued
    PROVE  IInv'
  <1> DEFINE A == {a \in Ids : connOf[a] \in C}
  <1>1. A = AttachmentsReleasedWith(C) /\ A \in SUBSET Ids
    BY ReleasedAreOnConnection
  <1>2. controllers' = [e \in Execs |-> IF controllers[e] \in A THEN None
                                                          ELSE controllers[e]]
    BY <1>1, LeasesGoWithRecords DEF DetachAll
  <1>3. /\ execOf' = [a \in Ids |-> IF a \in A THEN None ELSE execOf[a]]
        /\ connOf' = [a \in Ids |-> IF a \in A THEN None ELSE connOf[a]]
        /\ controlling' = controlling \ A
        /\ suspended' = suspended \ A
        /\ sequence' = [a \in Ids |-> IF a \in A THEN 0 ELSE sequence[a]]
        /\ entryAtts' = [e \in Execs |-> entryAtts[e] \ A]
    BY <1>1 DEF DetachAll, DropRecords, ForgetInEntries
  <1>4. TypeOK'
    BY <1>2, <1>3 DEF IInv, TypeOK, Closed, ConnStates
  <1>5. Residue'
    BY <1>3, ConstantsAssumption DEF IInv, TypeOK, Residue, Closed
  <1>6. LeaseMatchesRecords'
    BY <1>2, <1>3, ConstantsAssumption DEF IInv, TypeOK, LeaseMatchesRecords
  <1>7. EntriesMatchRegistry'
    BY <1>3, ConstantsAssumption
       DEF IInv, TypeOK, EntriesMatchRegistry, ViewersOf, Live
  <1>8. ConnectionsMatchRegistry'
    BY <1>3, ConstantsAssumption
       DEF IInv, TypeOK, ConnectionsMatchRegistry, OnConnection,
           AttachmentsOn, Live, Closed
  <1>9. ViewsAreDistinguishable'
    BY <1>3, ConstantsAssumption
       DEF IInv, TypeOK, ViewsAreDistinguishable, Live, Closed
  <1> QED
    BY <1>4, <1>5, <1>6, <1>7, <1>8, <1>9 DEF IInv

\* The initial state satisfies every conjunct.
LEMMA InitEstablishesIInv == Init => IInv
  <1> SUFFICES ASSUME Init PROVE IInv
    OBVIOUS
  <1>1. TypeOK
    BY DEF Init, TypeOK, ConnStates
  <1>2. Residue
    BY DEF Init, Residue
  <1>3. LeaseMatchesRecords
    BY ConstantsAssumption DEF Init, LeaseMatchesRecords
  <1>4. EntriesMatchRegistry /\ ViewsAreDistinguishable
    BY ConstantsAssumption
       DEF Init, EntriesMatchRegistry, ViewsAreDistinguishable, ViewersOf,
           Live
  <1>5. ConnectionsMatchRegistry
    BY DEF Init, ConnectionsMatchRegistry, Live
  <1> QED
    BY <1>1, <1>2, <1>3, <1>4, <1>5 DEF IInv

\* Every action preserves the invariant.
LEMMA NextPreservesIInv == IInv /\ [Next]_vars => IInv'
  <1> SUFFICES ASSUME IInv, [Next]_vars PROVE IInv'
    OBVIOUS
  <1>1. CASE UNCHANGED vars
    BY <1>1
       DEF IInv, TypeOK, Residue, LeaseMatchesRecords, EntriesMatchRegistry,
           ConnectionsMatchRegistry, ViewsAreDistinguishable, ViewersOf,
           OnConnection, AttachmentsOn, Live, vars, connVars, registryVars,
           recordVars, entryVars
  <1>2. ASSUME NEW c \in Conns, Accept(c) PROVE IInv'
    <2>1. TypeOK'
      BY <1>2 DEF IInv, TypeOK, Accept, ConnStates, registryVars,
                  recordVars, entryVars
    <2>2. Residue' /\ LeaseMatchesRecords'
      BY <1>2 DEF IInv, Residue, LeaseMatchesRecords, Accept, registryVars,
                  recordVars, entryVars
    <2>3. EntriesMatchRegistry' /\ ViewsAreDistinguishable'
      BY <1>2 DEF IInv, EntriesMatchRegistry, ViewsAreDistinguishable,
                  ViewersOf, Live, Accept, registryVars, recordVars, entryVars
    <2>4. ConnectionsMatchRegistry'
      BY <1>2 DEF IInv, TypeOK, ConnectionsMatchRegistry, OnConnection,
                  AttachmentsOn, Live, Accept, registryVars, recordVars
    <2> QED
      BY <2>1, <2>2, <2>3, <2>4 DEF IInv
  <1>3. ASSUME NEW c \in Conns, Hello(c) PROVE IInv'
    <2>1. TypeOK'
      BY <1>3 DEF IInv, TypeOK, Hello, ConnStates, registryVars,
                  recordVars, entryVars
    <2>2. Residue' /\ LeaseMatchesRecords'
      BY <1>3 DEF IInv, Residue, LeaseMatchesRecords, Hello, registryVars,
                  recordVars, entryVars
    <2>3. EntriesMatchRegistry' /\ ViewsAreDistinguishable'
      BY <1>3 DEF IInv, EntriesMatchRegistry, ViewsAreDistinguishable,
                  ViewersOf, Live, Hello, registryVars, recordVars, entryVars
    <2>4. ConnectionsMatchRegistry'
      BY <1>3 DEF IInv, TypeOK, ConnectionsMatchRegistry, OnConnection,
                  AttachmentsOn, Live, Hello, registryVars, recordVars
    <2> QED
      BY <2>1, <2>2, <2>3, <2>4 DEF IInv
  <1>4. ASSUME NEW c \in Conns, CloseConnection(c) PROVE IInv'
    BY <1>4, ClosingPreservesIInv DEF CloseConnection, IInv, TypeOK
  <1>5. ASSUME NEW c \in Conns, NEW e \in Execs, NEW r \in Roles,
               NEW a \in Ids, Attach(c, e, r, a)
        PROVE  IInv'
    <2>1. execOf[a] = None /\ connOf[a] = None
      BY <1>5 DEF IInv, Residue, Attach
    <2>2. AttachmentsOn(c) # {} => c \in negotiated
      BY <1>5 DEF IInv, Residue, Attach, MayAttach, DeliveringOn,
                  AttachmentsOn, Live
    <2>3. TypeOK'
      BY <1>5 DEF IInv, TypeOK, Attach, Insert, ConnStates
    <2>4. Residue'
      BY <1>5, ConstantsAssumption
         DEF IInv, TypeOK, Residue, Attach, Insert
    <2>5. LeaseMatchesRecords'
      BY <1>5, <2>1, ConstantsAssumption
         DEF IInv, TypeOK, LeaseMatchesRecords, Residue, Attach, Insert,
             MayAttach, Roles
    <2>6. EntriesMatchRegistry'
      BY <1>5, <2>1, ConstantsAssumption
         DEF IInv, TypeOK, EntriesMatchRegistry, ViewersOf, Live, Attach,
             Insert, MayAttach
    <2>7. ConnectionsMatchRegistry'
      BY <1>5, <2>1, ConstantsAssumption
         DEF IInv, TypeOK, ConnectionsMatchRegistry, OnConnection,
             AttachmentsOn, Live, Attach, Insert
    <2>8. ViewsAreDistinguishable'
      BY <1>5, <2>1, <2>2, ConstantsAssumption
         DEF IInv, TypeOK, ViewsAreDistinguishable, HasExecutionOn,
             AttachmentsOn, Live, Attach, Insert, MayAttach
    <2> QED
      BY <2>3, <2>4, <2>5, <2>6, <2>7, <2>8 DEF IInv
  <1>6. ASSUME NEW c \in Conns, NEW a \in Ids, Detach(c, a)
        PROVE  IInv'
    <2>1. controllers' = [e \in Execs |-> IF controllers[e] \in {a} THEN None
                                                          ELSE controllers[e]]
      BY <1>6, LeasesGoWithRecords DEF Detach, DetachAll
    <2>2. /\ execOf' = [b \in Ids |-> IF b = a THEN None ELSE execOf[b]]
          /\ connOf' = [b \in Ids |-> IF b = a THEN None ELSE connOf[b]]
          /\ controlling' = controlling \ {a}
          /\ suspended' = suspended \ {a}
          /\ sequence' = [b \in Ids |-> IF b = a THEN 0 ELSE sequence[b]]
          /\ entryAtts' = [e \in Execs |-> entryAtts[e] \ {a}]
      BY <1>6 DEF Detach, DetachAll, DropRecords, ForgetInEntries
    <2>3. PICK next \in AnyOf(AttachmentsOn(c) \ {a}) :
             primary' = IF primary[c] = a
                        THEN [primary EXCEPT ![c] = next] ELSE primary
      BY <1>6 DEF Detach
    <2>4. next \in Ids \cup {None}
      BY <2>3 DEF AnyOf, AttachmentsOn, Live
    <2>5. TypeOK'
      BY <1>6, <2>1, <2>2, <2>3, <2>4 DEF IInv, TypeOK, Detach, ConnStates
    <2>6. Residue'
      BY <1>6, <2>2, ConstantsAssumption DEF IInv, TypeOK, Residue, Detach
    <2>7. LeaseMatchesRecords'
      BY <2>1, <2>2, ConstantsAssumption DEF IInv, TypeOK, LeaseMatchesRecords
    <2>8. EntriesMatchRegistry'
      BY <1>6, <2>2, ConstantsAssumption
         DEF IInv, TypeOK, EntriesMatchRegistry, ViewersOf, Live, Detach
    <2>9. ConnectionsMatchRegistry'
      BY <1>6, <2>2, <2>3, ConstantsAssumption
         DEF IInv, TypeOK, ConnectionsMatchRegistry, OnConnection, AnyOf,
             AttachmentsOn, Live, Detach
    <2>10. ViewsAreDistinguishable'
      BY <1>6, <2>2, ConstantsAssumption
         DEF IInv, TypeOK, ViewsAreDistinguishable, Live, Detach
    <2> QED
      BY <2>5, <2>6, <2>7, <2>8, <2>9, <2>10 DEF IInv
  <1>7. ASSUME NEW c \in Conns, NEW a \in Ids, Suspend(c, a)
        PROVE  IInv'
    <2>1. TypeOK'
      BY <1>7 DEF IInv, TypeOK, Suspend, connVars, entryVars
    <2>2. Residue' /\ LeaseMatchesRecords'
      BY <1>7 DEF IInv, Residue, LeaseMatchesRecords, Suspend, OnConnection,
                  AttachmentsOn, Live, connVars
    <2>3. EntriesMatchRegistry' /\ ViewsAreDistinguishable'
      BY <1>7 DEF IInv, EntriesMatchRegistry, ViewsAreDistinguishable,
                  ViewersOf, Live, Suspend, connVars, entryVars
    <2>4. ConnectionsMatchRegistry'
      BY <1>7 DEF IInv, ConnectionsMatchRegistry, OnConnection,
                  AttachmentsOn, Live, Suspend, connVars
    <2> QED
      BY <2>1, <2>2, <2>3, <2>4 DEF IInv
  <1>8. ASSUME NEW c \in Conns, NEW a \in Ids, NEW s \in 1..MaxSequence,
               Resume(c, a, s)
        PROVE  IInv'
    <2>1. TypeOK'
      BY <1>8 DEF IInv, TypeOK, Resume, entryVars
    <2>2. Residue' /\ LeaseMatchesRecords'
      BY <1>8 DEF IInv, Residue, LeaseMatchesRecords, Resume
    <2>3. EntriesMatchRegistry' /\ ViewsAreDistinguishable'
      BY <1>8 DEF IInv, EntriesMatchRegistry, ViewsAreDistinguishable,
                  ViewersOf, Live, Resume, entryVars
    <2>4. ConnectionsMatchRegistry'
      BY <1>8, ConstantsAssumption
         DEF IInv, TypeOK, ConnectionsMatchRegistry, OnConnection,
             AttachmentsOn, Live, Resume
    <2> QED
      BY <2>1, <2>2, <2>3, <2>4 DEF IInv
  <1>9. ASSUME NEW c \in Conns, NEW a \in Ids, NEW id \in 1..MaxRequest,
               ResizeRequest(c, a, id)
        PROVE  IInv'
    <2>1. TypeOK'
      BY <1>9 DEF IInv, TypeOK, ResizeRequest, registryVars, recordVars,
                  entryVars
    <2>2. Residue' /\ LeaseMatchesRecords'
      BY <1>9 DEF IInv, Residue, LeaseMatchesRecords, ResizeRequest,
                  registryVars, recordVars
    <2>3. EntriesMatchRegistry' /\ ViewsAreDistinguishable'
      BY <1>9 DEF IInv, EntriesMatchRegistry, ViewsAreDistinguishable,
                  ViewersOf, Live, ResizeRequest, registryVars, recordVars,
                  entryVars
    <2>4. ConnectionsMatchRegistry'
      BY <1>9 DEF IInv, ConnectionsMatchRegistry, OnConnection,
                  AttachmentsOn, Live, ResizeRequest, registryVars, recordVars
    <2> QED
      BY <2>1, <2>2, <2>3, <2>4 DEF IInv
  <1>10. ASSUME NEW c \in Conns, NEW a \in Ids, NEW e \in Execs,
                NEW id \in 1..MaxRequest, Terminate(c, a, e, id)
         PROVE  IInv'
    <2>1. terminating' \subseteq entries /\ entries' = entries
          /\ issued' = issued
      BY <1>10, ConstantsAssumption
         DEF IInv, TypeOK, EntriesMatchRegistry, ViewersOf, Terminate,
             MayTerminate, OnConnection, AttachmentsOn, Live
    <2>2. CASE /\ Closed({c})
               /\ DetachAll(AttachmentsReleasedWith({c}))
               /\ ForgetInEntries(AttachmentsReleasedWith({c}))
      BY <2>1, <2>2, ClosingPreservesIInv
    <2>3. CASE /\ lastRequest' = [lastRequest EXCEPT ![c] = id]
               /\ UNCHANGED <<connState, negotiated, provisioner, primary,
                              lastResize, registryVars, entryAtts>>
      <3>1. TypeOK'
        BY <2>1, <2>3 DEF IInv, TypeOK, registryVars, recordVars
      <3>2. Residue' /\ LeaseMatchesRecords'
        BY <2>1, <2>3 DEF IInv, Residue, LeaseMatchesRecords, registryVars,
                          recordVars
      <3>3. EntriesMatchRegistry' /\ ViewsAreDistinguishable'
        BY <2>1, <2>3 DEF IInv, EntriesMatchRegistry,
                  ViewsAreDistinguishable, ViewersOf, Live, registryVars,
                  recordVars
      <3>4. ConnectionsMatchRegistry'
        BY <2>3 DEF IInv, ConnectionsMatchRegistry, OnConnection,
                    AttachmentsOn, Live, registryVars, recordVars
      <3> QED
        BY <3>1, <3>2, <3>3, <3>4 DEF IInv
    <2> QED
      BY <1>10, <2>2, <2>3 DEF Terminate
  <1>11. ASSUME NEW e \in Execs, Create(e) PROVE IInv'
    <2>1. TypeOK'
      BY <1>11 DEF IInv, TypeOK, Create, connVars, registryVars, recordVars
    <2>2. Residue' /\ LeaseMatchesRecords'
      BY <1>11 DEF IInv, Residue, LeaseMatchesRecords, Create, connVars,
                   registryVars, recordVars
    <2>3. EntriesMatchRegistry' /\ ViewsAreDistinguishable'
      BY <1>11 DEF IInv, TypeOK, EntriesMatchRegistry,
                  ViewsAreDistinguishable, ViewersOf, Live, Create,
                  connVars, registryVars, recordVars
    <2>4. ConnectionsMatchRegistry'
      BY <1>11 DEF IInv, ConnectionsMatchRegistry, OnConnection,
                   AttachmentsOn, Live, Create, connVars, registryVars,
                   recordVars
    <2> QED
      BY <2>1, <2>2, <2>3, <2>4 DEF IInv
  <1>12. ASSUME NEW e \in Execs, NEW C \in SUBSET Conns, Finalize(e, C)
         PROVE  IInv'
    <2> DEFINE V == {a \in Ids : execOf[a] = e}
               gone == {a \in Ids : execOf[a] = e \/ connOf[a] \in C}
               viewers == {connOf[a] : a \in V}
               left(c) == AttachmentsOn(c) \ gone
    <2>1. V = ViewersOf(e) /\ gone = V \cup AttachmentsReleasedWith(C)
      BY ReleasedAreOnConnection, ConstantsAssumption DEF ViewersOf, Live
    <2>2. LeasesAfterDetach(gone) =
             [x \in Execs |-> IF controllers[x] \in gone THEN None
                                                         ELSE controllers[x]]
      BY LeasesGoWithRecords
    <2>3. controllers' = [x \in Execs |-> IF x = e \/ controllers[x] \in gone
                                          THEN None ELSE controllers[x]]
      <3>1. controllers' = [LeasesAfterDetach(
                               ViewersOf(e) \cup AttachmentsReleasedWith(C))
                            EXCEPT ![e] = None]
        BY <1>12 DEF Finalize
      <3>2. controllers' = [LeasesAfterDetach(gone) EXCEPT ![e] = None]
        BY <2>1, <3>1
      <3> QED
        BY <2>2, <3>2
    <2>4. /\ execOf' = [a \in Ids |-> IF a \in gone THEN None ELSE execOf[a]]
          /\ connOf' = [a \in Ids |-> IF a \in gone THEN None ELSE connOf[a]]
          /\ controlling' = controlling \ gone
          /\ suspended' = suspended \ gone
          /\ sequence' = [a \in Ids |-> IF a \in gone THEN 0 ELSE sequence[a]]
      BY <1>12, <2>1 DEF Finalize, DropRecords
    <2>5. /\ entryAtts' = [x \in Execs |-> IF x = e THEN {}
                                            ELSE entryAtts[x] \ gone]
          /\ entries' = entries \ {e}
          /\ terminating' = terminating \ {e}
      <3>1. entryAtts' = [x \in Execs |-> IF x = e THEN {}
                 ELSE entryAtts[x] \ (ViewersOf(e)
                                       \cup AttachmentsReleasedWith(C))]
        BY <1>12 DEF Finalize
      <3>2. /\ entries' = entries \ {e}
            /\ terminating' = terminating \ {e}
        BY <1>12 DEF Finalize, RemoveEntry
      <3> QED
        BY <2>1, <3>1, <3>2
    <2>6. /\ primary' \in [Conns -> Ids \cup {None}]
          /\ \A c \in Conns : c \in C => primary'[c] = None
          /\ \A c \in Conns : c \notin C /\ primary[c] \in V
                                => primary'[c] \in AnyOf(left(c))
          /\ \A c \in Conns : c \notin C /\ primary[c] \notin V
                                => primary'[c] = primary[c]
      BY <1>12, <2>1 DEF Finalize
    <2>7. /\ connState' \in [Conns -> ConnStates]
          /\ \A c \in Conns : c \in C => connState'[c] = "Closed"
          /\ \A c \in Conns : c \in viewers \ C /\ left(c) = {}
                                => connState'[c] = "Ready"
          /\ \A c \in Conns : c \notin C /\ ~(c \in viewers /\ left(c) = {})
                                => connState'[c] = connState[c]
      BY <1>12, <2>1 DEF Finalize, IInv, TypeOK, ConnStates
    <2>8. C \subseteq viewers
      BY <1>12, <2>1 DEF Finalize
    <2> HIDE DEF left
    <2>9. TypeOK'
      <3>1. /\ negotiated' = negotiated \ C
            /\ provisioner' = provisioner \ C
            /\ lastRequest' = [c \in Conns |-> IF c \in C THEN 0
                                               ELSE lastRequest[c]]
            /\ lastResize' = [c \in Conns |-> IF c \in C THEN 0
                                              ELSE lastResize[c]]
            /\ issued' = issued
        BY <1>12 DEF Finalize
      <3> HIDE DEF gone, viewers
      <3> QED
        BY <2>3, <2>4, <2>5, <2>6, <2>7, <3>1 DEF IInv, TypeOK
    <2>10. Residue'
      BY <1>12, <2>4, ConstantsAssumption DEF IInv, TypeOK, Residue, Finalize
    <2>11. LeaseMatchesRecords'
      BY <2>3, <2>4, ConstantsAssumption DEF IInv, TypeOK, LeaseMatchesRecords
    <2>12. EntriesMatchRegistry'
      BY <2>4, <2>5, ConstantsAssumption
         DEF IInv, TypeOK, EntriesMatchRegistry, ViewersOf, Live
    <2>13. ViewsAreDistinguishable'
      BY <1>12, <2>4, ConstantsAssumption
         DEF IInv, TypeOK, ViewsAreDistinguishable, Live, Finalize
    <2>14. \A c \in Conns : left(c) = {a \in Ids : execOf'[a] # None
                                               /\ connOf'[a] = c}
      BY <2>4, ConstantsAssumption
         DEF IInv, TypeOK, left, AttachmentsOn, Live
    <2>15. \A a \in Live' : connOf'[a] \in Conns
                            /\ connState'[connOf'[a]] = "Attached"
      <3> SUFFICES ASSUME NEW a \in Ids, execOf'[a] # None
                   PROVE  connOf'[a] \in Conns
                          /\ connState'[connOf'[a]] = "Attached"
        BY DEF Live
      <3>1. a \notin gone /\ execOf'[a] = execOf[a] /\ connOf'[a] = connOf[a]
        BY <2>4
      <3>2. connOf[a] \in Conns /\ connState[connOf[a]] = "Attached"
        BY <3>1 DEF IInv, ConnectionsMatchRegistry, Live
      <3>3. a \in left(connOf[a]) /\ connOf[a] \notin C
        BY <2>14, <3>1, <3>2
      <3> QED
        BY <2>7, <3>1, <3>2, <3>3
    <2>16. ASSUME NEW c \in Conns
           PROVE  /\ connState'[c] = "Attached" <=> primary'[c] # None
                  /\ primary'[c] # None => OnConnection(c, primary[c])'
      <3>1. connState[c] = "Attached" <=> primary[c] # None
        BY DEF IInv, ConnectionsMatchRegistry
      <3>2. primary[c] # None => /\ primary[c] \in Ids
                                 /\ execOf[primary[c]] # None
                                 /\ connOf[primary[c]] = c
        BY DEF IInv, ConnectionsMatchRegistry, OnConnection, AttachmentsOn,
               Live
      <3>3. c \in viewers => connState[c] = "Attached"
        BY ConstantsAssumption DEF IInv, ConnectionsMatchRegistry, Live
      <3>4. CASE c \in C
        BY <2>6, <2>7, <3>4
      <3>5. CASE c \notin C /\ primary[c] \in V
        <4>1. c \in viewers /\ primary[c] # None
          BY <3>2, <3>5, ConstantsAssumption
        <4>2. primary'[c] \in AnyOf(left(c))
          BY <2>6, <3>5
        <4>3. CASE left(c) = {}
          BY <2>7, <3>5, <4>1, <4>2, <4>3 DEF AnyOf
        <4>4. CASE left(c) # {}
          <5>1. primary'[c] \in left(c)
            BY <4>2, <4>4 DEF AnyOf
          <5>2. connState'[c] = "Attached"
            BY <2>7, <3>1, <3>5, <4>1, <4>4
          <5>3. OnConnection(c, primary[c])' /\ primary'[c] \in Ids
            BY <2>14, <5>1 DEF OnConnection, AttachmentsOn, Live
          <5> QED
            BY <5>2, <5>3, ConstantsAssumption
        <4> QED
          BY <4>3, <4>4
      <3>6. CASE c \notin C /\ primary[c] \notin V
        <4>1. primary'[c] = primary[c]
          BY <2>6, <3>6
        <4>2. CASE primary[c] = None
          <5>1. c \notin viewers
            BY <3>1, <3>3, <4>2
          <5> QED
            BY <2>7, <3>1, <3>6, <4>1, <4>2, <5>1
        <4>3. CASE primary[c] # None
          <5>1. primary[c] \notin gone
            BY <3>2, <3>6, <4>3
          <5>2. primary[c] \in left(c)
            BY <2>4, <2>14, <3>2, <4>3, <5>1
          <5>3. connState'[c] = "Attached"
            BY <2>7, <3>1, <3>6, <4>3, <5>2
          <5> QED
            BY <2>14, <4>1, <4>3, <5>2, <5>3
               DEF OnConnection, AttachmentsOn, Live
        <4> QED
          BY <4>2, <4>3
      <3> QED
        BY <3>4, <3>5, <3>6
    <2>17. ConnectionsMatchRegistry'
      BY <2>15, <2>16 DEF ConnectionsMatchRegistry
    <2> QED
      BY <2>9, <2>10, <2>11, <2>12, <2>13, <2>17 DEF IInv
  <1> QED
    BY <1>1, <1>2, <1>3, <1>4, <1>5, <1>6, <1>7, <1>8, <1>9, <1>10, <1>11,
       <1>12
       DEF Next

-----------------------------------------------------------------------------
(* Consequences. *)

LEMMA IInvAlways == Spec => []IInv
  BY InitEstablishesIInv, NextPreservesIInv, PTL DEF Spec

\* The variables of the attachment model keep their types.
THEOREM AttachmentTypeCorrect == Spec => []TypeOK
  <1>1. IInv => TypeOK
    BY DEF IInv
  <1> QED
    BY IInvAlways, <1>1, PTL

\* has_controller, which reads the controllers map, and authorize_mutation,
\* which reads the record, never disagree about who controls an execution.
THEOREM LeaseAndRecordsAgree == Spec => []LeaseMatchesRecords
  <1>1. IInv => LeaseMatchesRecords
    BY DEF IInv
  <1> QED
    BY IInvAlways, <1>1, PTL

\* The entries, the connection table and the registry list the same
\* attachments, and each view of a connection can be told from its others.
THEOREM TablesAgree ==
    Spec => [](EntriesMatchRegistry /\ ConnectionsMatchRegistry
               /\ ViewsAreDistinguishable)
  <1>1. IInv => EntriesMatchRegistry /\ ConnectionsMatchRegistry
                /\ ViewsAreDistinguishable
    BY DEF IInv
  <1> QED
    BY IInvAlways, <1>1, PTL

\* Losing the records of A frees exactly the executions A's members control.
LEMMA HolderAfterDrop ==
    ASSUME IInv, NEW A \in SUBSET Ids, NEW S \in SUBSET Execs,
           \A e \in Execs : controllers[e] \in A => e \in S,
           controllers' = [e \in Execs |-> IF e \in S THEN None
                                                     ELSE controllers[e]],
           connOf' = [a \in Ids |-> IF a \in A THEN None ELSE connOf[a]]
    PROVE  Holder' = Lease!Freed(S)
  BY ConstantsAssumption DEF IInv, TypeOK, Holder, Lease!Freed

\* Closing connections is a Revoke of the abstract specification.
LEMMA HolderAfterClosing ==
    ASSUME IInv, NEW C \in SUBSET Conns,
           DetachAll(AttachmentsReleasedWith(C))
    PROVE  \E S \in SUBSET Execs : Holder' = Lease!Freed(S)
  <1> DEFINE A == AttachmentsReleasedWith(C)
             S == {e \in Execs : controllers[e] \in A}
  <1>1. A \in SUBSET Ids
    BY ReleasedAreOnConnection
  <1>2. controllers' = [e \in Execs |-> IF e \in S THEN None
                                                   ELSE controllers[e]]
    BY <1>1, LeasesGoWithRecords DEF DetachAll
  <1>3. connOf' = [a \in Ids |-> IF a \in A THEN None ELSE connOf[a]]
    BY DEF DetachAll, DropRecords
  <1>4. S \in SUBSET Execs /\ \A e \in Execs : controllers[e] \in A => e \in S
    OBVIOUS
  <1> HIDE DEF A, S
  <1>5. Holder' = Lease!Freed(S)
    BY <1>1, <1>2, <1>3, <1>4, HolderAfterDrop
  <1> QED
    BY <1>4, <1>5

\* Each step of the handlers is a step of the controller lease or none of its
\* business.
LEMMA StepRefinesLease == IInv /\ [Next]_vars => [Lease!Next]_(Lease!vars)
  <1> SUFFICES ASSUME IInv, [Next]_vars
               PROVE  Lease!Next \/ UNCHANGED Lease!vars
    OBVIOUS
  <1> USE DEF Lease!vars
  <1>1. CASE UNCHANGED <<connOf, controllers, entries, terminating>>
    BY <1>1 DEF Holder
  <1>2. ASSUME NEW c \in Conns, Accept(c) \/ Hello(c)
        PROVE  UNCHANGED <<connOf, controllers, entries, terminating>>
    BY <1>2 DEF Accept, Hello, registryVars, recordVars, entryVars
  <1>3. ASSUME NEW c \in Conns, CloseConnection(c) PROVE Lease!Next
    <2>1. PICK S \in SUBSET Execs : Holder' = Lease!Freed(S)
      BY <1>3, HolderAfterClosing DEF CloseConnection
    <2>2. Lease!Revoke(S)
      BY <1>3, <2>1 DEF CloseConnection, Lease!Revoke
    <2> QED
      BY <2>2 DEF Lease!Next
  <1>4. ASSUME NEW c \in Conns, NEW e \in Execs, NEW r \in Roles,
               NEW a \in Ids, Attach(c, e, r, a)
        PROVE  Lease!Next \/ UNCHANGED Lease!vars
    <2>1. \A x \in Execs : controllers[x] # a
      BY <1>4, ConstantsAssumption
         DEF IInv, LeaseMatchesRecords, Residue, Attach
    <2>2. CASE r = "Controller"
      <3>1. Holder' = [Holder EXCEPT ![e] = c]
        BY <1>4, <2>1, <2>2, ConstantsAssumption
           DEF IInv, TypeOK, Attach, Insert, Holder
      <3>2. Lease!Grant(c, e)
        BY <1>4, <2>2, <3>1 DEF Attach, MayAttach, Holder, Lease!Grant
      <3> QED
        BY <3>2 DEF Lease!Next
    <2>3. CASE r # "Controller"
      BY <1>4, <2>1, <2>3, ConstantsAssumption
         DEF IInv, TypeOK, Attach, Insert, Holder
    <2> QED
      BY <2>2, <2>3
  <1>5. ASSUME NEW c \in Conns, NEW a \in Ids, Detach(c, a) PROVE Lease!Next
    <2> DEFINE S == {e \in Execs : controllers[e] \in {a}}
    <2>1. controllers' = [e \in Execs |-> IF e \in S THEN None
                                                     ELSE controllers[e]]
      BY <1>5, LeasesGoWithRecords DEF Detach, DetachAll
    <2>2. connOf' = [b \in Ids |-> IF b \in {a} THEN None ELSE connOf[b]]
      BY <1>5 DEF Detach, DetachAll, DropRecords
    <2>3. /\ {a} \in SUBSET Ids
          /\ S \in SUBSET Execs
          /\ \A e \in Execs : controllers[e] \in {a} => e \in S
      OBVIOUS
    <2> HIDE DEF S
    <2>4. Holder' = Lease!Freed(S)
      BY <2>1, <2>2, <2>3, HolderAfterDrop
    <2>5. Lease!Revoke(S)
      BY <1>5, <2>4 DEF Detach, Lease!Revoke
    <2> QED
      BY <2>3, <2>5 DEF Lease!Next
  <1>6. ASSUME NEW c \in Conns, NEW a \in Ids,
               \/ Suspend(c, a)
               \/ \E s \in 1..MaxSequence : Resume(c, a, s)
               \/ \E id \in 1..MaxRequest : ResizeRequest(c, a, id)
        PROVE  UNCHANGED <<connOf, controllers, entries, terminating>>
    BY <1>6 DEF Suspend, Resume, ResizeRequest, registryVars, recordVars,
                entryVars
  <1>7. ASSUME NEW c \in Conns, NEW a \in Ids, NEW e \in Execs,
               NEW id \in 1..MaxRequest, Terminate(c, a, e, id)
        PROVE  Lease!Next \/ UNCHANGED Lease!vars
    <2>1. PICK S \in SUBSET Execs : Holder' = Lease!Freed(S)
      <3>1. CASE DetachAll(AttachmentsReleasedWith({c}))
        BY <3>1, HolderAfterClosing
      <3>2. CASE UNCHANGED registryVars
        <4>1. Holder' = Lease!Freed({})
          BY <3>2 DEF Holder, Lease!Freed, registryVars, recordVars
        <4> QED
          BY <4>1
      <3> QED
        BY <1>7, <3>1, <3>2 DEF Terminate
    <2>2. entries' = entries
      BY <1>7 DEF Terminate
    <2>3. CASE terminating' = terminating
      BY <2>1, <2>2, <2>3 DEF Lease!Next, Lease!Revoke
    <2>4. CASE MayTerminate(c, a, e) /\ terminating' = terminating \cup {e}
      <3>1. controllers[e] = a /\ connOf[a] = c
        BY <2>4 DEF MayTerminate, OnConnection, AttachmentsOn, IInv,
                    LeaseMatchesRecords
      <3>2. Holder[e] = c
        BY <3>1, ConstantsAssumption DEF Holder
      <3>3. e \in entries
        BY <2>4, ConstantsAssumption
           DEF MayTerminate, IInv, EntriesMatchRegistry, ViewersOf,
               OnConnection, AttachmentsOn, Live
      <3>4. Lease!Stop(c, e, S)
        BY <2>1, <2>2, <2>4, <3>2, <3>3 DEF Lease!Stop
      <3> QED
        BY <3>4 DEF Lease!Next
    <2> QED
      BY <1>7, <2>3, <2>4 DEF Terminate
  <1>8. ASSUME NEW e \in Execs, Create(e) PROVE Lease!Next
    <2>1. Lease!Start(e)
      BY <1>8 DEF Create, Lease!Start, Holder, registryVars, recordVars
    <2> QED
      BY <2>1 DEF Lease!Next
  <1>9. ASSUME NEW e \in Execs, NEW C \in SUBSET Conns, Finalize(e, C)
        PROVE  Lease!Next
    <2> DEFINE A == ViewersOf(e) \cup AttachmentsReleasedWith(C)
               S == {x \in Execs : x = e \/ controllers[x] \in A}
    <2>1. A \in SUBSET Ids
      BY ReleasedAreOnConnection DEF ViewersOf, Live
    <2>2. LeasesAfterDetach(A) =
             [x \in Execs |-> IF controllers[x] \in A THEN None
                                                      ELSE controllers[x]]
      BY <2>1, LeasesGoWithRecords
    <2>3. controllers' = [LeasesAfterDetach(A) EXCEPT ![e] = None]
      BY <1>9 DEF Finalize
    <2>4. connOf' = [b \in Ids |-> IF b \in A THEN None ELSE connOf[b]]
      BY <1>9 DEF Finalize, DropRecords
    <2> HIDE DEF A
    <2>5. controllers' = [x \in Execs |-> IF x \in S THEN None
                                                     ELSE controllers[x]]
      BY <2>2, <2>3
    <2>6. /\ S \in SUBSET Execs
          /\ e \in S
          /\ \A x \in Execs : controllers[x] \in A => x \in S
      OBVIOUS
    <2> HIDE DEF S
    <2>7. Holder' = Lease!Freed(S)
      BY <2>1, <2>4, <2>5, <2>6, HolderAfterDrop
    <2>8. Lease!Finish(e, S)
      BY <1>9, <2>6, <2>7 DEF Finalize, RemoveEntry, Lease!Finish
    <2> QED
      BY <2>6, <2>8 DEF Lease!Next
  <1>10. CASE UNCHANGED vars
    BY <1>1, <1>10 DEF vars, registryVars, recordVars, entryVars
  <1> QED
    BY <1>1, <1>2, <1>3, <1>4, <1>5, <1>6, <1>7, <1>8, <1>9, <1>10 DEF Next

\* The attachment registry with all its handlers implements ControllerLease:
\* control of an execution passes between connections only through nobody, and
\* only the connection holding the lease can have its execution terminated.
THEOREM LeaseIsImplemented == Spec => LeaseSpec
  <1>1. Init => Lease!Init
    BY DEF Init, Lease!Init, Holder
  <1> QED
    BY <1>1, IInvAlways, StepRefinesLease, PTL DEF Spec, LeaseSpec, Lease!Spec

\* A resize id is spent only by a connection that holds some lease: a stale or
\* an observer's request leaves last_resize_request_id alone.
THEOREM ResizeIdsAreEarned == Spec => ResizeIdsSpentByControllers
  <1>1. ASSUME IInv, [Next]_vars, NEW c \in Conns,
               lastResize'[c] > lastResize[c]
        PROVE  \E e \in Execs : controllers[e] # None
                                /\ connOf[controllers[e]] = c
    <2>1. ASSUME lastResize' = lastResize PROVE FALSE
      BY <1>1, <2>1 DEF IInv, TypeOK
    <2>2. ASSUME NEW C \in SUBSET Conns,
                 lastResize' = [d \in Conns |-> IF d \in C THEN 0
                                                ELSE lastResize[d]]
          PROVE  FALSE
      BY <1>1, <2>2 DEF IInv, TypeOK
    <2>3. ASSUME NEW d \in Conns, NEW a \in Ids, NEW id \in 1..MaxRequest,
                 ResizeRequest(d, a, id)
          PROVE  \E e \in Execs : controllers[e] # None
                                  /\ connOf[controllers[e]] = c
      <3>1. d = c
        BY <1>1, <2>3 DEF ResizeRequest, IInv, TypeOK
      <3>2. /\ execOf[a] \in Execs
            /\ a \in controlling
            /\ connOf[a] = c
        BY <1>1, <2>3, <3>1 DEF ResizeRequest, MayMutate, OnConnection,
                          AttachmentsOn, Live, IInv, TypeOK
      <3>3. controllers[execOf[a]] = a
        BY <1>1, <3>2 DEF IInv, LeaseMatchesRecords
      <3> QED
        BY <3>2, <3>3, ConstantsAssumption
    <2>4. CASE UNCHANGED vars
      BY <2>1, <2>4 DEF vars, connVars
    <2>5. ASSUME NEW d \in Conns, CloseConnection(d) PROVE FALSE
      BY <2>2, <2>5 DEF CloseConnection, Closed
    <2>6. ASSUME NEW d \in Conns, Accept(d) \/ Hello(d) PROVE FALSE
      BY <2>1, <2>6 DEF Accept, Hello
    <2>7. ASSUME NEW d \in Conns, NEW a \in Ids,
                 \/ \E e \in Execs, r \in Roles : Attach(d, e, r, a)
                 \/ Detach(d, a)
                 \/ Suspend(d, a)
                 \/ \E s \in 1..MaxSequence : Resume(d, a, s)
          PROVE  FALSE
      BY <2>1, <2>7 DEF Attach, Detach, Suspend, Resume, connVars
    <2>8. ASSUME NEW d \in Conns, NEW a \in Ids, NEW e \in Execs,
                 NEW id \in 1..MaxRequest, Terminate(d, a, e, id)
          PROVE  FALSE
      BY <2>1, <2>2, <2>8 DEF Terminate, Closed
    <2>9. ASSUME NEW e \in Execs, Create(e) PROVE FALSE
      BY <2>1, <2>9 DEF Create, connVars
    <2>10. ASSUME NEW e \in Execs, NEW C \in SUBSET Conns, Finalize(e, C)
           PROVE  FALSE
      BY <2>2, <2>10 DEF Finalize
    <2> QED
      BY <1>1, <2>3, <2>4, <2>5, <2>6, <2>7, <2>8, <2>9, <2>10 DEF Next
  <1>2. IInv /\ [Next]_vars =>
          [\A c \in Conns : lastResize'[c] > lastResize[c] =>
             \E e \in Execs : controllers[e] # None
                              /\ connOf[controllers[e]] = c]_vars
    BY <1>1
  <1> QED
    BY <1>2, IInvAlways, PTL DEF Spec, ResizeIdsSpentByControllers
=============================================================================
