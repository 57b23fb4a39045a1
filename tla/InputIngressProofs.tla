------------------------ MODULE InputIngressProofs ------------------------
(***************************************************************************)
(* Proofs about InputIngress for any set of threads and executions, any    *)
(* limits, capacities and quanta.  The one inductive invariant is IInv;    *)
(* what sums the reservations (AccountsBalance) stays with TLC.            *)
(***************************************************************************)
EXTENDS InputIngress, SequenceTheorems, TLAPS

\* No thread is past a reservation without a message, no counter is above its
\* limit, no queued message is forgotten, no closed ingress keeps input.
IInv ==
    /\ TypeOK
    /\ LimitsHold
    /\ NoStrandedMessage
    /\ PendingIsActive

\* The idle locals are a message.
LEMMA NoJobType == NoJob \in Message
  <1>1. (CHOOSE e \in Execs : TRUE) \in Execs
    BY ConstantsAssumption
  <1>2. 1 \in 1..MaxBytes
    BY ConstantsAssumption
  <1> QED
    BY <1>1, <1>2 DEF NoJob, Message, Kinds

\* The initial state satisfies the invariant.
LEMMA InitInv == Init => IInv
  <1> SUFFICES ASSUME Init PROVE IInv
    OBVIOUS
  <1>1. NoJob \in Message /\ NoJob.exec \in Execs
    BY NoJobType DEF Message
  <1>2. /\ pc \in [Threads -> PCs]
        /\ job \in [Threads -> Message]
        /\ seen \in [Threads -> Int]
        /\ global \in Int
        /\ perExec \in [Execs -> Int]
    BY <1>1 DEF Init, PCs
  <1>3. /\ active \in [Execs -> BOOLEAN]
        /\ held \in [Execs -> BOOLEAN]
        /\ woken \in BOOLEAN
        /\ wakeLost \in BOOLEAN
        /\ halfPaid \in BOOLEAN
    BY Zenon DEF Init
  <1>4. /\ queue \in Seq(Message)
        /\ pending \in [Execs -> Seq(Message)]
        /\ debts \in Seq(Message)
    BY DEF Init
  <1>5. /\ rpc \in {"wait", "drain", "write"}
        /\ rexec \in Execs
        /\ resume \in {"wait", "drain"}
    BY <1>1 DEF Init
  <1>6. handled \in 0..DrainQuantum /\ wrote \in 0..WriteQuantum
    BY ConstantsAssumption DEF Init
  <1>7. TypeOK
    BY <1>2, <1>3, <1>4, <1>5, <1>6 DEF TypeOK
  <1>8. LimitsHold
    BY ConstantsAssumption DEF Init, LimitsHold
  <1>9. NoStrandedMessage /\ PendingIsActive
    BY DEF Init, NoStrandedMessage, PendingIsActive
  <1> QED
    BY <1>7, <1>8, <1>9 DEF IInv

\* A returning call leaves well-typed locals and wakes nobody.
LEMMA ReturnType ==
  ASSUME TypeOK, NEW t \in Threads, Return(t)
  PROVE  /\ pc' \in [Threads -> PCs]
         /\ job' \in [Threads -> Message]
         /\ seen' \in [Threads -> Int]
  <1>1. pc' \in [Threads -> PCs]
    BY DEF TypeOK, Return, PCs
  <1>2. job' \in [Threads -> Message]
    BY NoJobType DEF TypeOK, Return
  <1>3. seen' \in [Threads -> Int]
    BY DEF TypeOK, Return
  <1> QED BY <1>1, <1>2, <1>3

\* A step of a submitter's call preserves the invariant.
LEMMA SubmitInv ==
  ASSUME IInv, NEW t \in Threads, Submit(t)
  PROVE  IInv'
  <1> USE DEF submitVars, flagVars, runtimeVars
  <1>0. TypeOK /\ LimitsHold /\ NoStrandedMessage /\ PendingIsActive
    BY DEF IInv
  <1>1. /\ job[t] \in Message
        /\ job[t].exec \in Execs
        /\ job[t].bytes \in 1..MaxBytes
        /\ job[t].bytes \in Nat
    BY <1>0, ConstantsAssumption DEF TypeOK, Message
  <1>2. CASE CheckHold(t)
    <2>1. /\ pc' \in [Threads -> PCs] /\ job' \in [Threads -> Message]
          /\ seen' \in [Threads -> Int]
      <3>1. CASE held[job[t].exec]
        BY <1>0, <1>2, <3>1, ReturnType DEF CheckHold
      <3>2. CASE ~held[job[t].exec]
        BY <1>0, <1>2, <3>2 DEF CheckHold, Goto, TypeOK, PCs
      <3> QED BY <3>1, <3>2
    <2>5. TypeOK'
      BY <1>0, <1>2, <2>1 DEF TypeOK, CheckHold
    <2>6. LimitsHold'
      BY <1>0, <1>1, <1>2 DEF LimitsHold, TypeOK, CheckHold
    <2>7. PendingIsActive'
      BY <1>0, <1>2 DEF PendingIsActive, CheckHold
    <2>8. NoStrandedMessage'
      BY <1>0, <1>2 DEF NoStrandedMessage, CheckHold, Goto, Return, TypeOK
    <2> QED BY <2>5, <2>6, <2>7, <2>8 DEF IInv
  <1>3. CASE LoadGlobal(t)
    <2>1. /\ pc' \in [Threads -> PCs] /\ seen' \in [Threads -> Int]
      BY <1>0, <1>1, <1>3 DEF TypeOK, LoadGlobal, Goto, PCs
    <2>5. TypeOK'
      BY <1>0, <1>3, <2>1 DEF TypeOK, LoadGlobal
    <2>6. LimitsHold'
      BY <1>0, <1>1, <1>3 DEF LimitsHold, TypeOK, LoadGlobal
    <2>7. PendingIsActive'
      BY <1>0, <1>3 DEF PendingIsActive, LoadGlobal
    <2>8. NoStrandedMessage'
      BY <1>0, <1>3 DEF NoStrandedMessage, LoadGlobal, Goto, TypeOK
    <2> QED BY <2>5, <2>6, <2>7, <2>8 DEF IInv
  <1>4. CASE CasGlobal(t)
    <2>1. /\ pc' \in [Threads -> PCs] /\ job' \in [Threads -> Message]
          /\ seen' \in [Threads -> Int]
          /\ global' \in Int
      <3>1. CASE seen[t] + job[t].bytes > GlobalLimit
        <4>1. Return(t) /\ UNCHANGED global
          BY <1>0, <1>1, <1>4, <3>1, ConstantsAssumption DEF CasGlobal, TypeOK
        <4> QED BY <1>0, <4>1, ReturnType DEF TypeOK
      <3>2. CASE ~(seen[t] + job[t].bytes > GlobalLimit)
        <4>1. \/ /\ Goto(t, "loadExec")
                 /\ global' = seen[t] + job[t].bytes
                 /\ UNCHANGED <<job, seen>>
              \/ /\ seen' = [seen EXCEPT ![t] = global]
                 /\ UNCHANGED <<pc, job, global>>
          BY <1>4, <3>2 DEF CasGlobal
        <4>2. pc' \in [Threads -> PCs]
          BY <1>0, <4>1 DEF Goto, TypeOK, PCs
        <4>3. job' \in [Threads -> Message]
          BY <1>0, <4>1 DEF TypeOK
        <4>4. seen' \in [Threads -> Int] /\ global' \in Int
          BY <1>0, <1>1, <4>1 DEF TypeOK
        <4> QED BY <4>2, <4>3, <4>4
      <3> QED BY <3>1, <3>2
    <2>5. TypeOK'
      BY <1>0, <1>4, <2>1 DEF TypeOK, CasGlobal
    <2>6. LimitsHold'
      BY <1>0, <1>1, <1>4 DEF LimitsHold, TypeOK, CasGlobal
    <2>7. PendingIsActive'
      BY <1>0, <1>4 DEF PendingIsActive, CasGlobal
    <2>8. NoStrandedMessage'
      BY <1>0, <1>4 DEF NoStrandedMessage, CasGlobal, Goto, Return, TypeOK
    <2> QED BY <2>5, <2>6, <2>7, <2>8 DEF IInv
  <1>5. CASE LoadExec(t)
    <2>1. /\ pc' \in [Threads -> PCs] /\ seen' \in [Threads -> Int]
      BY <1>0, <1>1, <1>5 DEF TypeOK, LoadExec, Goto, PCs
    <2>5. TypeOK'
      BY <1>0, <1>5, <2>1 DEF TypeOK, LoadExec
    <2>6. LimitsHold'
      BY <1>0, <1>1, <1>5 DEF LimitsHold, TypeOK, LoadExec
    <2>7. PendingIsActive'
      BY <1>0, <1>5 DEF PendingIsActive, LoadExec
    <2>8. NoStrandedMessage'
      BY <1>0, <1>5 DEF NoStrandedMessage, LoadExec, Goto, TypeOK
    <2> QED BY <2>5, <2>6, <2>7, <2>8 DEF IInv
  <1>6. CASE CasExec(t)
    <2>1. /\ pc' \in [Threads -> PCs] /\ seen' \in [Threads -> Int]
          /\ perExec' \in [Execs -> Int]
      <3>1. pc' \in [Threads -> PCs]
        BY <1>0, <1>6 DEF CasExec, Goto, TypeOK, PCs
      <3>2. seen' \in [Threads -> Int]
        BY <1>0, <1>1, <1>6 DEF CasExec, TypeOK
      <3>3. perExec' \in [Execs -> Int]
        <4>1. \/ UNCHANGED perExec
              \/ perExec' = [perExec EXCEPT ![job[t].exec] =
                                seen[t] + job[t].bytes]
          BY <1>6 DEF CasExec
        <4>2. seen[t] + job[t].bytes \in Int
          BY <1>0, <1>1 DEF TypeOK
        <4> QED BY <1>0, <4>1, <4>2 DEF TypeOK
      <3> QED BY <3>1, <3>2, <3>3
    <2>5. TypeOK'
      BY <1>0, <1>6, <2>1 DEF TypeOK, CasExec
    <2>6. LimitsHold'
      BY <1>0, <1>1, <1>6 DEF LimitsHold, TypeOK, CasExec
    <2>7. PendingIsActive'
      BY <1>0, <1>6 DEF PendingIsActive, CasExec
    <2>8. NoStrandedMessage'
      BY <1>0, <1>6 DEF NoStrandedMessage, CasExec, Goto, TypeOK
    <2> QED BY <2>5, <2>6, <2>7, <2>8 DEF IInv
  <1>7. CASE Rollback(t)
    <2>1. /\ pc' \in [Threads -> PCs] /\ job' \in [Threads -> Message]
          /\ seen' \in [Threads -> Int]
          /\ global' \in Int
      BY <1>0, <1>1, <1>7, ReturnType DEF Rollback, TypeOK
    <2>5. TypeOK'
      BY <1>0, <1>7, <2>1 DEF TypeOK, Rollback
    <2>6. LimitsHold'
      BY <1>0, <1>1, <1>7, ConstantsAssumption DEF LimitsHold, TypeOK, Rollback
    <2>7. PendingIsActive'
      BY <1>0, <1>7 DEF PendingIsActive, Rollback
    <2>8. NoStrandedMessage'
      BY <1>0, <1>7 DEF NoStrandedMessage, Rollback, Return, TypeOK
    <2> QED BY <2>5, <2>6, <2>7, <2>8 DEF IInv
  <1>8. CASE Recheck(t)
    <2>1. /\ pc' \in [Threads -> PCs]
      BY <1>0, <1>1, <1>8 DEF TypeOK, Recheck, Goto, PCs
    <2>5. TypeOK'
      BY <1>0, <1>8, <2>1 DEF TypeOK, Recheck
    <2>6. LimitsHold'
      BY <1>0, <1>1, <1>8 DEF LimitsHold, TypeOK, Recheck
    <2>7. PendingIsActive'
      BY <1>0, <1>8 DEF PendingIsActive, Recheck
    <2>8. NoStrandedMessage'
      BY <1>0, <1>8 DEF NoStrandedMessage, Recheck, Goto, TypeOK
    <2> QED BY <2>5, <2>6, <2>7, <2>8 DEF IInv
  <1>9. CASE Send(t)
    <2>1. /\ pc' \in [Threads -> PCs] /\ queue' \in Seq(Message)
      <3>1. pc' \in [Threads -> PCs]
        BY <1>0, <1>9 DEF Send, Goto, TypeOK, PCs
      <3>2. queue' = Append(queue, job[t]) \/ queue' = queue
        BY <1>9 DEF Send
      <3>3. queue \in Seq(Message)
        BY <1>0 DEF TypeOK
      <3>4. Append(queue, job[t]) \in Seq(Message)
        BY <1>1, <3>3, AppendProperties
      <3>5. queue' \in Seq(Message)
        BY <3>2, <3>3, <3>4
      <3> QED BY <3>1, <3>5
    <2>5. TypeOK'
      BY <1>0, <1>9, <2>1 DEF TypeOK, Send
    <2>6. LimitsHold'
      BY <1>0, <1>1, <1>9 DEF LimitsHold, TypeOK, Send
    <2>7. PendingIsActive'
      BY <1>0, <1>9 DEF PendingIsActive, Send
    <2>8. NoStrandedMessage'
      BY <1>0, <1>9 DEF NoStrandedMessage, Send, Goto, TypeOK
    <2> QED BY <2>5, <2>6, <2>7, <2>8 DEF IInv
  <1>10. CASE Wake(t)
    <2>1. /\ pc' \in [Threads -> PCs] /\ job' \in [Threads -> Message]
          /\ seen' \in [Threads -> Int]
      BY <1>0, <1>10, ReturnType DEF Wake
    <2>2. woken' \in BOOLEAN /\ wakeLost' \in BOOLEAN
      BY <1>0, <1>10, Zenon DEF Wake, TypeOK
    <2>5. TypeOK'
      BY <1>0, <1>10, <2>1, <2>2 DEF TypeOK, Wake
    <2>6. LimitsHold'
      BY <1>0, <1>1, <1>10 DEF LimitsHold, TypeOK, Wake
    <2>7. PendingIsActive'
      BY <1>0, <1>10 DEF PendingIsActive, Wake
    <2>8. NoStrandedMessage'
      BY <1>0, <1>10 DEF NoStrandedMessage, Wake, Return, TypeOK
    <2> QED BY <2>5, <2>6, <2>7, <2>8 DEF IInv
  <1>11. CASE DropGlobal(t)
    <2>1. /\ pc' \in [Threads -> PCs] /\ global' \in Int
      BY <1>0, <1>1, <1>11 DEF TypeOK, DropGlobal, Goto, PCs
    <2>5. TypeOK'
      BY <1>0, <1>11, <2>1 DEF TypeOK, DropGlobal
    <2>6. LimitsHold'
      BY <1>0, <1>1, <1>11, ConstantsAssumption DEF LimitsHold, TypeOK, DropGlobal
    <2>7. PendingIsActive'
      BY <1>0, <1>11 DEF PendingIsActive, DropGlobal
    <2>8. NoStrandedMessage'
      BY <1>0, <1>11 DEF NoStrandedMessage, DropGlobal, Goto, TypeOK
    <2> QED BY <2>5, <2>6, <2>7, <2>8 DEF IInv
  <1>12. CASE DropExec(t)
    <2>1. /\ pc' \in [Threads -> PCs] /\ job' \in [Threads -> Message]
          /\ seen' \in [Threads -> Int]
          /\ perExec' \in [Execs -> Int]
      BY <1>0, <1>1, <1>12, ReturnType DEF DropExec, TypeOK
    <2>5. TypeOK'
      BY <1>0, <1>12, <2>1 DEF TypeOK, DropExec
    <2>6. LimitsHold'
      BY <1>0, <1>1, <1>12, ConstantsAssumption DEF LimitsHold, TypeOK, DropExec
    <2>7. PendingIsActive'
      BY <1>0, <1>12 DEF PendingIsActive, DropExec
    <2>8. NoStrandedMessage'
      BY <1>0, <1>12 DEF NoStrandedMessage, DropExec, Return, TypeOK
    <2> QED BY <2>5, <2>6, <2>7, <2>8 DEF IInv
  <1> QED
    BY <1>2, <1>3, <1>4, <1>5, <1>6, <1>7, <1>8, <1>9, <1>10, <1>11, <1>12
    DEF Submit


\* The beginning of a call preserves the invariant.
LEMMA BeginInv ==
  ASSUME IInv, NEW t \in Threads, NEW m \in Message, Begin(t, m)
  PROVE  IInv'
  <1> USE DEF submitVars, flagVars, runtimeVars
  <1>0. TypeOK /\ LimitsHold /\ NoStrandedMessage /\ PendingIsActive
    BY DEF IInv
  <1>1. pc' \in [Threads -> PCs]
    BY <1>0 DEF Begin, Goto, TypeOK, PCs
  <1>2. job' \in [Threads -> Message]
    BY <1>0 DEF Begin, TypeOK
  <1>3. TypeOK'
    BY <1>0, <1>1, <1>2 DEF Begin, TypeOK
  <1>4. LimitsHold' /\ PendingIsActive'
    BY <1>0 DEF Begin, LimitsHold, PendingIsActive
  <1>5. NoStrandedMessage'
    BY <1>0 DEF Begin, Goto, NoStrandedMessage, TypeOK
  <1> QED BY <1>3, <1>4, <1>5 DEF IInv

\* A step of the Runtime thread preserves the invariant.
LEMMA RuntimeInv ==
  ASSUME IInv, RuntimeStep
  PROVE  IInv'
  <1> USE DEF submitVars, flagVars, runtimeVars
  <1>0. TypeOK /\ LimitsHold /\ NoStrandedMessage /\ PendingIsActive
    BY DEF IInv
  <1>1. CASE StartDrain
    <2>1. woken' \in BOOLEAN /\ wakeLost' \in BOOLEAN
      BY <1>1, Zenon DEF StartDrain
    <2>2. TypeOK'
      BY <1>0, <1>1, <2>1, ConstantsAssumption DEF StartDrain, TypeOK
    <2>3. LimitsHold' /\ PendingIsActive' /\ NoStrandedMessage'
      BY <1>0, <1>1
      DEF StartDrain, LimitsHold, PendingIsActive, NoStrandedMessage
    <2> QED BY <2>2, <2>3 DEF IInv
  <1>2. CASE Receive
    <2> DEFINE m == Head(queue)
    <2>1. m \in Message /\ m.exec \in Execs
      <3>1. queue \in Seq(Message) /\ queue # <<>>
        BY <1>0, <1>2 DEF Receive, TypeOK
      <3>2. m \in Message
        BY <3>1, HeadTailProperties
      <3> QED BY <3>2 DEF Message
    <2>2. queue' \in Seq(Message) /\ handled' \in 0..DrainQuantum
      <3>1. queue' \in Seq(Message)
        BY <1>0, <1>2, HeadTailProperties DEF Receive, TypeOK
      <3>2. handled' \in 0..DrainQuantum
        BY <1>0, <1>2, ConstantsAssumption DEF Receive, TypeOK
      <3> QED BY <3>1, <3>2
    <2>3. CASE active[m.exec]
      <3>1. /\ pending' = [pending EXCEPT ![m.exec] = Append(@, m)]
            /\ rpc' = "write" /\ rexec' = m.exec /\ resume' = "drain"
            /\ wrote' = 0 /\ UNCHANGED debts
        BY <1>2, <2>3 DEF Receive
      <3>2. pending[m.exec] \in Seq(Message)
        BY <1>0, <2>1 DEF TypeOK
      <3>3. Append(pending[m.exec], m) \in Seq(Message)
        BY <2>1, <3>2, AppendProperties
      <3> HIDE DEF m
      <3>4. pending' \in [Execs -> Seq(Message)]
        BY <1>0, <2>1, <3>1, <3>3 DEF TypeOK
      <3>5. TypeOK'
        <4>1. /\ rpc' \in {"wait", "drain", "write"} /\ rexec' \in Execs
              /\ resume' \in {"wait", "drain"} /\ wrote' \in 0..WriteQuantum
          BY <2>1, <3>1, ConstantsAssumption
        <4>2. UNCHANGED <<submitVars, global, perExec, flagVars, woken,
                          wakeLost, halfPaid, debts>>
          BY <1>2, <3>1 DEF Receive
        <4> QED BY <1>0, <2>2, <3>4, <4>1, <4>2 DEF TypeOK
      <3>6. PendingIsActive'
        BY <1>0, <1>2, <2>1, <2>3, <3>1 DEF Receive, PendingIsActive, TypeOK
      <3>7. LimitsHold' /\ NoStrandedMessage'
        BY <1>0, <1>2, <3>1 DEF Receive, LimitsHold, NoStrandedMessage
      <3> QED BY <3>5, <3>6, <3>7 DEF IInv
    <2>4. CASE ~active[m.exec]
      <3>1. debts' = <<m>> /\ UNCHANGED <<pending, rpc, rexec, resume, wrote>>
        BY <1>2, <2>4 DEF Receive
      <3> HIDE DEF m
      <3>2. debts' \in Seq(Message)
        BY <2>1, <3>1
      <3>3. TypeOK'
        BY <1>0, <1>2, <2>2, <3>1, <3>2 DEF Receive, TypeOK
      <3>4. LimitsHold' /\ PendingIsActive' /\ NoStrandedMessage'
        BY <1>0, <1>2, <3>1
        DEF Receive, LimitsHold, PendingIsActive, NoStrandedMessage
      <3> QED BY <3>3, <3>4 DEF IInv
    <2> QED BY <2>3, <2>4
  <1>3. CASE EndDrain
    <2>1. woken' \in BOOLEAN
      BY <1>0, <1>3, Zenon DEF EndDrain, TypeOK
    <2>2. TypeOK'
      BY <1>0, <1>3, <2>1, ConstantsAssumption DEF EndDrain, TypeOK
    <2>3. LimitsHold' /\ PendingIsActive' /\ NoStrandedMessage'
      BY <1>0, <1>3
      DEF EndDrain, LimitsHold, PendingIsActive, NoStrandedMessage
    <2> QED BY <2>2, <2>3 DEF IInv
  <1>4. CASE EndWrite
    <2>1. NoJob.exec \in Execs
      BY NoJobType DEF Message
    <2>2. TypeOK'
      BY <1>0, <1>4, <2>1, ConstantsAssumption DEF EndWrite, TypeOK
    <2>3. LimitsHold' /\ PendingIsActive' /\ NoStrandedMessage'
      BY <1>0, <1>4
      DEF EndWrite, LimitsHold, PendingIsActive, NoStrandedMessage, TypeOK
    <2> QED BY <2>2, <2>3 DEF IInv
  <1>5. debts # <<>> => /\ Head(debts) \in Message
                        /\ Tail(debts) \in Seq(Message)
                        /\ Head(debts).exec \in Execs
                        /\ Head(debts).bytes \in Nat
    <2> SUFFICES ASSUME debts # <<>>
                 PROVE  /\ Head(debts) \in Message
                        /\ Tail(debts) \in Seq(Message)
                        /\ Head(debts).exec \in Execs
                        /\ Head(debts).bytes \in Nat
      OBVIOUS
    <2>1. debts \in Seq(Message)
      BY <1>0 DEF TypeOK
    <2>2. Head(debts) \in Message /\ Tail(debts) \in Seq(Message)
      BY <2>1, HeadTailProperties
    <2>3. Head(debts).exec \in Execs /\ Head(debts).bytes \in 1..MaxBytes
      BY <2>2 DEF Message
    <2> QED BY <2>2, <2>3, ConstantsAssumption
  <1>6. CASE PayGlobal
    <2>1. halfPaid' \in BOOLEAN /\ global' \in Int
      BY <1>0, <1>5, <1>6 DEF PayGlobal, TypeOK
    <2>2. TypeOK'
      BY <1>0, <1>6, <2>1 DEF PayGlobal, TypeOK
    <2>3. LimitsHold'
      BY <1>0, <1>5, <1>6, ConstantsAssumption DEF PayGlobal, LimitsHold, TypeOK
    <2>4. PendingIsActive' /\ NoStrandedMessage'
      BY <1>0, <1>6 DEF PayGlobal, PendingIsActive, NoStrandedMessage
    <2> QED BY <2>2, <2>3, <2>4 DEF IInv
  <1>7. CASE PayExec
    <2>1. halfPaid' \in BOOLEAN /\ debts' \in Seq(Message)
      BY <1>0, <1>5, <1>7 DEF PayExec, TypeOK
    <2>2. perExec' \in [Execs -> Int]
      BY <1>0, <1>5, <1>7 DEF PayExec, TypeOK
    <2>3. TypeOK'
      BY <1>0, <1>7, <2>1, <2>2 DEF PayExec, TypeOK
    <2>4. LimitsHold'
      BY <1>0, <1>5, <1>7, ConstantsAssumption DEF PayExec, LimitsHold, TypeOK
    <2>5. PendingIsActive' /\ NoStrandedMessage'
      BY <1>0, <1>7 DEF PayExec, PendingIsActive, NoStrandedMessage
    <2> QED BY <2>3, <2>4, <2>5 DEF IInv
  <1> QED
    BY <1>1, <1>2, <1>3, <1>4, <1>6, <1>7 DEF RuntimeStep

\* What the environment and the other handlers of the Runtime thread do
\* preserves the invariant.
LEMMA EventInv ==
  ASSUME IInv, NEW e \in Execs,
         Writable(e) \/ CloseIngress(e) \/ StoreHold(e)
  PROVE  IInv'
  <1> USE DEF submitVars, flagVars, runtimeVars
  <1>0. TypeOK /\ LimitsHold /\ NoStrandedMessage /\ PendingIsActive
    BY DEF IInv
  <1>1. pending[e] \in Seq(Message) /\ <<>> \in Seq(Message)
    BY <1>0 DEF TypeOK
  <1>2. CASE Writable(e)
    <2>1. active[e]
      BY <1>0, <1>2 DEF Writable, PendingIsActive
    <2>2. /\ rpc' = "write" /\ rexec' = e /\ resume' = "wait" /\ wrote' = 0
          /\ UNCHANGED <<submitVars, global, perExec, flagVars, queue, woken,
                         wakeLost, halfPaid, handled, pending, debts>>
          /\ rpc = "wait"
      BY <1>2, <2>1 DEF Writable, RuntimeIdle
    <2>3. TypeOK'
      BY <1>0, <2>2, ConstantsAssumption DEF TypeOK
    <2>4. LimitsHold' /\ PendingIsActive' /\ NoStrandedMessage'
      BY <1>0, <2>2 DEF LimitsHold, PendingIsActive, NoStrandedMessage
    <2> QED BY <2>3, <2>4 DEF IInv
  <1>3. CASE CloseIngress(e)
    <2>1. active' \in [Execs -> BOOLEAN]
      BY <1>0, <1>3, Zenon DEF CloseIngress, TypeOK
    <2>2. pending' \in [Execs -> Seq(Message)] /\ debts' \in Seq(Message)
      BY <1>0, <1>1, <1>3 DEF CloseIngress, TypeOK
    <2>3. TypeOK'
      BY <1>0, <1>3, <2>1, <2>2 DEF CloseIngress, TypeOK
    <2>4. PendingIsActive'
      BY <1>0, <1>3 DEF CloseIngress, PendingIsActive, TypeOK
    <2>5. LimitsHold' /\ NoStrandedMessage'
      BY <1>0, <1>3 DEF CloseIngress, LimitsHold, NoStrandedMessage
    <2> QED BY <2>3, <2>4, <2>5 DEF IInv
  <1>4. CASE StoreHold(e)
    <2>1. held' \in [Execs -> BOOLEAN]
      BY <1>0, <1>4, Zenon DEF StoreHold, TypeOK
    <2>2. TypeOK'
      BY <1>0, <1>4, <2>1 DEF StoreHold, TypeOK
    <2>3. LimitsHold' /\ PendingIsActive' /\ NoStrandedMessage'
      BY <1>0, <1>4
      DEF StoreHold, LimitsHold, PendingIsActive, NoStrandedMessage
    <2> QED BY <2>2, <2>3 DEF IInv
  <1> QED BY <1>2, <1>3, <1>4

\* A write to the PTY preserves the invariant.
LEMMA WriteInv ==
  ASSUME IInv, NEW n \in 1..MaxBytes, WriteSome(n)
  PROVE  IInv'
  <1> USE DEF submitVars, flagVars, runtimeVars
  <1>0. TypeOK /\ LimitsHold /\ NoStrandedMessage /\ PendingIsActive
    BY DEF IInv
  <1> DEFINE m == Head(pending[rexec])
             left == [m EXCEPT !.bytes = @ - n]
             rest == Tail(pending[rexec])
             new == IF n = m.bytes THEN rest ELSE <<left>> \o rest
  <1>1. pending[rexec] \in Seq(Message) /\ pending[rexec] # <<>>
    BY <1>0 DEF WriteSome, TypeOK
  <1>2. m \in Message /\ rest \in Seq(Message)
    BY <1>1, HeadTailProperties
  <1>3. /\ m.bytes \in 1..MaxBytes /\ n <= m.bytes /\ n \in Nat
        /\ wrote + n <= WriteQuantum
        /\ debts' = <<[m EXCEPT !.bytes = n]>>
        /\ wrote' = wrote + n
        /\ pending' = [pending EXCEPT ![rexec] = new]
    BY <1>2, ConstantsAssumption DEF WriteSome, Message
  <1>4. [m EXCEPT !.bytes = n] \in Message
    <2> HIDE DEF m
    <2> QED BY <1>2 DEF Message
  <1>5. new \in Seq(Message)
    <2>1. CASE n = m.bytes
      BY <1>2, <2>1
    <2>2. CASE n # m.bytes
      <3>1. m.bytes - n \in 1..MaxBytes
        <4> DEFINE b == m.bytes
        <4>1. b \in 1..MaxBytes /\ n <= b /\ n # b
          BY <1>3, <2>2
        <4> HIDE DEF b
        <4>2. b - n \in 1..MaxBytes
          BY <4>1, ConstantsAssumption
        <4> QED BY <4>2 DEF b
      <3>2. left \in Message
        <4> DEFINE d == m.bytes - n
        <4>1. left = [m EXCEPT !.bytes = d]
          OBVIOUS
        <4>2. d \in 1..MaxBytes
          BY <3>1
        <4> HIDE DEF d, m, left
        <4> QED BY <1>2, <4>1, <4>2 DEF Message
      <3>3. <<left>> \in Seq(Message)
        <4> HIDE DEF left
        <4> QED BY <3>2
      <3> HIDE DEF left, rest, m
      <3>4. <<left>> \o rest \in Seq(Message)
        BY <1>2, <3>3, ConcatProperties
      <3> QED BY <2>2, <3>4
    <2> QED BY <2>1, <2>2
  <1>6. debts' \in Seq(Message)
    <2> DEFINE d == [m EXCEPT !.bytes = n]
    <2>1. d \in Message /\ debts' = <<d>>
      BY <1>3, <1>4
    <2> HIDE DEF d
    <2> QED BY <2>1
  <1> HIDE DEF new, m, rest, left
  <1>7. pending' \in [Execs -> Seq(Message)]
    BY <1>0, <1>3, <1>5 DEF TypeOK
  <1>8. wrote' \in 0..WriteQuantum
    <2>1. wrote \in 0..WriteQuantum /\ n \in Nat
      BY <1>0, <1>3 DEF TypeOK
    <2>2. wrote' = wrote + n /\ wrote + n <= WriteQuantum
      BY <1>3
    <2> QED BY <2>1, <2>2, ConstantsAssumption
  <1>9. TypeOK'
    BY <1>0, <1>6, <1>7, <1>8 DEF WriteSome, TypeOK
  <1>10. PendingIsActive'
    BY <1>0, <1>1, <1>3 DEF WriteSome, PendingIsActive, TypeOK
  <1>11. LimitsHold' /\ NoStrandedMessage'
    BY <1>0 DEF WriteSome, LimitsHold, NoStrandedMessage
  <1> QED BY <1>9, <1>10, <1>11 DEF IInv

\* Every step preserves the invariant.
LEMMA NextInv == IInv /\ [Next]_vars => IInv'
  <1> SUFFICES ASSUME IInv, [Next]_vars PROVE IInv'
    OBVIOUS
  <1>1. ASSUME NEW t \in Threads, NEW m \in Message, Begin(t, m) PROVE IInv'
    BY <1>1, BeginInv
  <1>2. ASSUME NEW t \in Threads, Submit(t) PROVE IInv'
    BY <1>2, SubmitInv
  <1>3. CASE RuntimeStep
    BY <1>3, RuntimeInv
  <1>4. ASSUME NEW e \in Execs, Writable(e) \/ CloseIngress(e) \/ StoreHold(e)
        PROVE  IInv'
    BY <1>4, EventInv
  <1>5. ASSUME NEW n \in 1..MaxBytes, WriteSome(n) PROVE IInv'
    BY <1>5, WriteInv
  <1>6. CASE UNCHANGED vars
    <2> USE <1>6 DEF vars, submitVars, flagVars, runtimeVars
    <2>1. TypeOK'
      BY DEF IInv, TypeOK
    <2>2. LimitsHold' /\ NoStrandedMessage' /\ PendingIsActive'
      BY DEF IInv, LimitsHold, NoStrandedMessage, PendingIsActive
    <2> QED BY <2>1, <2>2 DEF IInv
  <1> QED
    BY <1>1, <1>2, <1>3, <1>4, <1>5, <1>6 DEF Next

\* The invariant holds throughout.
LEMMA Invariance == Spec => []IInv
  BY InitInv, NextInv, PTL DEF Spec

\* However many threads submit at once, neither the aggregate nor an
\* execution's counter of accepted bytes exceeds its limit (reserve_counter).
THEOREM ReservationsAreLimited == Spec => []LimitsHold
  BY Invariance, PTL DEF IInv

\* A message in the control queue always has a wake-up, a running drain or a
\* sender about to wake the reactor behind it, unless a wake-up failed
\* (try_submit_kind and drain_control).
THEOREM QueuedMessagesAreAnnounced == Spec => []NoStrandedMessage
  BY Invariance, PTL DEF IInv

\* No accepted bytes stay pending for the PTY behind a closed ingress.
THEOREM ClosedIngressKeepsNothing == Spec => []PendingIsActive
  BY Invariance, PTL DEF IInv

\* The state stays within its types.
THEOREM InputTypeCorrect == Spec => []TypeOK
  BY Invariance, PTL DEF IInv
=============================================================================
