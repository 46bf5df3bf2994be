---------------------------- MODULE SoftNpuProofs ----------------------------
(***************************************************************************)
(* Proofs about the softnpu process, for any number of ports, any frames,  *)
(* any P4 program and any clients.                                         *)
(***************************************************************************)
EXTENDS SoftNpu, SequenceTheorems, TLAPS

-----------------------------------------------------------------------------
(* The tasks.                                                              *)

\* The handlers, the main task and no task are told apart.
LEMMA TasksDiffer ==
  /\ Main \notin Handlers
  /\ NoTask \notin Handlers
  /\ NoTask # Main
BY DEF Main, NoTask, Handlers

\* The length of a handler's buffer is a natural number.
LEMMA BufLenType ==
  ASSUME NEW h \in Handlers
  PROVE  BufLen(h) \in Nat
<1>1. h[2] \in Ports
  BY DEF Handlers
<1>2. Mtu[h[2]] \in Nat
  BY <1>1, DataPlaneAssumption
<1> QED BY <1>2 DEF BufLen, L2_HEADROOM

\* Truncation leaves a frame a frame, one that fits its buffer.
LEMMA ReceivedFits ==
  ASSUME NEW h \in Handlers, NEW f \in Frame
  PROVE  /\ Received(h, f) \in Frame
         /\ Received(h, f).len <= BufLen(h)
         /\ Received(h, f).id = f.id
<1>1. BufLen(h) \in Nat
  BY BufLenType
<1> DEFINE g == Received(h, f)
<1>2. f.len \in Nat /\ f.id \in Nat
  BY DEF Frame
<1>3. CASE f.len <= BufLen(h)
  <2>1. g = [f EXCEPT !.len = f.len]
    BY <1>3 DEF Received
  <2>2. g = f
    BY <2>1, Zenon DEF Frame
  <2> QED BY <1>3, <2>2
<1>4. CASE ~(f.len <= BufLen(h))
  <2>1. g = [f EXCEPT !.len = BufLen(h)]
    BY <1>4 DEF Received
  <2>2. g = [id |-> f.id, len |-> BufLen(h)]
    BY <2>1 DEF Frame
  <2> QED BY <1>1, <1>2, <2>2 DEF Frame
<1> QED BY <1>3, <1>4

\* What a handler makes of the pipeline's output is a sequence of packets.
LEMMA EmittedType ==
  ASSUME pkt \in [Handlers -> Frame],
         NEW h \in Handlers, NEW vs \in VerdictSeqs
  PROVE  /\ vs \in Seq(Verdicts)
         /\ Emitted(h, vs) \in Seq(Packet)
         /\ Len(Emitted(h, vs)) = Len(vs)
         /\ \A k \in 1..Len(vs) :
              Emitted(h, vs)[k] = [src |-> h, id |-> pkt[h].id, k |-> k,
                port |-> vs[k].port, hlen |-> vs[k].hlen, sc |-> vs[k].sc]
<1>1. PICK n \in 0..MaxOut : vs \in [1..n -> Verdicts]
  BY DEF VerdictSeqs
<1>2. /\ n \in Nat
      /\ DOMAIN vs = 1..n
      /\ \A k \in 1..n : vs[k] \in Verdict
  BY <1>1, DataPlaneAssumption
<1>3. vs \in Seq(Verdicts) /\ Len(vs) = n
  BY <1>1, <1>2, SeqDef
<1>4. Emitted(h, vs) \in [1..n -> Packet]
  <2>1. pkt[h].id \in Nat
    BY DEF Frame
  <2>2. ASSUME NEW k \in 1..n
        PROVE  [src |-> h, id |-> pkt[h].id, k |-> k, port |-> vs[k].port,
                hlen |-> vs[k].hlen, sc |-> vs[k].sc] \in Packet
    <3>1. vs[k].port \in U16 /\ vs[k].hlen \in Nat /\ vs[k].sc \in U16
      BY <1>2 DEF Verdict
    <3>2. k \in Nat
      BY <1>2
    <3> QED BY <2>1, <3>1, <3>2 DEF Packet
  <2> QED BY <1>2, <2>2, Zenon DEF Emitted
<1>5. Emitted(h, vs) \in Seq(Packet) /\ Len(Emitted(h, vs)) = n
  BY <1>2, <1>4, SeqDef
<1> QED
  BY <1>2, <1>3, <1>5 DEF Emitted

-----------------------------------------------------------------------------
(* Type correctness.                                                       *)

\* The process starts in the types.
LEMMA InitType == Init => TypeOK
<1> SUFFICES ASSUME Init PROVE TypeOK
  OBVIOUS
<1> USE DEF Init, SharedInit, DPInit, MgInit
<1>1. SharedTypeOK
  BY DEF SharedTypeOK
<1>2. DPTypeOK
  <2>1. NoFrame \in Frame /\ NoFrame.len = 0
    BY DEF NoFrame, Frame
  <2>2. \A h \in Handlers : BufLen(h) \in Nat
    BY BufLenType
  <2>3. arrived \in 0..MaxFrames
    BY DataPlaneAssumption
  <2> QED BY <2>1, <2>2, <2>3 DEF DPTypeOK
<1>3. MgTypeOK
  <2>1. NoMsg \in Request
    BY DEF NoMsg, Request
  <2>2. NoReply \in Answer
    BY DEF NoReply, Answer, U16
  <2>3. submitted \in 0..MaxRequests
    BY ManagementAssumption
  <2>4. sock \in Seq(Request) /\ inbox \in Seq(Answer) /\ asked \in Seq(Queries)
    OBVIOUS
  <2> QED BY <2>1, <2>2, <2>3, <2>4, Zenon DEF MgTypeOK
<1> QED BY <1>1, <1>2, <1>3 DEF TypeOK

\* A frame that arrives keeps the types of the data plane.
LEMMA ArriveType ==
  ASSUME TypeOK, NEW h \in Handlers, NEW n \in FrameLens, Arrive(h, n)
  PROVE  SharedTypeOK' /\ DPTypeOK'
<1>1. SharedTypeOK'
  BY DEF TypeOK, SharedTypeOK, Arrive, shared
<1>2. arrived' \in 0..MaxFrames
  BY DataPlaneAssumption DEF TypeOK, DPTypeOK, Arrive
<1>3. [id |-> arrived + 1, len |-> n] \in Frame
  BY DataPlaneAssumption DEF TypeOK, DPTypeOK, Frame
<1>4. rx' \in [Handlers -> Seq(Frame)]
  BY <1>3 DEF TypeOK, DPTypeOK, Arrive
<1> QED BY <1>1, <1>2, <1>4 DEF TypeOK, DPTypeOK, Arrive, BufLen

\* So does every step of a handler.
LEMMA HandlerType ==
  ASSUME TypeOK, NEW h \in Handlers, HandlerStep(h)
  PROVE  SharedTypeOK' /\ DPTypeOK'
<1> USE DEF TypeOK, DPTypeOK, SharedTypeOK, shared, BufLen
<1>1. CASE Recv(h)
  <2>1. /\ Head(rx[h]) \in Frame
        /\ Tail(rx[h]) \in Seq(Frame)
    BY <1>1 DEF Recv
  <2>2. /\ Received(h, Head(rx[h])) \in Frame
        /\ Received(h, Head(rx[h])).len <= BufLen(h)
    BY <2>1, ReceivedFits
  <2> QED BY <1>1, <2>1, <2>2 DEF Recv
<1>2. CASE RecvPanics(h)
  <2>1. /\ Head(rx[h]) \in Frame
        /\ Tail(rx[h]) \in Seq(Frame)
    BY <1>2 DEF RecvPanics
  <2>2. /\ Received(h, Head(rx[h])) \in Frame
        /\ Received(h, Head(rx[h])).len <= BufLen(h)
    BY <2>1, ReceivedFits
  <2> QED BY <1>2, <2>1, <2>2 DEF RecvPanics, Unwind
<1>3. CASE AcquireLock(h)
  BY <1>3 DEF AcquireLock, Lock, Tasks
<1>4. CASE LockIsPoisoned(h)
  BY <1>4 DEF LockIsPoisoned, LockPanics
<1>5. CASE Process(h)
  <2>1. NoFrame \in Frame /\ NoFrame.len <= BufLen(h)
    BY BufLenType DEF NoFrame, Frame
  <2>2. PICK vs \in VerdictSeqs :
          /\ outq' = [outq EXCEPT ![h] = Emitted(h, vs)]
          /\ pc'   = [pc EXCEPT ![h] = Continue(vs)]
    BY <1>5 DEF Process
  <2>3. /\ Emitted(h, vs) \in Seq(Packet)
        /\ Len(Emitted(h, vs)) = Len(vs)
        /\ vs \in Seq(Verdicts)
    BY EmittedType
  <2>4. Continue(vs) = "send" => Emitted(h, vs) # <<>>
    BY <2>3 DEF Continue
  <2>5. Continue(vs) \in {"recv", "send"}
    BY DEF Continue
  <2> QED BY <1>5, <2>1, <2>2, <2>3, <2>4, <2>5 DEF Process, Unlock
<1>6. CASE ProcessPanics(h)
  BY <1>6 DEF ProcessPanics, CallPanics, Unwind
<1>7. ASSUME Sent(h), pc[h] = "send"
      PROVE  /\ SharedTypeOK'
             /\ outq' \in [Handlers -> Seq(Packet)]
             /\ pc' \in [Handlers -> {"recv", "lock", "call", "send", "dead"}]
             /\ \A g \in Handlers : pc'[g] = "send" => outq'[g] # <<>>
  <2>1. Tail(outq[h]) \in Seq(Packet) /\ Head(outq[h]) \in Packet
    BY <1>7
  <2>2. /\ Continue(Tail(outq[h])) = "send" => Tail(outq[h]) # <<>>
        /\ Continue(Tail(outq[h])) \in {"recv", "send"}
    BY DEF Continue
  <2>3. SharedTypeOK'
    BY <1>7 DEF Sent, LeaveBlock
  <2> QED BY <1>7, <2>1, <2>2, <2>3 DEF Sent
<1>8. CASE SendPacket(h)
  <2> DEFINE l == Dest(h, Head(outq[h]))
  <2>1. l \in Links /\ Head(outq[h]) \in Packet
    BY <1>8 DEF SendPacket
  <2>2. tx' = [tx EXCEPT ![l] = Append(@, Head(outq[h]))]
    BY <1>8 DEF SendPacket
  <2> HIDE DEF l
  <2>3. tx' \in [Links -> Seq(Packet)]
    BY <2>1, <2>2
  <2> QED BY <1>7, <1>8, <2>3 DEF SendPacket
<1>9. CASE LosePacket(h)
  BY <1>7, <1>9 DEF LosePacket
<1>10. CASE DispatchPanics(h)
  BY <1>10 DEF DispatchPanics, Unwind
<1> QED
  BY <1>1, <1>2, <1>3, <1>4, <1>5, <1>6, <1>8, <1>9, <1>10 DEF HandlerStep

\* What is answered is an answer.
LEMMA AnswerType ==
  ASSUME tables \subseteq Keys
  PROVE  /\ AnswerTo("radix") \in Answer
         /\ AnswerTo("radix").type = "radix"
         /\ AnswerTo("dump") \in Answer
         /\ AnswerTo("dump").type = "dump"
<1>1. NumPorts % 65536 \in U16
  <2>1. NumPorts \in Nat /\ NumPorts < 65536
    BY PortsAssumption
  <2>2. NumPorts % 65536 = NumPorts
    BY <2>1
  <2> QED BY <2>1, <2>2 DEF U16
<1>2. /\ AnswerTo("radix") = [type |-> "radix", radix |-> NumPorts % 65536]
      /\ AnswerTo("dump")  = [type |-> "dump", entries |-> tables]
  BY DEF AnswerTo
<1> HIDE DEF AnswerTo
<1> QED BY <1>1, <1>2 DEF Answer

\* The clients keep the types of the management interface.
LEMMA ClientType ==
  ASSUME TypeOK, ClientStep
  PROVE  SharedTypeOK' /\ MgTypeOK'
<1> USE DEF TypeOK, SharedTypeOK, MgTypeOK, shared
<1>1. CASE ClientBind
  BY <1>1 DEF ClientBind
<1>2. ASSUME NEW r \in Request, ClientSend(r)
      PROVE  SharedTypeOK' /\ MgTypeOK'
  <2>1. submitted' \in 0..MaxRequests
    BY <1>2, ManagementAssumption DEF ClientSend
  <2>2. r.type \in Queries => Append(asked, r.type) \in Seq(Queries)
    OBVIOUS
  <2>3. asked' \in Seq(Queries)
    BY <1>2, <2>2 DEF ClientSend
  <2> QED BY <1>2, <2>1, <2>3 DEF ClientSend
<1>3. CASE ClientRead
  BY <1>3 DEF ClientRead
<1>4. CASE ClientLeave
  <2>1. <<>> \in Seq(Answer) /\ <<>> \in Seq(Queries)
    OBVIOUS
  <2> QED BY <1>4, <2>1, Zenon DEF ClientLeave
<1> QED BY <1>1, <1>2, <1>3, <1>4 DEF ClientStep

\* So does every step of the main task.
LEMMA MainType ==
  ASSUME TypeOK, MainStep
  PROVE  SharedTypeOK' /\ MgTypeOK'
<1> USE DEF TypeOK, SharedTypeOK, MgTypeOK, shared
<1>1. CASE MgRecv
  <2>1. Head(sock) \in Request /\ Tail(sock) \in Seq(Request)
    BY <1>1 DEF MgRecv
  <2>2. Head(sock).type \in {"add", "remove", "radix", "dump", "junk"}
    BY <2>1 DEF Request, Queries
  <2>3. reply' \in Answer
    BY <1>1, AnswerType DEF MgRecv
  <2>4. /\ msg' = Head(sock)
        /\ mpc' = CASE Head(sock).type = "junk"  -> "recv"
                    [] Head(sock).type = "radix" -> "reply"
                    [] OTHER                     -> "lock"
    BY <1>1 DEF MgRecv, Parsed
  <2>5. /\ mpc' \in {"recv", "reply", "lock"}
        /\ mpc' = "lock" => msg'.type \in {"add", "remove", "dump"}
    BY <2>2, <2>4
  <2>6. sock' = Tail(sock) /\ UNCHANGED <<inbox, bound, asked, submitted, shared>>
    BY <1>1 DEF MgRecv
  <2> QED BY <2>1, <2>3, <2>4, <2>5, <2>6
<1>2. CASE MgLock
  BY <1>2 DEF MgLock, Lock, Tasks
<1>3. CASE MgLockIsPoisoned
  BY <1>3 DEF MgLockIsPoisoned, LockPanics
<1>4. CASE MgUpdate
  <2>1. msg.key \in Keys
    BY <1>4 DEF MgUpdate, Request, Queries
  <2> QED BY <1>4, <2>1 DEF MgUpdate, Unlock
<1>5. CASE MgCallPanics
  BY <1>5 DEF MgCallPanics, CallPanics, Unwind
<1>6. CASE MgDump
  BY <1>6, AnswerType DEF MgDump, Unlock
<1>7. CASE MgReply
  BY <1>7 DEF MgReply, LeaveBlock
<1>8. CASE MgReplyPanics
  BY <1>8 DEF MgReplyPanics, Unwind
<1>9. CASE Exit
  BY <1>9 DEF Exit, mgVars
<1> QED
  BY <1>1, <1>2, <1>3, <1>4, <1>5, <1>6, <1>7, <1>8, <1>9 DEF MainStep

\* Every step of the process keeps the types.
LEMMA StepType ==
  ASSUME TypeOK, [Next]_vars
  PROVE  TypeOK'
<1>1. CASE Traffic
  BY <1>1, ArriveType DEF Traffic, TypeOK, MgTypeOK, mgVars
<1>2. ASSUME NEW h \in Handlers, Handle(h)
      PROVE  TypeOK'
  BY <1>2, HandlerType DEF Handle, TypeOK, MgTypeOK, mgVars
<1>3. CASE Client
  BY <1>3, ClientType DEF Client, TypeOK, DPTypeOK, dpVars, BufLen
<1>4. CASE Manage
  BY <1>4, MainType DEF Manage, TypeOK, DPTypeOK, dpVars, BufLen
<1>5. CASE UNCHANGED vars
  BY <1>5 DEF vars, shared, dpVars, mgVars, TypeOK, SharedTypeOK, DPTypeOK,
              MgTypeOK, BufLen
<1> QED BY <1>1, <1>2, <1>3, <1>4, <1>5 DEF Next

(***************************************************************************)
(* The types of every variable hold in every state of the process.         *)
(***************************************************************************)
THEOREM TypeCorrect == Spec => []TypeOK
<1>1. Init => TypeOK
  BY InitType
<1>2. TypeOK /\ [Next]_vars => TypeOK'
  BY StepType
<1> QED BY <1>1, <1>2, PTL DEF Spec

-----------------------------------------------------------------------------
(* The guard of the mutex.                                                 *)

\* A handler that sends, and the main task when it answers, have no guard left
\* to drop at the end of their blocks.
LEMMA NothingToDrop ==
  ASSUME NoGuardAcrossAwait, up
  PROVE  /\ \A h \in Handlers : pc[h] = "send" /\ Sent(h) => UNCHANGED shared
         /\ MgReply => UNCHANGED shared
BY DEF NoGuardAcrossAwait, Sent, MgReply, LeaveBlock, shared

\* The guard, as a handler that is not at h finds it after a step of h.
LEMMA HandlerGuard ==
  ASSUME TypeOK, NoGuardAcrossAwait, PoisonedIsFree,
         NEW h \in Handlers, HandlerStep(h), UNCHANGED mgVars
  PROVE  NoGuardAcrossAwait' /\ PoisonedIsFree'
<1> USE DEF TypeOK, DPTypeOK, NoGuardAcrossAwait, PoisonedIsFree
<1>0. up /\ UNCHANGED mpc
  BY DEF HandlerStep, Recv, RecvPanics, AcquireLock, LockIsPoisoned, Process,
         ProcessPanics, SendPacket, LosePacket, DispatchPanics, mgVars
<1>1. CASE Recv(h)
  BY <1>0, <1>1 DEF Recv, shared
<1>2. CASE RecvPanics(h)
  BY <1>0, <1>2, TasksDiffer DEF RecvPanics, Unwind
<1>3. CASE AcquireLock(h)
  BY <1>0, <1>3, TasksDiffer DEF AcquireLock, Lock
<1>4. CASE LockIsPoisoned(h)
  BY <1>0, <1>4 DEF LockIsPoisoned, LockPanics, shared
<1>5. CASE Process(h)
  <2>1. PICK vs \in VerdictSeqs : pc' = [pc EXCEPT ![h] = Continue(vs)]
    BY <1>5 DEF Process
  <2>2. Continue(vs) # "call"
    BY DEF Continue
  <2> QED BY <1>0, <1>5, <2>1, <2>2, TasksDiffer DEF Process, Unlock
<1>6. CASE ProcessPanics(h)
  BY <1>0, <1>6, TasksDiffer DEF ProcessPanics, CallPanics, Unwind
<1>7. ASSUME Sent(h), pc[h] = "send"
      PROVE  NoGuardAcrossAwait' /\ PoisonedIsFree'
  <2>1. Continue(Tail(outq[h])) # "call"
    BY DEF Continue
  <2>2. UNCHANGED shared
    BY <1>0, <1>7, NothingToDrop
  <2> QED BY <1>0, <1>7, <2>1, <2>2 DEF Sent, shared
<1>8. CASE SendPacket(h)
  BY <1>7, <1>8 DEF SendPacket
<1>9. CASE LosePacket(h)
  BY <1>7, <1>9 DEF LosePacket
<1>10. CASE DispatchPanics(h)
  BY <1>0, <1>10, TasksDiffer DEF DispatchPanics, Unwind
<1> QED
  BY <1>1, <1>2, <1>3, <1>4, <1>5, <1>6, <1>8, <1>9, <1>10 DEF HandlerStep

\* The same, for a step of the main task.
LEMMA MainGuard ==
  ASSUME TypeOK, NoGuardAcrossAwait, PoisonedIsFree, MainStep, UNCHANGED dpVars
  PROVE  NoGuardAcrossAwait' /\ PoisonedIsFree'
<1> USE DEF NoGuardAcrossAwait, PoisonedIsFree
<1>0. up /\ UNCHANGED pc
  BY DEF MainStep, MgRecv, MgLock, MgLockIsPoisoned, MgUpdate, MgCallPanics,
         MgDump, MgReply, MgReplyPanics, Exit, dpVars
<1>1. CASE MgRecv
  <2>1. mpc' # "call"
    BY <1>1 DEF MgRecv
  <2> QED BY <1>0, <1>1, <2>1 DEF MgRecv, shared
<1>2. CASE MgLock
  BY <1>0, <1>2, TasksDiffer DEF MgLock, Lock
<1>3. CASE MgLockIsPoisoned
  BY <1>0, <1>3 DEF MgLockIsPoisoned, LockPanics, shared
<1>4. CASE MgUpdate
  BY <1>0, <1>4, TasksDiffer DEF MgUpdate, Unlock
<1>5. CASE MgCallPanics
  BY <1>0, <1>5, TasksDiffer DEF MgCallPanics, CallPanics, Unwind
<1>6. CASE MgDump
  BY <1>0, <1>6, TasksDiffer DEF MgDump, Unlock
<1>7. CASE MgReply
  <2>1. UNCHANGED shared
    BY <1>0, <1>7, NothingToDrop
  <2> QED BY <1>0, <1>7, <2>1 DEF MgReply, shared
<1>8. CASE MgReplyPanics
  BY <1>0, <1>8 DEF MgReplyPanics, Unwind
<1>9. CASE Exit
  BY <1>0, <1>9 DEF Exit
<1> QED
  BY <1>1, <1>2, <1>3, <1>4, <1>5, <1>6, <1>7, <1>8, <1>9 DEF MainStep

\* IInv holds at the start.
LEMMA InitInvariant == Init => IInv
<1> SUFFICES ASSUME Init PROVE IInv
  OBVIOUS
<1>1. TypeOK
  BY InitType
<1>2. NoGuardAcrossAwait /\ PoisonedIsFree
  BY TasksDiffer DEF Init, SharedInit, DPInit, MgInit, NoGuardAcrossAwait,
                     PoisonedIsFree
<1> QED BY <1>1, <1>2 DEF IInv

\* Every step keeps IInv.
LEMMA StepInvariant ==
  ASSUME IInv, [Next]_vars
  PROVE  IInv'
<1> SUFFICES NoGuardAcrossAwait' /\ PoisonedIsFree'
  BY StepType DEF IInv
<1>0. TypeOK /\ NoGuardAcrossAwait /\ PoisonedIsFree
  BY DEF IInv
<1>1. ASSUME UNCHANGED shared, UNCHANGED pc, UNCHANGED mpc
      PROVE  NoGuardAcrossAwait' /\ PoisonedIsFree'
  BY <1>0, <1>1 DEF NoGuardAcrossAwait, PoisonedIsFree, shared
<1>2. CASE Traffic
  BY <1>1, <1>2 DEF Traffic, Arrive, mgVars
<1>3. ASSUME NEW h \in Handlers, Handle(h)
      PROVE  NoGuardAcrossAwait' /\ PoisonedIsFree'
  BY <1>0, <1>3, HandlerGuard DEF Handle
<1>4. CASE Client
  BY <1>1, <1>4 DEF Client, ClientStep, ClientBind, ClientSend, ClientRead,
                    ClientLeave, dpVars
<1>5. CASE Manage
  BY <1>0, <1>5, MainGuard DEF Manage
<1>6. CASE UNCHANGED vars
  BY <1>1, <1>6 DEF vars, dpVars, mgVars
<1> QED BY <1>2, <1>3, <1>4, <1>5, <1>6 DEF Next

\* IInv holds in every state.
THEOREM Invariance == Spec => []IInv
<1>1. Init => IInv
  BY InitInvariant
<1>2. IInv /\ [Next]_vars => IInv'
  BY StepInvariant
<1> QED BY <1>1, <1>2, PTL DEF Spec

(***************************************************************************)
(* No task holds the guard of the mutex outside a call into the pipeline:  *)
(* not while it awaits a frame, a request or a client, nor while it sends. *)
(***************************************************************************)
THEOREM GuardIsNotHeldAcrossAwait == Spec => []NoGuardAcrossAwait
<1>1. IInv => NoGuardAcrossAwait
  BY DEF IInv
<1> QED BY <1>1, Invariance, PTL

-----------------------------------------------------------------------------
(* Panics and poison.                                                      *)

\* With the mutex poisoned, no step takes it or changes the tables.
LEMMA StepPoisoned ==
  ASSUME IInv, [Next]_vars, poisoned
  PROVE  UNCHANGED <<tables, poisoned, holder>>
<1>0. holder = NoTask
  BY DEF IInv, PoisonedIsFree
<1>1. CASE Traffic
  BY <1>1 DEF Traffic, Arrive, shared
<1>2. ASSUME NEW h \in Handlers, HandlerStep(h)
      PROVE  UNCHANGED <<tables, poisoned, holder>>
  <2>1. holder # h
    BY <1>0, TasksDiffer
  <2> QED
    BY <1>0, <1>2, <2>1
    DEF HandlerStep, Recv, RecvPanics, AcquireLock, LockIsPoisoned, Process,
        ProcessPanics, SendPacket, LosePacket, DispatchPanics, Sent, Lock,
        LockPanics, Unlock, LeaveBlock, CallPanics, Unwind, shared
<1>3. CASE ClientStep
  BY <1>3 DEF ClientStep, ClientBind, ClientSend, ClientRead, ClientLeave, shared
<1>4. CASE MainStep
  <2>1. holder # Main
    BY <1>0, TasksDiffer
  <2> QED
    BY <1>0, <1>4, <2>1
    DEF MainStep, MgRecv, MgLock, MgLockIsPoisoned, MgUpdate, MgCallPanics,
        MgDump, MgReply, MgReplyPanics, Exit, Lock, LockPanics, Unlock,
        LeaveBlock, CallPanics, Unwind, shared
<1>5. CASE UNCHANGED vars
  BY <1>5 DEF vars, shared
<1> QED
  BY <1>1, <1>2, <1>3, <1>4, <1>5 DEF Next, Handle, Client, Manage

(***************************************************************************)
(* Once a panic has poisoned the mutex, no step of any task takes it,      *)
(* changes the tables or clears the poison.                                *)
(***************************************************************************)
THEOREM PoisonIsFinal == Spec => PoisonFreezesTables
<1>1. IInv /\ [Next]_vars => [poisoned => UNCHANGED <<tables, poisoned, holder>>]_shared
  BY StepPoisoned
<1> QED BY <1>1, Invariance, PTL DEF Spec, PoisonFreezesTables

\* A task that panics outside a call into the pipeline does not hold the
\* guard, so it does not poison the mutex.
LEMMA StepUnpoisoned ==
  ASSUME IInv, [Next]_vars, ~PipelineMayPanic, ~CallMayPanic, ~poisoned
  PROVE  ~poisoned'
<1> USE DEF IInv, NoGuardAcrossAwait
<1>1. CASE Traffic
  BY <1>1 DEF Traffic, Arrive, shared
<1>2. ASSUME NEW h \in Handlers, HandlerStep(h)
      PROVE  ~poisoned'
  BY <1>2
  DEF HandlerStep, Recv, RecvPanics, AcquireLock, LockIsPoisoned, Process,
      ProcessPanics, SendPacket, LosePacket, DispatchPanics, Sent, Lock,
      LockPanics, Unlock, LeaveBlock, Unwind, shared
<1>3. CASE ClientStep
  BY <1>3 DEF ClientStep, ClientBind, ClientSend, ClientRead, ClientLeave, shared
<1>4. CASE MainStep
  BY <1>4
  DEF MainStep, MgRecv, MgLock, MgLockIsPoisoned, MgUpdate, MgCallPanics,
      MgDump, MgReply, MgReplyPanics, Exit, Lock, LockPanics, Unlock,
      LeaveBlock, Unwind, shared
<1>5. CASE UNCHANGED vars
  BY <1>5 DEF vars, shared
<1> QED
  BY <1>1, <1>2, <1>3, <1>4, <1>5 DEF Next, Handle, Client, Manage

(***************************************************************************)
(* If the pipeline does not panic, nothing that kills a task poisons the   *)
(* mutex for the others.                                                   *)
(***************************************************************************)
THEOREM FaultsDoNotPoison == Spec => []OnlyThePipelinePoisons
<1>1. Init => OnlyThePipelinePoisons
  BY DEF Init, SharedInit, OnlyThePipelinePoisons
<1>2. IInv /\ OnlyThePipelinePoisons /\ [Next]_vars => OnlyThePipelinePoisons'
  BY StepUnpoisoned DEF OnlyThePipelinePoisons
<1> QED BY <1>1, <1>2, Invariance, PTL DEF Spec

-----------------------------------------------------------------------------
(* Where packets go.                                                       *)

\* The link l is the one the verdict of the packet o names.
Rightful(l, o) ==
  \/ l = <<"sidecar", o.port>>
  \/ /\ l = <<"scrimlet", o.sc>>
     /\ o.port = 0
     /\ o.hlen >= 38
     /\ o.src[1] = "ingress"

\* The dispatch of either handler sends a packet nowhere else.
LEMMA DestIsRightful ==
  ASSUME NEW h \in Handlers, NEW o \in Packet, o.src = h, Dest(h, o) \in Links
  PROVE  Rightful(Dest(h, o), o)
<1>1. Dropped \notin Links /\ Panics \notin Links
  BY DEF Dropped, Panics, Links
<1>2. h[1] \in {"ingress", "egress"}
  BY DEF Handlers
<1>3. CASE o.port # 0
  BY <1>1, <1>3 DEF Dest, ExtDest, Rightful
<1>4. CASE o.port = 0
  <2>1. h[1] = "ingress" /\ Dest(h, o) = CpuDest(o)
    BY <1>1, <1>2, <1>4 DEF Dest
  <2>2. o.hlen \in Nat
    BY DEF Packet
  <2>3. o.hlen >= 38 /\ o.sc \in Ports
    <3>1. CASE o.hlen < 18
      BY <1>1, <2>1, <3>1 DEF CpuDest
    <3>2. CASE o.hlen >= 18 /\ o.sc \notin Ports
      BY <1>1, <2>1, <2>2, <3>2 DEF CpuDest
    <3>3. CASE o.hlen \in 18..37 /\ o.sc \in Ports
      BY <1>1, <2>1, <2>2, <3>3 DEF CpuDest
    <3> QED BY <2>2, <3>1, <3>2, <3>3
  <2>4. CpuDest(o) = <<"scrimlet", o.sc>>
    BY <2>2, <2>3 DEF CpuDest
  <2> QED BY <1>4, <2>1, <2>3, <2>4 DEF Rightful
<1> QED BY <1>3, <1>4

\* A handler's output names the handler.
OutputIsItsOwn ==
  \A h \in Handlers : \A k \in 1..Len(outq[h]) : outq[h][k].src = h

LinksAreRight == \A l \in Links : \A j \in 1..Len(tx[l]) : Rightful(l, tx[l][j])

\* Every step of a handler keeps both.
LEMMA HandlerDispatch ==
  ASSUME TypeOK, OutputIsItsOwn, LinksAreRight, NEW h \in Handlers, HandlerStep(h)
  PROVE  OutputIsItsOwn' /\ LinksAreRight'
<1> USE DEF TypeOK, DPTypeOK
<1>1. ASSUME UNCHANGED <<outq, tx>>
      PROVE  OutputIsItsOwn' /\ LinksAreRight'
  BY <1>1 DEF OutputIsItsOwn, LinksAreRight
<1>2. CASE Recv(h) \/ RecvPanics(h) \/ AcquireLock(h) \/ LockIsPoisoned(h)
             \/ ProcessPanics(h)
  BY <1>1, <1>2 DEF Recv, RecvPanics, AcquireLock, LockIsPoisoned, ProcessPanics
<1>3. CASE Process(h)
  <2>1. PICK vs \in VerdictSeqs : outq' = [outq EXCEPT ![h] = Emitted(h, vs)]
    BY <1>3 DEF Process
  <2>2. \A k \in 1..Len(Emitted(h, vs)) : Emitted(h, vs)[k].src = h
    <3>1. /\ Len(Emitted(h, vs)) = Len(vs)
          /\ \A k \in 1..Len(vs) :
               Emitted(h, vs)[k] = [src |-> h, id |-> pkt[h].id, k |-> k,
                 port |-> vs[k].port, hlen |-> vs[k].hlen, sc |-> vs[k].sc]
      BY EmittedType
    <3>2. ASSUME NEW k \in 1..Len(vs)
          PROVE  Emitted(h, vs)[k].src = h
      <4>1. Emitted(h, vs)[k] = [src |-> h, id |-> pkt[h].id, k |-> k,
              port |-> vs[k].port, hlen |-> vs[k].hlen, sc |-> vs[k].sc]
        BY <3>1
      <4> QED BY <4>1
    <3> QED BY <3>1, <3>2
  <2>3. OutputIsItsOwn'
    BY <2>1, <2>2 DEF OutputIsItsOwn
  <2>4. LinksAreRight'
    BY <1>3 DEF Process, LinksAreRight
  <2> QED BY <2>3, <2>4
<1>4. ASSUME Sent(h), pc[h] = "send"
      PROVE  OutputIsItsOwn'
  <2>1. \A k \in 1..Len(Tail(outq[h])) : Tail(outq[h])[k].src = h
    BY <1>4 DEF OutputIsItsOwn
  <2> QED BY <1>4, <2>1 DEF Sent, OutputIsItsOwn
<1>5. CASE SendPacket(h)
  <2> DEFINE o == Head(outq[h])
             l == Dest(h, o)
  <2>1. o \in Packet /\ o.src = h
    BY <1>5 DEF SendPacket, OutputIsItsOwn
  <2>2. l \in Links /\ tx' = [tx EXCEPT ![l] = Append(@, o)]
    BY <1>5 DEF SendPacket
  <2>3. Rightful(l, o)
    BY <2>1, <2>2, DestIsRightful
  <2> HIDE DEF l, o
  <2>4. LinksAreRight'
    BY <2>1, <2>2, <2>3 DEF LinksAreRight
  <2> QED BY <1>4, <1>5, <2>4 DEF SendPacket
<1>6. CASE LosePacket(h)
  BY <1>4, <1>6 DEF LosePacket, LinksAreRight
<1>7. CASE DispatchPanics(h)
  BY <1>7 DEF DispatchPanics, LinksAreRight, OutputIsItsOwn
<1> QED BY <1>2, <1>3, <1>5, <1>6, <1>7 DEF HandlerStep

\* Both hold in every state.
LEMMA DispatchInvariance == Spec => [](OutputIsItsOwn /\ LinksAreRight)
<1> DEFINE J == OutputIsItsOwn /\ LinksAreRight
<1>1. Init => J
  BY DEF Init, DPInit, OutputIsItsOwn, LinksAreRight
<1>2. TypeOK /\ J /\ [Next]_vars => J'
  <2> SUFFICES ASSUME TypeOK, J, [Next]_vars PROVE J'
    OBVIOUS
  <2>1. ASSUME UNCHANGED <<outq, tx>> PROVE J'
    BY <2>1 DEF OutputIsItsOwn, LinksAreRight
  <2>2. ASSUME NEW h \in Handlers, Handle(h) PROVE J'
    BY <2>2, HandlerDispatch DEF Handle
  <2> QED
    BY <2>1, <2>2 DEF Next, Traffic, Arrive, Client, Manage, vars, dpVars
<1> QED BY <1>1, <1>2, TypeCorrect, PTL DEF Spec

(***************************************************************************)
(* Every packet on a link is one whose verdict names that link: none goes  *)
(* out of another port, and none from the host back to the host.           *)
(***************************************************************************)
THEOREM PacketsGoWhereTheyShould == Spec => []RightLink
<1>1. LinksAreRight => RightLink
  BY DEF LinksAreRight, Rightful, RightLink
<1> QED BY <1>1, DispatchInvariance, PTL

-----------------------------------------------------------------------------
(* The radix.                                                              *)

\* The radix in the answers, on their way or in hand, is the number of ports.
RadixIsNumPorts ==
  /\ \A i \in 1..Len(inbox) : inbox[i].type = "radix" => inbox[i].radix = NumPorts
  /\ mpc = "reply" /\ reply.type = "radix" => reply.radix = NumPorts

\* The cast `radix as u16` loses nothing, since run() refuses more ports.
LEMMA RadixFits == AnswerTo("radix").radix = NumPorts
<1>1. NumPorts \in Nat /\ NumPorts < 65536
  BY PortsAssumption
<1>2. NumPorts % 65536 = NumPorts
  BY <1>1
<1> QED BY <1>2 DEF AnswerTo

\* Every step of the main task keeps the radix in its answers.
LEMMA MainRadix ==
  ASSUME TypeOK, RadixIsNumPorts, MainStep
  PROVE  RadixIsNumPorts'
<1> USE DEF TypeOK, MgTypeOK
<1>1. CASE MgRecv
  <2>1. UNCHANGED inbox
    BY <1>1 DEF MgRecv
  <2>2. mpc' = "reply" => reply' = AnswerTo("radix")
    BY <1>1 DEF MgRecv, Parsed
  <2> QED BY <2>1, <2>2, RadixFits DEF RadixIsNumPorts
<1>2. CASE MgDump
  <2>1. reply' = [type |-> "dump", entries |-> tables] /\ UNCHANGED inbox
    BY <1>2 DEF MgDump, AnswerTo
  <2>2. reply'.type = "dump"
    BY <2>1
  <2> QED BY <2>1, <2>2 DEF RadixIsNumPorts
<1>3. CASE MgReply
  BY <1>3 DEF MgReply, RadixIsNumPorts
<1>4. CASE \/ MgLock \/ MgLockIsPoisoned \/ MgUpdate \/ MgCallPanics
          \/ MgReplyPanics
  BY <1>4 DEF MgLock, MgLockIsPoisoned, MgUpdate, MgCallPanics, MgReplyPanics,
              RadixIsNumPorts
<1>5. CASE Exit
  BY <1>5 DEF Exit, mgVars, RadixIsNumPorts
<1> QED BY <1>1, <1>2, <1>3, <1>4, <1>5 DEF MainStep

\* So does every step of a client.
LEMMA ClientRadix ==
  ASSUME TypeOK, RadixIsNumPorts, ClientStep
  PROVE  RadixIsNumPorts'
<1> USE DEF TypeOK, MgTypeOK
<1>1. CASE ClientRead
  BY <1>1 DEF ClientRead, RadixIsNumPorts
<1>2. CASE ClientBind \/ \E r \in Request : ClientSend(r)
  BY <1>2 DEF ClientBind, ClientSend, RadixIsNumPorts
<1>3. CASE ClientLeave
  BY <1>3 DEF ClientLeave, RadixIsNumPorts
<1> QED BY <1>1, <1>2, <1>3 DEF ClientStep

(***************************************************************************)
(* For any number of ports run() accepts, the radix a client is told is    *)
(* the number of the last egress port packets are forwarded to.            *)
(***************************************************************************)
THEOREM RadixIsRight == Spec => []RadixIsTheLastPort
<1>1. Init => RadixIsNumPorts
  BY DEF Init, MgInit, RadixIsNumPorts
<1>2. TypeOK /\ RadixIsNumPorts /\ [Next]_vars => RadixIsNumPorts'
  <2> SUFFICES ASSUME TypeOK, RadixIsNumPorts, [Next]_vars PROVE RadixIsNumPorts'
    OBVIOUS
  <2>1. ASSUME UNCHANGED mgVars PROVE RadixIsNumPorts'
    BY <2>1 DEF mgVars, RadixIsNumPorts
  <2> QED
    BY <2>1, MainRadix, ClientRadix DEF Next, Traffic, Handle, Client, Manage, vars
<1>3. RadixIsNumPorts => RadixIsTheLastPort
  <2>1. ASSUME NEW p \in 1..(NumPorts + 1)
        PROVE  p <= NumPorts <=> ExtDest(p) # Dropped
    BY PortsAssumption DEF ExtDest, Dropped, Ports
  <2> QED BY <2>1 DEF RadixIsNumPorts, RadixIsTheLastPort
<1> QED BY <1>1, <1>2, <1>3, TypeCorrect, PTL DEF Spec

-----------------------------------------------------------------------------
(* The handlers die only of what they were given.                          *)

NoPanics == ~PipelineMayPanic /\ ~CallMayPanic

\* The dead, if the pipeline does not panic, died of what was theirs.
OwnDeaths ==
  \A h \in Handlers : pc[h] = "dead" =>
    \/ h[1] = "ingress" /\ outq[h] # <<>> /\ TooShort(Head(outq[h]))
    \/ h[1] = "egress"  /\ TooLong(h, pkt[h])

\* A packet whose dispatch panics has no whole header, and is for the CPU
\* port; only the handlers of the network dispatch those.
LEMMA ShortHeadersPanic ==
  ASSUME NEW h \in Handlers, NEW o \in Packet, Dest(h, o) = Panics
  PROVE  h[1] = "ingress" /\ TooShort(o)
<1>1. o.hlen \in Nat
  BY DEF Packet
<1>2. h[1] \in {"ingress", "egress"}
  BY DEF Handlers
<1>3. ExtDest(o.port) # Panics
  BY DEF ExtDest, Dropped, Panics
<1>4. Dropped # Panics
  BY DEF Dropped, Panics
<1>5. o.port = 0 /\ h[1] = "ingress" /\ CpuDest(o) = Panics
  BY <1>2, <1>3, <1>4 DEF Dest
<1>6. o.hlen < 38
  <2> SUFFICES ASSUME o.hlen >= 38 PROVE FALSE
    BY <1>1
  <2>1. CASE o.sc \in Ports
    BY <1>1, <1>5, <2>1 DEF CpuDest, Panics
  <2>2. CASE o.sc \notin Ports
    BY <1>1, <1>4, <1>5, <2>2 DEF CpuDest
  <2> QED BY <2>1, <2>2
<1> QED BY <1>5, <1>6 DEF TooShort, EthHdr, SidecarHdr

\* A frame that cannot be encapsulated, whole or cut off, is too long.
LEMMA LongFramesPanic ==
  ASSUME NEW h \in Handlers, NEW f \in Frame, ~Encapsulates(h, Received(h, f))
  PROVE  TooLong(h, Received(h, f)) /\ TooLong(h, f)
<1>1. BufLen(h) \in Nat /\ f.len \in Nat
  BY BufLenType DEF Frame
<1>2. Received(h, f) \in Frame /\ Received(h, f).len <= BufLen(h)
  BY ReceivedFits
<1>3. TooLong(h, Received(h, f))
  BY <1>1, <1>2 DEF Encapsulates, TooLong, BufLen, Frame, SidecarHdr
<1>4. CASE f.len <= BufLen(h)
  <2>1. Received(h, f) = [f EXCEPT !.len = f.len]
    BY <1>4 DEF Received
  <2>2. Received(h, f).len = f.len
    BY <2>1 DEF Frame
  <2> QED BY <1>3, <2>2 DEF TooLong
<1>5. CASE ~(f.len <= BufLen(h))
  BY <1>1, <1>3, <1>5 DEF TooLong, BufLen, SidecarHdr
<1> QED BY <1>3, <1>4, <1>5

\* If the pipeline does not panic a handler is killed by a frame it receives
\* or by a packet it dispatches, and by nothing else.
LEMMA WaysToDie ==
  ASSUME TypeOK, NoPanics, ~poisoned, NEW h \in Handlers, HandlerStep(h),
         pc[h] # "dead", pc'[h] = "dead"
  PROVE  RecvPanics(h) \/ DispatchPanics(h)
<1> USE DEF TypeOK, DPTypeOK
<1>1. ~Recv(h) /\ ~AcquireLock(h)
  BY DEF Recv, AcquireLock
<1>2. ~LockIsPoisoned(h)
  BY DEF LockIsPoisoned, LockPanics
<1>3. ~Process(h)
  BY DEF Process, Continue
<1>4. ~ProcessPanics(h)
  BY DEF ProcessPanics, NoPanics
<1>5. ~SendPacket(h) /\ ~LosePacket(h)
  BY DEF SendPacket, LosePacket, Sent, Continue
<1> QED BY <1>1, <1>2, <1>3, <1>4, <1>5 DEF HandlerStep

\* A step of one handler leaves the others alone, and a dead one takes none.
LEMMA OthersStay ==
  ASSUME TypeOK, NEW h \in Handlers, HandlerStep(h), NEW g \in Handlers, g # h
  PROVE  pc'[g] = pc[g] /\ pkt'[g] = pkt[g] /\ outq'[g] = outq[g]
<1> USE DEF TypeOK, DPTypeOK
<1>1. CASE Recv(h) \/ RecvPanics(h) \/ AcquireLock(h) \/ LockIsPoisoned(h)
  BY <1>1 DEF Recv, RecvPanics, AcquireLock, LockIsPoisoned
<1>2. CASE Process(h) \/ ProcessPanics(h)
  BY <1>2 DEF Process, ProcessPanics
<1>3. CASE SendPacket(h) \/ LosePacket(h) \/ DispatchPanics(h)
  BY <1>3 DEF SendPacket, LosePacket, DispatchPanics, Sent
<1> QED BY <1>1, <1>2, <1>3 DEF HandlerStep

LEMMA TheDeadRest ==
  ASSUME NEW h \in Handlers, HandlerStep(h)
  PROVE  pc[h] # "dead"
BY DEF HandlerStep, Recv, RecvPanics, AcquireLock, LockIsPoisoned, Process,
       ProcessPanics, SendPacket, LosePacket, DispatchPanics

\* No step of a handler lets it, or another, die of anything else.
LEMMA StepOwnDeaths ==
  ASSUME TypeOK, NoPanics, ~poisoned, OwnDeaths, NEW h \in Handlers, HandlerStep(h)
  PROVE  OwnDeaths'
<1> USE DEF TypeOK, DPTypeOK
<1> SUFFICES ASSUME NEW g \in Handlers, pc'[g] = "dead"
             PROVE  \/ g[1] = "ingress" /\ outq'[g] # <<>> /\ TooShort(Head(outq'[g]))
                    \/ g[1] = "egress"  /\ TooLong(g, pkt'[g])
  BY DEF OwnDeaths
<1>1. CASE g # h
  BY <1>1, OthersStay DEF OwnDeaths
<1>2. CASE g = h /\ RecvPanics(h)
  <2>1. Head(rx[h]) \in Frame
    BY <1>2 DEF RecvPanics
  <2>2. TooLong(h, Received(h, Head(rx[h])))
    BY <1>2, <2>1, LongFramesPanic DEF RecvPanics
  <2> QED BY <1>2, <2>2 DEF RecvPanics
<1>3. CASE g = h /\ DispatchPanics(h)
  <2>1. Head(outq[h]) \in Packet /\ outq[h] # <<>>
    BY <1>3 DEF DispatchPanics
  <2>2. h[1] = "ingress" /\ TooShort(Head(outq[h]))
    BY <1>3, <2>1, ShortHeadersPanic DEF DispatchPanics
  <2> QED BY <1>3, <2>1, <2>2 DEF DispatchPanics
<1> QED BY <1>1, <1>2, <1>3, WaysToDie, TheDeadRest

(***************************************************************************)
(* With a pipeline that does not panic, a packet handler dies only of what *)
(* it was given itself, on any number of ports, of any MTUs, for any       *)
(* frames and verdicts, and whatever the clients do.                       *)
(***************************************************************************)
THEOREM HandlersOutliveOthers == Spec => []EachDiesOfItsOwn
<1> DEFINE J == NoPanics => OwnDeaths
<1>1. Init => J
  BY DEF Init, DPInit, OwnDeaths
<1>2. TypeOK /\ OnlyThePipelinePoisons /\ J /\ [Next]_vars => J'
  <2> SUFFICES ASSUME TypeOK, OnlyThePipelinePoisons, NoPanics, OwnDeaths, [Next]_vars
               PROVE  OwnDeaths'
    BY DEF NoPanics
  <2>1. ~poisoned
    BY DEF NoPanics, OnlyThePipelinePoisons
  <2>2. ASSUME NEW h \in Handlers, Handle(h)
        PROVE  OwnDeaths'
    BY <2>1, <2>2, StepOwnDeaths DEF Handle
  <2>3. ASSUME UNCHANGED <<pc, pkt, outq>>
        PROVE  OwnDeaths'
    BY <2>3 DEF OwnDeaths, TooShort, TooLong
  <2> QED
    BY <2>2, <2>3 DEF Next, Traffic, Arrive, Client, Manage, vars, dpVars
<1>3. J => EachDiesOfItsOwn
  BY DEF NoPanics, OwnDeaths, EachDiesOfItsOwn
<1> HIDE DEF J
<1> QED BY <1>1, <1>2, <1>3, TypeCorrect, FaultsDoNotPoison, PTL DEF Spec

\* The frames that wait are of the lengths that arrive.
FramesAreOfTheLengths ==
  \A h \in Handlers : \A i \in 1..Len(rx[h]) : rx[h][i].len \in FrameLens

\* Nothing a handler does adds to them.
LEMMA LengthsStay ==
  ASSUME TypeOK, FramesAreOfTheLengths, NEW h \in Handlers, HandlerStep(h)
  PROVE  FramesAreOfTheLengths'
<1> USE DEF TypeOK, DPTypeOK
<1>1. CASE Recv(h) \/ RecvPanics(h)
  <2>1. rx[h] # <<>> /\ rx' = [rx EXCEPT ![h] = Tail(@)]
    BY <1>1 DEF Recv, RecvPanics
  <2>2. \A i \in 1..Len(Tail(rx[h])) : Tail(rx[h])[i].len \in FrameLens
    BY <2>1 DEF FramesAreOfTheLengths
  <2> QED BY <2>1, <2>2 DEF FramesAreOfTheLengths
<1>2. CASE ~(Recv(h) \/ RecvPanics(h))
  <2>1. rx' = rx
    BY <1>2 DEF HandlerStep, AcquireLock, LockIsPoisoned, Process, ProcessPanics,
                SendPacket, LosePacket, DispatchPanics
  <2> QED BY <2>1 DEF FramesAreOfTheLengths
<1> QED BY <1>1, <1>2

(***************************************************************************)
(* Where every frame the links deliver leaves the sidecar header its room  *)
(* (SidecarHdr - L2_HEADROOM = 4 bytes below the MTU of the port, counting *)
(* the Ethernet header), no frame of the host is lost to a panic of its    *)
(* handler: the condition HostFramesGetIn lacks, and all it lacks.         *)
(***************************************************************************)
THEOREM ShortFramesGetIn ==
  ASSUME NoPanics,
         \A n \in FrameLens, p \in Ports : n + SidecarHdr <= Mtu[p] + L2_HEADROOM
  PROVE  Spec => []HostFramesGetIn
<1> DEFINE J == /\ FramesAreOfTheLengths
                /\ \A h \in Handlers : h[1] = "egress" => pc[h] # "dead"
<1>1. Init => J
  BY DEF Init, DPInit, FramesAreOfTheLengths
<1>2. TypeOK /\ OnlyThePipelinePoisons /\ J /\ [Next]_vars => J'
  <2> SUFFICES ASSUME TypeOK, OnlyThePipelinePoisons, J, [Next]_vars
               PROVE  J'
    OBVIOUS
  <2> USE DEF TypeOK, DPTypeOK
  <2>1. ASSUME NEW h \in Handlers, NEW n \in FrameLens, Arrive(h, n)
        PROVE  J'
    <3>1. FramesAreOfTheLengths'
      BY <2>1 DEF Arrive, FramesAreOfTheLengths
    <3> QED BY <2>1, <3>1 DEF Arrive
  <2>2. ASSUME NEW h \in Handlers, HandlerStep(h)
        PROVE  J'
    <3>1. ~poisoned
      BY DEF NoPanics, OnlyThePipelinePoisons
    <3>2. ~(h[1] = "egress" /\ RecvPanics(h))
      <4> SUFFICES ASSUME RecvPanics(h) PROVE FALSE
        OBVIOUS
      <4>1. /\ Head(rx[h]) \in Frame
            /\ Head(rx[h]).len \in FrameLens
            /\ h[2] \in Ports
        BY DEF RecvPanics, FramesAreOfTheLengths, Handlers
      <4>2. Head(rx[h]).len \in Nat /\ Mtu[h[2]] \in Nat
        BY <4>1, DataPlaneAssumption DEF Frame
      <4> QED
        BY <4>1, <4>2, LongFramesPanic DEF RecvPanics, TooLong, SidecarHdr, L2_HEADROOM
    <3>3. ~(h[1] = "egress" /\ DispatchPanics(h))
      BY ShortHeadersPanic DEF DispatchPanics
    <3>4. ASSUME NEW g \in Handlers, g[1] = "egress"
          PROVE  pc'[g] # "dead"
      BY <2>2, <3>1, <3>2, <3>3, <3>4, WaysToDie, OthersStay, TheDeadRest
    <3> QED BY <2>2, <3>4, LengthsStay
  <2>3. ASSUME UNCHANGED dpVars
        PROVE  J'
    BY <2>3 DEF dpVars, FramesAreOfTheLengths
  <2> QED BY <2>1, <2>2, <2>3 DEF Next, Traffic, Handle, Client, Manage, vars
<1>3. J => HostFramesGetIn
  BY DEF HostFramesGetIn
<1> HIDE DEF J
<1> QED BY <1>1, <1>2, <1>3, TypeCorrect, FaultsDoNotPoison, PTL DEF Spec

-----------------------------------------------------------------------------
(* Order: packets are not reordered or duplicated, for any output of the   *)
(* P4 program.  Every frame has a number, and a handler has them behind    *)
(* it, in hand and before it in the order of their numbers.                *)

\* h has a frame in its hand.
InHandOf(h) == pc[h] \in {"lock", "call"}

\* The frames that wait for h are in order, after the one in its hand.
FramesInOrder(h) ==
  /\ \A k \in 1..Len(rx[h]) : rx[h][k].id <= arrived
  /\ \A k \in 1..Len(rx[h]) : \A j \in 1..(k - 1) : rx[h][j].id < rx[h][k].id
  /\ InHandOf(h) => /\ pkt[h].id <= arrived
                    /\ \A k \in 1..Len(rx[h]) : pkt[h].id < rx[h][k].id

\* Number n is behind h: of none of the frames h has yet to get through.
Behind(h, n) ==
  /\ n <= arrived
  /\ \A k \in 1..Len(rx[h]) : n < rx[h][k].id
  /\ InHandOf(h) => n < pkt[h].id

\* h's output is in order, of a frame that is behind it, and sent before the
\* next frame is taken up.
OutputInOrder(h) ==
  /\ pc[h] \notin {"send", "dead"} => outq[h] = <<>>
  /\ \A k \in 1..Len(outq[h]) : Behind(h, outq[h][k].id)
  /\ \A k \in 1..Len(outq[h]) : \A j \in 1..(k - 1) : Before(outq[h][j], outq[h][k])

\* So is what h has sent, and before its output.
SentInOrder(h) ==
  \A l \in Links : \A j \in 1..Len(tx[l]) : tx[l][j].src = h =>
    /\ Behind(h, tx[l][j].id)
    /\ \A k \in 1..Len(outq[h]) : Before(tx[l][j], outq[h][k])

Ordered(h) == FramesInOrder(h) /\ OutputInOrder(h) /\ SentInOrder(h)

OrderInv ==
  /\ PerPortOrder
  /\ \A h \in Handlers : Ordered(h)

-----------------------------------------------------------------------------
(* Steps that leave a handler where it is.                                 *)

\* What is numbered has a number.
LEMMA Numbers ==
  ASSUME TypeOK
  PROVE  /\ arrived \in Nat
         /\ \A h \in Handlers : pkt[h].id \in Nat
         /\ \A h \in Handlers : \A k \in 1..Len(rx[h]) : rx[h][k].id \in Nat
         /\ \A h \in Handlers : \A k \in 1..Len(outq[h]) : outq[h][k] \in Packet
         /\ \A l \in Links : \A j \in 1..Len(tx[l]) : tx[l][j] \in Packet
<1>1. arrived \in Nat /\ \A h \in Handlers : pkt[h].id \in Nat
  BY DataPlaneAssumption DEF TypeOK, DPTypeOK, Frame
<1>2. ASSUME NEW h \in Handlers, NEW k \in 1..Len(rx[h])
      PROVE  rx[h][k].id \in Nat
  <2>1. rx[h] \in Seq(Frame)
    BY DEF TypeOK, DPTypeOK
  <2>2. rx[h][k] \in Frame
    BY <2>1
  <2> QED BY <2>2 DEF Frame
<1>3. ASSUME NEW h \in Handlers, NEW k \in 1..Len(outq[h])
      PROVE  outq[h][k] \in Packet
  <2>1. outq[h] \in Seq(Packet)
    BY DEF TypeOK, DPTypeOK
  <2> QED BY <2>1
<1>4. ASSUME NEW l \in Links, NEW j \in 1..Len(tx[l])
      PROVE  tx[l][j] \in Packet
  <2>1. tx[l] \in Seq(Packet)
    BY DEF TypeOK, DPTypeOK
  <2> QED BY <2>1
<1> QED BY <1>1, <1>2, <1>3, <1>4

\* A handler's order depends on its own state, and on the numbers of frames
\* and packets that are there.
LEMMA SameOrder ==
  ASSUME TypeOK, NEW h \in Handlers, Ordered(h),
         pc'[h] = pc[h], pkt'[h] = pkt[h], rx'[h] = rx[h], outq'[h] = outq[h],
         arrived' \in Nat, arrived <= arrived',
         \A l \in Links : \A j \in 1..Len(tx'[l]) :
           tx'[l][j].src = h => \E i \in 1..Len(tx[l]) : tx[l][i] = tx'[l][j]
  PROVE  Ordered(h)'
<1>1. /\ arrived \in Nat
      /\ \A k \in 1..Len(rx[h]) : rx[h][k].id \in Nat
      /\ pkt[h].id \in Nat
      /\ \A k \in 1..Len(outq[h]) : outq[h][k].id \in Nat
      /\ \A l \in Links : \A j \in 1..Len(tx[l]) : tx[l][j].id \in Nat
  BY Numbers DEF Packet
<1>2. FramesInOrder(h)'
  BY <1>1 DEF Ordered, FramesInOrder, InHandOf
<1>3. ASSUME NEW n \in Nat, Behind(h, n)
      PROVE  Behind(h, n)'
  BY <1>1, <1>3 DEF Behind, InHandOf
<1>4. OutputInOrder(h)'
  BY <1>1, <1>3 DEF Ordered, OutputInOrder
<1>5. SentInOrder(h)'
  <2> SUFFICES ASSUME NEW l \in Links, NEW j \in 1..Len(tx'[l]), tx'[l][j].src = h
               PROVE  /\ Behind(h, tx[l][j].id)'
                      /\ \A k \in 1..Len(outq'[h]) : Before(tx'[l][j], outq'[h][k])
    BY DEF SentInOrder, Before
  <2>1. PICK i \in 1..Len(tx[l]) : tx[l][i] = tx'[l][j]
    OBVIOUS
  <2>2. Behind(h, tx[l][i].id) /\ \A k \in 1..Len(outq[h]) : Before(tx[l][i], outq[h][k])
    BY <2>1 DEF Ordered, SentInOrder
  <2> QED BY <1>1, <1>3, <2>1, <2>2 DEF Behind
<1> QED BY <1>2, <1>4, <1>5 DEF Ordered

\* Nor is the order on the links disturbed by a step that sends nothing.
LEMMA NothingSent ==
  ASSUME PerPortOrder, UNCHANGED tx
  PROVE  PerPortOrder'
BY DEF PerPortOrder, Before

-----------------------------------------------------------------------------
(* Steps of the handler itself.                                            *)

\* A frame that arrives has the greatest number so far.
LEMMA ArriveOrder ==
  ASSUME TypeOK, NEW h \in Handlers, Ordered(h), NEW n \in FrameLens, Arrive(h, n)
  PROVE  Ordered(h)'
<1> DEFINE f == [id |-> arrived + 1, len |-> n]
<1>1. /\ arrived' = arrived + 1
      /\ rx'[h] = Append(rx[h], f)
      /\ UNCHANGED <<pc, pkt, outq, tx>>
  BY DEF Arrive, TypeOK, DPTypeOK
<1>2. /\ arrived \in Nat /\ pkt[h].id \in Nat /\ rx[h] \in Seq(Frame)
      /\ \A k \in 1..Len(rx[h]) : rx[h][k].id \in Nat
      /\ \A k \in 1..Len(outq[h]) : outq[h][k].id \in Nat
      /\ \A l \in Links : \A j \in 1..Len(tx[l]) : tx[l][j].id \in Nat
  BY Numbers DEF Packet, TypeOK, DPTypeOK
<1>3. /\ Len(rx'[h]) = Len(rx[h]) + 1
      /\ \A k \in 1..Len(rx[h]) : rx'[h][k] = rx[h][k]
      /\ rx'[h][Len(rx[h]) + 1] = f
      /\ f.id = arrived + 1
  BY <1>1, <1>2
<1> HIDE DEF f
<1>4. FramesInOrder(h)'
  <2>1. \A k \in 1..Len(rx'[h]) : rx'[h][k].id <= arrived'
    BY <1>1, <1>2, <1>3 DEF Ordered, FramesInOrder
  <2>2. \A k \in 1..Len(rx'[h]) : \A j \in 1..(k - 1) : rx'[h][j].id < rx'[h][k].id
    BY <1>1, <1>2, <1>3 DEF Ordered, FramesInOrder
  <2>3. InHandOf(h)' => /\ pkt'[h].id <= arrived'
                        /\ \A k \in 1..Len(rx'[h]) : pkt'[h].id < rx'[h][k].id
    BY <1>1, <1>2, <1>3 DEF Ordered, FramesInOrder, InHandOf
  <2> QED BY <2>1, <2>2, <2>3 DEF FramesInOrder
<1>5. ASSUME NEW m \in Nat, Behind(h, m)
      PROVE  Behind(h, m)'
  BY <1>1, <1>2, <1>3, <1>5 DEF Behind, InHandOf
<1>6. OutputInOrder(h)'
  BY <1>1, <1>2, <1>5 DEF Ordered, OutputInOrder, Before
<1>7. SentInOrder(h)'
  BY <1>1, <1>2, <1>5 DEF Ordered, SentInOrder, Before
<1> QED BY <1>4, <1>6, <1>7 DEF Ordered

\* A handler that takes up a frame has sent all of the frames before it.
LEMMA RecvOrder ==
  ASSUME TypeOK, NEW h \in Handlers, Ordered(h), Recv(h) \/ RecvPanics(h)
  PROVE  Ordered(h)'
<1>1. /\ pc[h] = "recv" /\ outq[h] = <<>>
      /\ rx[h] # <<>> /\ rx'[h] = Tail(rx[h])
      /\ UNCHANGED <<outq, tx, arrived>>
      /\ pc'[h] \in {"lock", "dead"}
      /\ pc'[h] = "lock" => pkt'[h].id = rx[h][1].id
  <2>1. rx[h] # <<>> => Head(rx[h]) \in Frame /\ Head(rx[h]) = rx[h][1]
    BY DEF TypeOK, DPTypeOK
  <2>2. CASE Recv(h)
    BY <2>1, <2>2, ReceivedFits DEF Recv, Ordered, OutputInOrder, TypeOK, DPTypeOK
  <2>3. CASE RecvPanics(h)
    BY <2>3 DEF RecvPanics, Ordered, OutputInOrder, TypeOK, DPTypeOK
  <2> QED BY <2>2, <2>3
<1>2. /\ arrived \in Nat /\ rx[h] \in Seq(Frame)
      /\ \A k \in 1..Len(rx[h]) : rx[h][k].id \in Nat
      /\ \A l \in Links : \A j \in 1..Len(tx[l]) : tx[l][j].id \in Nat
  BY Numbers DEF Packet, TypeOK, DPTypeOK
<1>3. /\ Len(rx[h]) \in Nat /\ Len(rx[h]) > 0
      /\ Len(rx'[h]) = Len(rx[h]) - 1
      /\ \A k \in 1..Len(rx'[h]) : rx'[h][k] = rx[h][k + 1]
  BY <1>1, <1>2
<1>4. FramesInOrder(h)'
  <2>1. \A k \in 1..Len(rx'[h]) : rx'[h][k].id <= arrived'
    BY <1>1, <1>2, <1>3 DEF Ordered, FramesInOrder
  <2>2. \A k \in 1..Len(rx'[h]) : \A j \in 1..(k - 1) : rx'[h][j].id < rx'[h][k].id
    BY <1>1, <1>2, <1>3 DEF Ordered, FramesInOrder
  <2>3. InHandOf(h)' => /\ pkt'[h].id <= arrived'
                        /\ \A k \in 1..Len(rx'[h]) : pkt'[h].id < rx'[h][k].id
    <3>1. rx[h][1].id <= arrived
      BY <1>3 DEF Ordered, FramesInOrder
    <3>2. ASSUME NEW k \in 1..Len(rx'[h])
          PROVE  rx[h][1].id < rx'[h][k].id
      <4>1. k + 1 \in 1..Len(rx[h]) /\ 1 \in 1..((k + 1) - 1)
        BY <1>3
      <4>2. rx[h][1].id < rx[h][k + 1].id
        BY <4>1 DEF Ordered, FramesInOrder
      <4> QED BY <1>3, <4>2
    <3> QED BY <1>1, <3>1, <3>2 DEF InHandOf
  <2> QED BY <2>1, <2>2, <2>3 DEF FramesInOrder
<1>5. ASSUME NEW m \in Nat, Behind(h, m)
      PROVE  Behind(h, m)'
  BY <1>1, <1>2, <1>3, <1>5 DEF Behind, InHandOf
<1>6. OutputInOrder(h)'
  BY <1>1 DEF OutputInOrder
<1>7. SentInOrder(h)'
  BY <1>1, <1>2, <1>5 DEF Ordered, SentInOrder
<1> QED BY <1>4, <1>6, <1>7 DEF Ordered

\* Neither the mutex nor a death brings anything out of order.
LEMMA LockOrder ==
  ASSUME TypeOK, NEW h \in Handlers, Ordered(h),
         AcquireLock(h) \/ LockIsPoisoned(h) \/ ProcessPanics(h) \/ DispatchPanics(h)
  PROVE  Ordered(h)'
<1>1. /\ UNCHANGED <<pkt, outq, rx, tx, arrived>>
      /\ InHandOf(h)' => InHandOf(h)
      /\ pc'[h] \notin {"send", "dead"} => pc[h] \notin {"send", "dead"}
  BY DEF AcquireLock, LockIsPoisoned, ProcessPanics, DispatchPanics, InHandOf,
         TypeOK, DPTypeOK
<1>2. ASSUME NEW m, Behind(h, m)
      PROVE  Behind(h, m)'
  BY <1>1, <1>2 DEF Behind
<1>3. FramesInOrder(h)'
  BY <1>1 DEF Ordered, FramesInOrder
<1>4. OutputInOrder(h)'
  BY <1>1, <1>2 DEF Ordered, OutputInOrder, Before
<1>5. SentInOrder(h)'
  BY <1>1, <1>2 DEF Ordered, SentInOrder, Before
<1> QED BY <1>3, <1>4, <1>5 DEF Ordered

\* The output is of the frame that was in hand, in its order.
LEMMA ProcessOrder ==
  ASSUME TypeOK, NEW h \in Handlers, Ordered(h), Process(h)
  PROVE  Ordered(h)'
<1>1. PICK vs \in VerdictSeqs : /\ outq' = [outq EXCEPT ![h] = Emitted(h, vs)]
                                /\ pc' = [pc EXCEPT ![h] = Continue(vs)]
  BY DEF Process
<1>2. /\ pc[h] = "call" /\ UNCHANGED <<rx, tx, arrived>>
      /\ outq'[h] = Emitted(h, vs) /\ pc'[h] = Continue(vs)
  BY <1>1 DEF Process, TypeOK, DPTypeOK
<1>3. /\ Len(vs) \in Nat
      /\ Len(Emitted(h, vs)) = Len(vs)
      /\ \A k \in 1..Len(vs) : Emitted(h, vs)[k].id = pkt[h].id /\ Emitted(h, vs)[k].k = k
      /\ Emitted(h, vs) \in Seq(Packet)
  <2>1. /\ vs \in Seq(Verdicts)
        /\ Len(Emitted(h, vs)) = Len(vs)
        /\ Emitted(h, vs) \in Seq(Packet)
        /\ \A k \in 1..Len(vs) :
             Emitted(h, vs)[k] = [src |-> h, id |-> pkt[h].id, k |-> k,
               port |-> vs[k].port, hlen |-> vs[k].hlen, sc |-> vs[k].sc]
    BY EmittedType DEF TypeOK, DPTypeOK
  <2>2. ASSUME NEW k \in 1..Len(vs)
        PROVE  Emitted(h, vs)[k].id = pkt[h].id /\ Emitted(h, vs)[k].k = k
    <3>1. Emitted(h, vs)[k] = [src |-> h, id |-> pkt[h].id, k |-> k,
            port |-> vs[k].port, hlen |-> vs[k].hlen, sc |-> vs[k].sc]
      BY <2>1
    <3> QED BY <3>1
  <2> QED BY <2>1, <2>2
<1>4. ~InHandOf(h)' /\ (pc'[h] # "send" => outq'[h] = <<>>)
  <2>1. vs = <<>> => Emitted(h, vs) = <<>>
    BY <1>3
  <2> QED BY <1>2, <2>1 DEF Continue, InHandOf
<1>5. /\ arrived \in Nat /\ pkt[h].id \in Nat
      /\ \A k \in 1..Len(rx[h]) : rx[h][k].id \in Nat
      /\ \A l \in Links : \A j \in 1..Len(tx[l]) : tx[l][j].id \in Nat
  BY Numbers DEF Packet
<1>6. FramesInOrder(h)'
  BY <1>2, <1>4 DEF Ordered, FramesInOrder
<1>7. ASSUME NEW m, Behind(h, m)
      PROVE  Behind(h, m)' /\ m < pkt[h].id
  BY <1>2, <1>4, <1>7 DEF Behind, InHandOf
<1>9. ASSUME NEW k \in 1..Len(outq'[h])
      PROVE  /\ outq'[h][k].id = pkt[h].id /\ outq'[h][k].k = k
             /\ Behind(h, outq[h][k].id)'
  <2>1. outq'[h][k].id = pkt[h].id /\ outq'[h][k].k = k
    BY <1>2, <1>3
  <2>2. pkt[h].id <= arrived /\ \A j \in 1..Len(rx[h]) : pkt[h].id < rx[h][j].id
    BY <1>2 DEF Ordered, FramesInOrder, InHandOf
  <2> QED BY <1>2, <1>4, <2>1, <2>2 DEF Behind
<1>10. OutputInOrder(h)'
  <2>1. ASSUME NEW k \in 1..Len(outq'[h]), NEW j \in 1..(k - 1)
        PROVE  Before(outq'[h][j], outq'[h][k])
    <3>1. k \in Nat /\ j \in 1..Len(outq'[h]) /\ j < k
      BY <1>2, <1>3
    <3> QED BY <1>5, <1>9, <3>1 DEF Before
  <2> QED BY <1>4, <1>9, <2>1 DEF OutputInOrder, Before
<1>11. SentInOrder(h)'
  <2> SUFFICES ASSUME NEW l \in Links, NEW j \in 1..Len(tx[l]), tx[l][j].src = h
               PROVE  /\ Behind(h, tx[l][j].id)'
                      /\ \A k \in 1..Len(outq'[h]) : Before(tx[l][j], outq'[h][k])
    BY <1>2 DEF SentInOrder, Before
  <2>1. Behind(h, tx[l][j].id)
    BY DEF Ordered, SentInOrder
  <2>2. tx'[l][j] = tx[l][j]
    BY <1>2
  <2> QED BY <1>7, <1>9, <2>1, <2>2 DEF Before
<1> QED BY <1>6, <1>10, <1>11 DEF Ordered

\* The rest of the output stays in order, and what is sent comes before it.
LEMMA RestOrder ==
  ASSUME TypeOK, NEW h \in Handlers, Ordered(h), pc[h] = "send", Sent(h),
         UNCHANGED <<pkt, rx, arrived>>
  PROVE  /\ FramesInOrder(h)'
         /\ OutputInOrder(h)'
         /\ outq[h] # <<>> /\ outq[h][1] = Head(outq[h])
         /\ Len(outq'[h]) = Len(outq[h]) - 1
         /\ \A k \in 1..Len(outq'[h]) : outq'[h][k] = outq[h][k + 1]
         /\ \A m \in Nat : Behind(h, m) => Behind(h, m)'
<1>1. /\ outq[h] \in Seq(Packet) /\ outq[h] # <<>>
      /\ outq'[h] = Tail(outq[h])
      /\ pc'[h] \in {"recv", "send"} /\ (pc'[h] # "send" => outq'[h] = <<>>)
  BY DEF TypeOK, DPTypeOK, Sent, Continue
<1>2. /\ Len(outq[h]) \in Nat /\ outq[h][1] = Head(outq[h])
      /\ Len(outq'[h]) = Len(outq[h]) - 1
      /\ \A k \in 1..Len(outq'[h]) : outq'[h][k] = outq[h][k + 1]
  BY <1>1
<1>3. FramesInOrder(h)'
  BY <1>1 DEF Ordered, FramesInOrder, InHandOf
<1>4. ASSUME NEW m \in Nat, Behind(h, m)
      PROVE  Behind(h, m)'
  BY <1>1, <1>4 DEF Behind, InHandOf
<1>5. OutputInOrder(h)'
  <2>1. ASSUME NEW k \in 1..Len(outq'[h])
        PROVE  Behind(h, outq[h][k].id)'
    <3>1. k + 1 \in 1..Len(outq[h])
      BY <1>2
    <3>2. Behind(h, outq[h][k + 1].id) /\ outq[h][k + 1].id \in Nat
      BY <3>1, Numbers DEF Ordered, OutputInOrder, Packet
    <3>3. Behind(h, outq[h][k + 1].id) => UNCHANGED arrived /\ Behind(h, outq[h][k].id)'
      BY <1>1, <1>2 DEF Behind, InHandOf
    <3> QED BY <3>2, <3>3
  <2>2. ASSUME NEW k \in 1..Len(outq'[h]), NEW j \in 1..(k - 1)
        PROVE  Before(outq'[h][j], outq'[h][k])
    <3>1. /\ k + 1 \in 1..Len(outq[h]) /\ j + 1 \in 1..((k + 1) - 1)
          /\ j \in 1..Len(outq'[h])
      BY <1>2
    <3>2. Before(outq[h][j + 1], outq[h][k + 1])
      BY <3>1 DEF Ordered, OutputInOrder
    <3> QED BY <1>2, <3>1, <3>2
  <2> QED BY <1>1, <2>1, <2>2 DEF OutputInOrder, Before
<1> QED BY <1>1, <1>2, <1>3, <1>4, <1>5

\* A packet is sent behind what h has sent before.
LEMMA SendOrder ==
  ASSUME TypeOK, OutputIsItsOwn, OrderInv, NEW h \in Handlers, SendPacket(h)
  PROVE  /\ Ordered(h)'
         /\ PerPortOrder'
         /\ \A l \in Links : \A j \in 1..Len(tx'[l]) :
              tx'[l][j].src # h => \E i \in 1..Len(tx[l]) : tx[l][i] = tx'[l][j]
<1> DEFINE o == Head(outq[h])
           l == Dest(h, o)
<1>1. /\ Ordered(h) /\ pc[h] = "send" /\ Sent(h) /\ UNCHANGED <<pkt, rx, arrived>>
      /\ l \in Links /\ tx' = [tx EXCEPT ![l] = Append(@, o)]
  BY DEF SendPacket, OrderInv
<1>2. /\ FramesInOrder(h)'
      /\ OutputInOrder(h)'
      /\ outq[h] # <<>> /\ outq[h][1] = o
      /\ Len(outq'[h]) = Len(outq[h]) - 1
      /\ \A k \in 1..Len(outq'[h]) : outq'[h][k] = outq[h][k + 1]
      /\ \A m \in Nat : Behind(h, m) => Behind(h, m)'
  BY <1>1, RestOrder
<1>3. /\ outq[h] \in Seq(Packet) /\ Len(outq[h]) \in Nat /\ 1 \in 1..Len(outq[h])
      /\ o \in Packet /\ o.src = h /\ o.id \in Nat
  <2>1. outq[h] \in Seq(Packet)
    BY DEF TypeOK, DPTypeOK
  <2>2. Len(outq[h]) \in Nat /\ 1 \in 1..Len(outq[h])
    BY <1>2, <2>1
  <2>3. outq[h][1] \in Packet /\ outq[h][1].src = h
    BY <2>1, <2>2 DEF OutputIsItsOwn
  <2> QED BY <1>2, <2>1, <2>2, <2>3 DEF Packet
<1> HIDE DEF l, o
<1>4. ASSUME NEW m \in Links
      PROVE  /\ tx[m] \in Seq(Packet) /\ Len(tx[m]) \in Nat
             /\ \A j \in 1..Len(tx[m]) : tx'[m][j] = tx[m][j]
             /\ m # l => tx'[m] = tx[m]
             /\ m = l => Len(tx'[m]) = Len(tx[m]) + 1 /\ tx'[m][Len(tx[m]) + 1] = o
  <2>1. tx[m] \in Seq(Packet) /\ tx \in [Links -> Seq(Packet)]
    BY DEF TypeOK, DPTypeOK
  <2> QED BY <1>1, <1>3, <2>1
<1>5. ASSUME NEW m \in Links, NEW j \in 1..Len(tx'[m])
      PROVE  \/ j \in 1..Len(tx[m]) /\ tx'[m][j] = tx[m][j]
             \/ m = l /\ j = Len(tx[m]) + 1 /\ tx'[m][j] = o
  BY <1>4
<1>6. SentInOrder(h)'
  <2> SUFFICES ASSUME NEW m \in Links, NEW j \in 1..Len(tx'[m]), tx'[m][j].src = h
               PROVE  /\ Behind(h, tx[m][j].id)'
                      /\ \A k \in 1..Len(outq'[h]) : Before(tx'[m][j], outq'[h][k])
    BY DEF SentInOrder, Before
  <2>1. \A k \in 1..Len(outq'[h]) : k + 1 \in 1..Len(outq[h]) /\ 1 \in 1..((k + 1) - 1)
    BY <1>2, <1>3
  <2>2. CASE j \in 1..Len(tx[m]) /\ tx'[m][j] = tx[m][j]
    <3>1. /\ Behind(h, tx[m][j].id)
          /\ \A k \in 1..Len(outq[h]) : Before(tx[m][j], outq[h][k])
      BY <1>1, <2>2 DEF Ordered, SentInOrder
    <3>2. tx[m][j].id \in Nat
      BY <2>2, Numbers DEF Packet
    <3>3. Behind(h, tx[m][j].id) => UNCHANGED arrived /\ Behind(h, tx[m][j].id)'
      BY <1>1, <1>2, <2>2, <3>1, <3>2 DEF Behind, InHandOf
    <3> QED BY <1>2, <2>1, <2>2, <3>1, <3>3
  <2>3. CASE m = l /\ j = Len(tx[m]) + 1 /\ tx'[m][j] = o
    <3>1. /\ Behind(h, o.id)
          /\ \A k \in 1..Len(outq'[h]) : Before(o, outq[h][k + 1])
      BY <1>1, <1>2, <1>3, <2>1 DEF Ordered, OutputInOrder
    <3>2. Behind(h, tx[m][j].id)'
      BY <1>1, <1>2, <1>3, <2>3, <3>1 DEF Behind, InHandOf
    <3>3. ASSUME NEW k \in 1..Len(outq'[h])
          PROVE  Before(tx'[m][j], outq'[h][k])
      <4>1. outq'[h][k] = outq[h][k + 1] /\ tx'[m][j] = o
        BY <1>2, <2>3
      <4> QED BY <3>1, <4>1
    <3> QED BY <3>2, <3>3
  <2> QED BY <1>5, <2>2, <2>3
<1>7. PerPortOrder'
  <2> SUFFICES ASSUME NEW m \in Links, NEW j \in 1..Len(tx'[m]), NEW i \in 1..(j - 1),
                      tx'[m][i].src = tx'[m][j].src
               PROVE  Before(tx'[m][i], tx'[m][j])
    BY DEF PerPortOrder, Before
  <2>1. i \in 1..Len(tx[m]) /\ tx'[m][i] = tx[m][i]
    BY <1>4, <1>5
  <2>2. CASE j \in 1..Len(tx[m]) /\ tx'[m][j] = tx[m][j]
    BY <2>1, <2>2 DEF OrderInv, PerPortOrder
  <2>3. CASE m = l /\ j = Len(tx[m]) + 1 /\ tx'[m][j] = o
    <3>1. Before(tx[m][i], outq[h][1])
      BY <1>1, <1>3, <2>1, <2>3 DEF Ordered, SentInOrder
    <3> QED BY <1>2, <2>1, <2>3, <3>1
  <2> QED BY <1>5, <2>2, <2>3
<1>8. ASSUME NEW m \in Links, NEW j \in 1..Len(tx'[m]), tx'[m][j].src # h
      PROVE  \E i \in 1..Len(tx[m]) : tx[m][i] = tx'[m][j]
  BY <1>3, <1>5, <1>8
<1> QED BY <1>1, <1>2, <1>6, <1>7, <1>8 DEF Ordered

\* A packet that is lost leaves the others in order.
LEMMA LoseOrder ==
  ASSUME TypeOK, NEW h \in Handlers, Ordered(h), LosePacket(h)
  PROVE  Ordered(h)'
<1>1. /\ pc[h] = "send" /\ Sent(h) /\ UNCHANGED <<pkt, rx, arrived, tx>>
  BY DEF LosePacket
<1>2. /\ FramesInOrder(h)'
      /\ OutputInOrder(h)'
      /\ Len(outq'[h]) = Len(outq[h]) - 1
      /\ \A k \in 1..Len(outq'[h]) : outq'[h][k] = outq[h][k + 1]
      /\ \A m \in Nat : Behind(h, m) => Behind(h, m)'
  BY <1>1, RestOrder
<1>3. SentInOrder(h)'
  <2> SUFFICES ASSUME NEW m \in Links, NEW j \in 1..Len(tx[m]), tx[m][j].src = h
               PROVE  /\ Behind(h, tx[m][j].id)'
                      /\ \A k \in 1..Len(outq'[h]) : Before(tx[m][j], outq'[h][k])
    BY <1>1 DEF SentInOrder, Before
  <2>1. /\ Behind(h, tx[m][j].id)
        /\ \A k \in 1..Len(outq[h]) : Before(tx[m][j], outq[h][k])
    BY DEF Ordered, SentInOrder
  <2>2. tx[m][j].id \in Nat
    BY Numbers DEF Packet
  <2>3. \A k \in 1..Len(outq'[h]) : k + 1 \in 1..Len(outq[h])
    <3>1. Len(outq[h]) \in Nat
      BY DEF TypeOK, DPTypeOK
    <3> QED BY <1>2, <3>1
  <2>4. Behind(h, tx[m][j].id)'
    BY <1>1, <1>2, <2>1, <2>2 DEF Behind, InHandOf
  <2> QED BY <1>2, <2>1, <2>3, <2>4
<1> QED BY <1>2, <1>3 DEF Ordered

-----------------------------------------------------------------------------
(* The invariant.                                                          *)

\* Every step of a handler keeps every handler's order.
LEMMA HandlerOrder ==
  ASSUME TypeOK, OutputIsItsOwn, OrderInv, NEW h \in Handlers, HandlerStep(h)
  PROVE  PerPortOrder' /\ \A g \in Handlers : Ordered(g)'
<1>1. Ordered(h)
  BY DEF OrderInv
<1>2. Ordered(h)'
  BY <1>1, RecvOrder, LockOrder, ProcessOrder, SendOrder, LoseOrder DEF HandlerStep
<1>3. /\ UNCHANGED arrived
      /\ \A g \in Handlers : g # h => /\ pc'[g] = pc[g] /\ pkt'[g] = pkt[g]
                                      /\ rx'[g] = rx[g] /\ outq'[g] = outq[g]
  BY DEF HandlerStep, Recv, RecvPanics, AcquireLock, LockIsPoisoned, Process,
         ProcessPanics, SendPacket, LosePacket, DispatchPanics, Sent, TypeOK, DPTypeOK
<1>4. /\ PerPortOrder'
      /\ \A l \in Links : \A j \in 1..Len(tx'[l]) :
           tx'[l][j].src # h => \E i \in 1..Len(tx[l]) : tx[l][i] = tx'[l][j]
  <2>1. CASE SendPacket(h)
    BY <2>1, SendOrder
  <2>2. CASE UNCHANGED tx
    BY <2>2, NothingSent DEF OrderInv
  <2> QED
    BY <2>1, <2>2 DEF HandlerStep, Recv, RecvPanics, AcquireLock, LockIsPoisoned, Process,
       ProcessPanics, LosePacket, DispatchPanics
<1>5. ASSUME NEW g \in Handlers, g # h
      PROVE  Ordered(g)'
  <2>1. Ordered(g)
    BY DEF OrderInv
  <2>2. arrived \in Nat
    BY Numbers
  <2>3. \A l \in Links : \A j \in 1..Len(tx'[l]) :
          tx'[l][j].src = g => \E i \in 1..Len(tx[l]) : tx[l][i] = tx'[l][j]
    BY <1>4, <1>5
  <2>4. arrived' \in Nat /\ arrived <= arrived'
    BY <1>3, <2>2
  <2> QED BY <1>3, <1>5, <2>1, <2>3, <2>4, SameOrder
<1> QED BY <1>2, <1>4, <1>5

\* So does a frame that arrives.
LEMMA TrafficOrder ==
  ASSUME TypeOK, OrderInv, NEW h \in Handlers, NEW n \in FrameLens, Arrive(h, n)
  PROVE  PerPortOrder' /\ \A g \in Handlers : Ordered(g)'
<1>1. UNCHANGED <<pc, pkt, outq, tx>> /\ arrived' = arrived + 1 /\ arrived \in Nat
  BY Numbers DEF Arrive
<1>2. PerPortOrder'
  BY <1>1, NothingSent DEF OrderInv
<1>3. Ordered(h)'
  BY ArriveOrder DEF OrderInv
<1>4. ASSUME NEW g \in Handlers, g # h
      PROVE  Ordered(g)'
  <2>1. Ordered(g) /\ rx'[g] = rx[g]
    BY <1>4 DEF OrderInv, Arrive, TypeOK, DPTypeOK
  <2>2. arrived' \in Nat /\ arrived <= arrived'
    BY <1>1
  <2> QED BY <1>1, <2>1, <2>2, SameOrder
<1> QED BY <1>2, <1>3, <1>4

(***************************************************************************)
(* Whatever frames the handlers of any number of ports take up, in any     *)
(* interleaving, what one of them puts on a link leaves in the order in    *)
(* which it was emitted, and no more than once.                            *)
(***************************************************************************)
THEOREM PacketsStayInOrder == Spec => []PerPortOrder
<1>1. Init => OrderInv
  BY DEF Init, DPInit, OrderInv, PerPortOrder, Ordered, FramesInOrder,
         OutputInOrder, SentInOrder, InHandOf
<1>2. TypeOK /\ OutputIsItsOwn /\ OrderInv /\ [Next]_vars => OrderInv'
  <2> SUFFICES ASSUME TypeOK, OutputIsItsOwn, OrderInv, [Next]_vars PROVE OrderInv'
    OBVIOUS
  <2>1. CASE UNCHANGED dpVars
    <3>1. \A h \in Handlers : Ordered(h)'
      BY <2>1 DEF dpVars, OrderInv, Ordered, FramesInOrder, OutputInOrder, SentInOrder,
                  Behind, InHandOf, Before
    <3> QED BY <2>1, <3>1, NothingSent DEF dpVars, OrderInv
  <2>2. ASSUME NEW h \in Handlers, NEW n \in FrameLens, Arrive(h, n)
        PROVE  OrderInv'
    BY <2>2, TrafficOrder DEF OrderInv
  <2>3. ASSUME NEW h \in Handlers, HandlerStep(h)
        PROVE  OrderInv'
    BY <2>3, HandlerOrder DEF OrderInv
  <2> QED
    BY <2>1, <2>2, <2>3 DEF Next, Traffic, Handle, Client, Manage, vars
<1>3. OrderInv => PerPortOrder
  BY DEF OrderInv
<1> QED BY <1>1, <1>2, <1>3, TypeCorrect, DispatchInvariance, PTL DEF Spec

-----------------------------------------------------------------------------
(* What HandlersReturn and OnlyTheClientHoldsUp need besides fairness: a   *)
(* task that waits for the mutex waits for one that is in a call, and each *)
(* task is a bounded number of its own steps from its receive.             *)

Busy(h) == pc[h] \in {"lock", "call", "send"}

\* The steps of h to its next receive, at most.
LeftOf(p, q) ==
  IF p = "lock" THEN MaxOut + 2
  ELSE IF p = "call" THEN MaxOut + 1
  ELSE IF p = "send" THEN Len(q)
  ELSE 0

HandlerLeft(h) == LeftOf(pc[h], outq[h])

\* Those of the main task.
MainLeft ==
  IF mpc = "lock" THEN 4
  ELSE IF mpc = "call" THEN 3
  ELSE IF mpc = "reply" THEN 2
  ELSE IF mpc = "dead" THEN 1
  ELSE 0

OutputIsBounded == \A h \in Handlers : Len(outq[h]) <= MaxOut

GoesOn(h) ==
  /\ Busy(h) => \/ HandlerLeft(h)' < HandlerLeft(h)
                \/ UNCHANGED <<pc[h], outq[h]>>
  /\ Len(outq'[h]) <= MaxOut

\* A handler that takes a step while it is busy comes closer to its receive.
LEMMA HandlerGoesOn ==
  ASSUME TypeOK, OutputIsBounded, NEW h \in Handlers, HandlerStep(h)
  PROVE  \A g \in Handlers : GoesOn(g)
<1>1. /\ MaxOut \in Nat
      /\ \A g \in Handlers : /\ outq[g] \in Seq(Packet) /\ Len(outq[g]) \in Nat
                            /\ Len(outq[g]) <= MaxOut
      /\ pc[h] = "send" => outq[h] # <<>> /\ Len(outq[h]) > 0
  BY DataPlaneAssumption DEF TypeOK, DPTypeOK, OutputIsBounded
<1>2. ASSUME NEW g \in Handlers, g # h
      PROVE  GoesOn(g)
  <2>1. pc'[g] = pc[g] /\ outq'[g] = outq[g]
    BY <1>2 DEF HandlerStep, Recv, RecvPanics, AcquireLock, LockIsPoisoned, Process,
       ProcessPanics, SendPacket, LosePacket, DispatchPanics, Sent, TypeOK, DPTypeOK
  <2> QED BY <1>1, <2>1 DEF GoesOn
<1>3. CASE Recv(h) \/ RecvPanics(h)
  <2>1. pc[h] = "recv" /\ outq' = outq
    BY <1>3 DEF Recv, RecvPanics
  <2> QED BY <1>1, <1>2, <2>1 DEF GoesOn, Busy
<1>4. CASE AcquireLock(h) \/ LockIsPoisoned(h)
  <2>1. pc[h] = "lock" /\ pc'[h] \in {"call", "dead"} /\ outq' = outq
    BY <1>4 DEF AcquireLock, LockIsPoisoned, TypeOK, DPTypeOK
  <2> QED BY <1>1, <1>2, <2>1 DEF GoesOn, HandlerLeft, LeftOf
<1>5. CASE ProcessPanics(h)
  <2>1. pc[h] = "call" /\ pc'[h] = "dead" /\ outq' = outq
    BY <1>5 DEF ProcessPanics, TypeOK, DPTypeOK
  <2> QED BY <1>1, <1>2, <2>1 DEF GoesOn, HandlerLeft, LeftOf
<1>6. CASE Process(h)
  <2>1. PICK vs \in VerdictSeqs : /\ outq' = [outq EXCEPT ![h] = Emitted(h, vs)]
                                  /\ pc' = [pc EXCEPT ![h] = Continue(vs)]
    BY <1>6 DEF Process
  <2>2. pc[h] = "call" /\ outq'[h] = Emitted(h, vs) /\ pc'[h] \in {"recv", "send"}
    BY <1>6, <2>1 DEF Process, TypeOK, DPTypeOK, Continue
  <2>3. Len(Emitted(h, vs)) \in 0..MaxOut
    <3>1. PICK n \in 0..MaxOut : vs \in [1..n -> Verdicts]
      BY DEF VerdictSeqs
    <3>2. n \in Nat /\ Len(vs) = n
      BY <1>1, <3>1
    <3>3. Len(Emitted(h, vs)) = Len(vs)
      BY EmittedType DEF TypeOK, DPTypeOK
    <3> QED BY <3>2, <3>3
  <2> HIDE DEF Emitted
  <2>4. Len(outq'[h]) \in 0..MaxOut
    BY <2>2, <2>3
  <2> QED BY <1>1, <1>2, <2>2, <2>4 DEF GoesOn, HandlerLeft, LeftOf
<1>7. CASE SendPacket(h) \/ LosePacket(h)
  <2>1. /\ pc[h] = "send" /\ outq'[h] = Tail(outq[h])
        /\ pc'[h] \in {"recv", "send"}
    BY <1>7 DEF SendPacket, LosePacket, Sent, Continue, TypeOK, DPTypeOK
  <2>2. outq[h] \in Seq(Packet) /\ outq[h] # <<>>
    BY <1>1, <2>1
  <2>3. Len(Tail(outq[h])) = Len(outq[h]) - 1
    BY <2>2, HeadTailProperties
  <2>4. Len(outq'[h]) = Len(outq[h]) - 1
    BY <2>1, <2>3
  <2>5. Len(outq'[h]) < Len(outq[h]) /\ 0 < Len(outq[h]) /\ Len(outq'[h]) <= MaxOut
    <3>1. \A m, n, l \in Nat : l = n - 1 /\ n <= m => l < n /\ 0 < n /\ l <= m
      OBVIOUS
    <3>2. Len(outq[h]) \in Nat /\ Len(outq[h]) <= MaxOut /\ MaxOut \in Nat
      BY <1>1
    <3>3. Len(outq'[h]) \in Nat
      <4>1. outq'[h] \in Seq(Packet)
        BY <2>1, <2>2, HeadTailProperties
      <4> QED BY <4>1, LenProperties
    <3> QED BY <2>4, <3>1, <3>2, <3>3, Zenon
  <2>6. /\ HandlerLeft(h) = Len(outq[h])
        /\ HandlerLeft(h)' = Len(outq'[h]) \/ HandlerLeft(h)' = 0
    BY <2>1, Zenon DEF HandlerLeft, LeftOf
  <2>7. GoesOn(h)
    BY <2>5, <2>6, Zenon DEF GoesOn
  <2> QED BY <1>2, <2>7, Zenon
<1>8. CASE DispatchPanics(h)
  <2>1. pc[h] = "send" /\ pc'[h] = "dead" /\ outq' = outq
    BY <1>8 DEF DispatchPanics, TypeOK, DPTypeOK
  <2> QED BY <1>1, <1>2, <2>1 DEF GoesOn, HandlerLeft, LeftOf
<1> QED BY <1>3, <1>4, <1>5, <1>6, <1>7, <1>8 DEF HandlerStep

MainGoesOn == mpc # "recv" => MainLeft' < MainLeft \/ UNCHANGED mpc

LEMMA StepGoesOn ==
  ASSUME TypeOK, OutputIsBounded, [Next]_vars
  PROVE  MainGoesOn /\ \A h \in Handlers : GoesOn(h)
<1>1. ASSUME UNCHANGED <<pc, outq>>
      PROVE  \A h \in Handlers : GoesOn(h)
  BY <1>1 DEF GoesOn, OutputIsBounded
<1>2. CASE Manage
  <2>1. MainGoesOn
    BY <1>2 DEF Manage, MainStep, MgRecv, MgLock, MgLockIsPoisoned, MgUpdate,
       MgCallPanics, MgDump, MgReply, MgReplyPanics, Exit, mgVars, MainGoesOn, MainLeft
  <2> QED BY <1>1, <1>2, <2>1 DEF Manage, dpVars
<1>3. CASE Client
  <2>1. UNCHANGED mpc
    BY <1>3 DEF Client, ClientStep, ClientBind, ClientSend, ClientRead, ClientLeave
  <2> QED BY <1>1, <1>3, <2>1 DEF Client, dpVars, MainGoesOn
<1>4. CASE Traffic
  BY <1>1, <1>4 DEF Traffic, Arrive, mgVars, MainGoesOn
<1>5. ASSUME NEW h \in Handlers, Handle(h)
      PROVE  MainGoesOn /\ \A g \in Handlers : GoesOn(g)
  BY <1>5, HandlerGoesOn DEF Handle, mgVars, MainGoesOn
<1>6. CASE UNCHANGED vars
  BY <1>1, <1>6 DEF vars, dpVars, mgVars, MainGoesOn
<1> QED BY <1>2, <1>3, <1>4, <1>5, <1>6 DEF Next

\* Nobody holds the guard but a task in a call, which needs nothing more.
HolderIsInCall ==
  \/ holder = NoTask
  \/ holder \in Handlers /\ pc[holder] = "call"
  \/ holder = Main /\ mpc = "call"

LEMMA BoundsHold == Spec => []OutputIsBounded
<1>1. Init => OutputIsBounded
  BY DataPlaneAssumption DEF Init, DPInit, OutputIsBounded
<1>2. TypeOK /\ OutputIsBounded /\ [Next]_vars => OutputIsBounded'
  BY StepGoesOn DEF GoesOn, OutputIsBounded
<1> QED BY <1>1, <1>2, TypeCorrect, PTL DEF Spec

(***************************************************************************)
(* No task waits for the mutex but for one that is in a call, so none wait *)
(* for each other; and whatever the others do, a handler that has a frame  *)
(* is a bounded number of its steps from its receive, which no step adds   *)
(* to, and the main task that has a request at most four.                  *)
(***************************************************************************)
THEOREM TasksAreBusyBriefly ==
  Spec => /\ [](up => HolderIsInCall)
          /\ [](\A h \in Handlers : HandlerLeft(h) \in 0..(MaxOut + 2))
          /\ [][MainGoesOn /\ \A h \in Handlers : GoesOn(h)]_vars
<1>1. IInv => (up => HolderIsInCall)
  BY DEF IInv, TypeOK, SharedTypeOK, NoGuardAcrossAwait, HolderIsInCall, Tasks
<1>2. TypeOK /\ OutputIsBounded => \A h \in Handlers : HandlerLeft(h) \in 0..(MaxOut + 2)
  <2> SUFFICES ASSUME TypeOK, OutputIsBounded, NEW h \in Handlers
               PROVE  HandlerLeft(h) \in 0..(MaxOut + 2)
    OBVIOUS
  <2>1. MaxOut \in Nat /\ Len(outq[h]) \in Nat /\ Len(outq[h]) <= MaxOut
    BY DataPlaneAssumption DEF TypeOK, DPTypeOK, OutputIsBounded
  <2> QED BY <2>1 DEF HandlerLeft, LeftOf
<1>3. TypeOK /\ OutputIsBounded /\ [Next]_vars
        => [MainGoesOn /\ \A h \in Handlers : GoesOn(h)]_vars
  BY StepGoesOn
<1> QED BY <1>1, <1>2, <1>3, Invariance, TypeCorrect, BoundsHold, PTL DEF Spec

=============================================================================
