-------------------------- MODULE ControlPlaneProofs --------------------------
(***************************************************************************)
(* What the softnpu process promises its clients.  It implements           *)
(* ControlPlane: every step of any task, of a client or of the network     *)
(* maps, under the substitutions of CP, to a step of the abstract          *)
(* specification or to a stutter.  Its answers match the questions that    *)
(* were asked, and it lives as long as its clients and its pipeline behave.*)
(***************************************************************************)
EXTENDS SoftNpuProofs, FiniteSetTheorems, WellFoundedInduction

-----------------------------------------------------------------------------
(* Sequences.                                                              *)

\* Putting one element in front of a sequence, and taking it off again.
LEMMA HeadInFront ==
  ASSUME NEW S, NEW s \in Seq(S), NEW x \in S
  PROVE  /\ <<x>> \o s \in Seq(S)
         /\ <<x>> \o s # <<>>
         /\ Head(<<x>> \o s) = x
         /\ Tail(<<x>> \o s) = s
<1> DEFINE t == <<x>> \o s
<1>1. <<x>> \in Seq(S) /\ Len(<<x>>) = 1 /\ <<x>>[1] = x
  OBVIOUS
<1>2. /\ t \in Seq(S)
      /\ Len(t) = 1 + Len(s)
      /\ t[1] = x
      /\ \A i \in 1..Len(s) : t[i + 1] = s[i]
  BY <1>1, ConcatProperties
<1> HIDE DEF t
<1>3. t # <<>> /\ Head(t) = x
  BY <1>2
<1>4. /\ Tail(t) \in Seq(S)
      /\ Len(Tail(t)) = Len(s)
      /\ \A i \in 1..Len(s) : Tail(t)[i] = s[i]
  BY <1>2, <1>3, HeadTailProperties
<1>5. Tail(t) = s
  BY <1>4, SeqEqual
<1> QED BY <1>2, <1>3, <1>5 DEF t

\* Head and tail together are the sequence.
LEMMA HeadBack ==
  ASSUME NEW S, NEW s \in Seq(S), s # <<>>
  PROVE  /\ Head(s) \in S /\ Tail(s) \in Seq(S)
         /\ <<Head(s)>> \o Tail(s) = s
<1>1. Head(s) \in S /\ Tail(s) \in Seq(S)
  BY HeadTailProperties
<1>2. <<Head(s)>> \o Tail(s) \in Seq(S)
  BY <1>1, HeadInFront
<1>3. /\ Len(<<Head(s)>> \o Tail(s)) = Len(s)
      /\ \A i \in 1..Len(s) : (<<Head(s)>> \o Tail(s))[i] = s[i]
  BY <1>1, HeadTailProperties, ConcatProperties
<1> QED BY <1>1, <1>2, <1>3, SeqEqual

\* Taking off the head of a concatenation takes it off the first part.
LEMMA TailOfConcat ==
  ASSUME NEW S, NEW s \in Seq(S), NEW t \in Seq(S), s # <<>>
  PROVE  /\ s \o t # <<>>
         /\ Tail(s \o t) = Tail(s) \o t
<1>1. /\ Head(s) \in S /\ Tail(s) \in Seq(S)
      /\ s = <<Head(s)>> \o Tail(s)
  BY HeadBack
<1>2. Tail(s) \o t \in Seq(S)
  BY <1>1, ConcatProperties
<1>3. s \o t = <<Head(s)>> \o (Tail(s) \o t)
  <2>1. <<Head(s)>> \in Seq(S)
    BY <1>1
  <2>2. (<<Head(s)>> \o Tail(s)) \o t = <<Head(s)>> \o (Tail(s) \o t)
    BY <1>1, <2>1, ConcatAssociative
  <2> QED BY <1>1, <2>2
<1> QED BY <1>1, <1>2, <1>3, HeadInFront

\* The last element of a sequence, and what is before it.
LEMMA LastOfAppend ==
  ASSUME NEW S, NEW s \in Seq(S), NEW x \in S
  PROVE  LET t == Append(s, x) IN
         /\ t # <<>>
         /\ t[Len(t)] = x
         /\ SubSeq(t, 1, Len(t) - 1) = s
<1> DEFINE t == Append(s, x)
<1>1. /\ t \in Seq(S) /\ t # <<>>
      /\ Len(s) \in Nat /\ Len(t) = Len(s) + 1 /\ t[Len(s) + 1] = x
      /\ \A i \in 1..Len(s) : t[i] = s[i]
  BY AppendProperties, LenProperties
<1> HIDE DEF t
<1> DEFINE u == SubSeq(t, 1, Len(s))
<1>2. \A i \in 1..Len(s) : t[i] \in S
  BY <1>1, ElementOfSeq
<1>3. /\ u \in Seq(S)
      /\ Len(u) = IF 1 <= Len(s) THEN Len(s) - 1 + 1 ELSE 0
      /\ \A i \in 1..(Len(s) - 1 + 1) : u[i] = t[1 + i - 1]
  BY <1>1, <1>2, SubSeqProperties
<1> HIDE DEF u
<1>4. u = s
  <2>1. Len(u) = Len(s)
    BY <1>1, <1>3
  <2>2. \A i \in 1..Len(s) : u[i] = s[i]
    BY <1>1, <1>3
  <2> QED BY <1>3, <2>1, <2>2, SeqEqual
<1>5. Len(t) - 1 = Len(s)
  BY <1>1
<1> QED BY <1>1, <1>4, <1>5 DEF t, u

\* Appending to the second part of a concatenation.
LEMMA ConcatAppend ==
  ASSUME NEW S, NEW s \in Seq(S), NEW t \in Seq(S), NEW x \in S
  PROVE  s \o Append(t, x) = Append(s \o t, x)
<1>1. <<x>> \in Seq(S) /\ s \o t \in Seq(S)
  BY ConcatProperties
<1>2. Append(t, x) = t \o <<x>> /\ Append(s \o t, x) = (s \o t) \o <<x>>
  BY <1>1, AppendIsConcat
<1>3. (s \o t) \o <<x>> = s \o (t \o <<x>>)
  BY <1>1, ConcatAssociative
<1> QED BY <1>2, <1>3

-----------------------------------------------------------------------------
(* The mapped variables.                                                   *)

\* What is queued and what is answered are sequences.
LEMMA MappedType ==
  ASSUME TypeOK
  PROVE  /\ Taken \in Seq(Request)
         /\ Queued \in Seq(Request)
         /\ Answered \in Seq(Answer)
<1> USE DEF TypeOK, MgTypeOK
<1>1. <<msg>> \in Seq(Request) /\ <<reply>> \in Seq(Answer)
  OBVIOUS
<1>2. <<>> \in Seq(Request) /\ <<>> \in Seq(Answer)
  OBVIOUS
<1>3. Taken \in Seq(Request)
  BY <1>1, <1>2 DEF Taken
<1>4. Taken \o sock \in Seq(Request)
  BY <1>3, ConcatProperties
<1>5. Queued \in Seq(Request)
  BY <1>2, <1>4 DEF Queued
<1>6. inbox \o <<reply>> \in Seq(Answer) /\ inbox \o <<>> \in Seq(Answer)
  BY <1>1, <1>2, ConcatProperties
<1>7. Answered \in Seq(Answer)
  BY <1>6 DEF Answered
<1> QED BY <1>3, <1>5, <1>7

\* The answers, with the one in hand and without it.
LEMMA AnsweredIs ==
  ASSUME TypeOK
  PROVE  /\ mpc = "reply" => Answered = Append(inbox, reply)
         /\ mpc # "reply" => Answered = inbox
<1>1. inbox \in Seq(Answer) /\ reply \in Answer
  BY DEF TypeOK, MgTypeOK
<1>2. Append(inbox, reply) = inbox \o <<reply>> /\ inbox \o <<>> = inbox
  BY <1>1, AppendIsConcat, ConcatEmptySeq
<1> QED BY <1>2 DEF Answered

\* The queue, while requests are served and when they are not any more.
LEMMA QueuedIs ==
  ASSUME TypeOK
  PROVE  /\ ~Serving => Queued = <<>>
         /\ Serving /\ mpc \in {"lock", "call"} => Queued = <<msg>> \o sock
         /\ Serving /\ mpc \notin {"lock", "call"} => Queued = sock
<1>1. sock \in Seq(Request)
  BY DEF TypeOK, MgTypeOK
<1>2. <<>> \o sock = sock
  BY <1>1, ConcatEmptySeq
<1> QED BY <1>2 DEF Queued, Taken

\* Where nothing the map looks at changes, the abstract state does not.
LEMMA SameMapped ==
  ASSUME UNCHANGED <<mpc, msg, reply, sock, inbox, up, tables>>
  PROVE  UNCHANGED CP!cpVars
BY DEF CP!cpVars, Queued, Serving, Taken, Answered

\* When a step ends the service, and leaves the answers that are out, it maps
\* to Stop.
LEMMA EndOfService ==
  ASSUME Serving, ~Serving', UNCHANGED tables,
         Answered' \in {Answered, SubSeq(Answered, 1, Len(Answered) - 1)}
  PROVE  CP!Stop
BY DEF CP!Stop, Queued

-----------------------------------------------------------------------------
(* The steps.                                                              *)

\* A step of a handler is a stutter, or, if it takes the process down, Stop.
LEMMA HandlerRefines ==
  ASSUME TypeOK, NEW h \in Handlers, HandlerStep(h), UNCHANGED mgVars
  PROVE  [CP!CPNext]_(CP!cpVars)
<1>1. UNCHANGED <<mpc, msg, reply, sock, inbox>>
  BY DEF mgVars
<1>2. UNCHANGED tables /\ up
  BY DEF HandlerStep, Recv, RecvPanics, AcquireLock, LockIsPoisoned, Process,
         ProcessPanics, SendPacket, LosePacket, DispatchPanics, Sent, Lock,
         LockPanics, Unlock, LeaveBlock, CallPanics, Unwind, shared
<1>3. CASE up'
  <2>1. UNCHANGED up
    BY <1>2, <1>3 DEF TypeOK, SharedTypeOK
  <2> QED BY <1>1, <1>2, <1>3, <2>1, SameMapped
<1>4. CASE ~up' /\ Serving
  <2>1. Answered' = Answered
    BY <1>1 DEF Answered
  <2> QED BY <1>2, <1>4, <2>1, EndOfService DEF Serving, CP!CPNext
<1>5. CASE ~up' /\ ~Serving
  <2>1. UNCHANGED <<Serving, Queued, Answered>>
    BY <1>1, <1>5 DEF Serving, Queued, Answered
  <2> QED BY <1>2, <2>1 DEF CP!cpVars
<1> QED BY <1>3, <1>4, <1>5

\* A step of a client.
LEMMA ClientRefines ==
  ASSUME TypeOK, TypeOK', ClientStep
  PROVE  [CP!CPNext]_(CP!cpVars)
<1> USE DEF TypeOK, MgTypeOK
<1>1. CASE ClientBind
  BY <1>1, SameMapped DEF ClientBind, shared
<1>2. ASSUME NEW r \in Request, ClientSend(r)
      PROVE  [CP!CPNext]_(CP!cpVars)
  <2>1. /\ sock' = Append(sock, r)
        /\ UNCHANGED <<mpc, msg, reply, inbox, up, tables>>
    BY <1>2 DEF ClientSend, shared
  <2>2. UNCHANGED <<Serving, Taken, Answered, tables>>
    BY <2>1 DEF Serving, Taken, Answered
  <2>3. CASE Serving
    <3>1. Taken \in Seq(Request) /\ sock \in Seq(Request)
      BY MappedType
    <3>2. Taken \o Append(sock, r) = Append(Taken \o sock, r)
      BY <3>1, ConcatAppend
    <3>3. Queued' = Append(Queued, r)
      BY <2>1, <2>2, <2>3, <3>2 DEF Queued
    <3>4. CP!Submit(r)
      BY <2>2, <2>3, <3>3 DEF CP!Submit
    <3> QED BY <3>4 DEF CP!CPNext
  <2>4. CASE ~Serving
    <3>1. UNCHANGED Queued
      BY <2>2, <2>4 DEF Queued
    <3> QED BY <2>2, <3>1 DEF CP!cpVars
  <2> QED BY <2>3, <2>4
<1>3. CASE ClientRead
  <2> DEFINE inHand == IF mpc = "reply" THEN <<reply>> ELSE <<>>
  <2>1. /\ inbox # <<>> /\ inbox' = Tail(inbox)
        /\ UNCHANGED <<mpc, msg, reply, sock, up, tables>>
    BY <1>3 DEF ClientRead, shared
  <2>2. inHand \in Seq(Answer) /\ inbox \in Seq(Answer)
    OBVIOUS
  <2>3. Answered = inbox \o inHand /\ Answered' = Tail(inbox) \o inHand
    BY <2>1 DEF Answered
  <2> HIDE DEF inHand
  <2>4. Answered # <<>> /\ Answered' = Tail(Answered)
    BY <2>1, <2>2, <2>3, TailOfConcat
  <2>5. UNCHANGED <<Queued, tables, Serving>>
    BY <2>1 DEF Queued, Taken, Serving
  <2>6. CP!TakeAnswer
    BY <2>4, <2>5 DEF CP!TakeAnswer
  <2> QED BY <2>6 DEF CP!CPNext
<1>4. CASE ClientLeave
  <2>1. inbox' = <<>> /\ UNCHANGED <<mpc, msg, reply, sock, up, tables>>
    BY <1>4 DEF ClientLeave, shared
  <2>2. UNCHANGED <<Queued, tables, Serving>>
    BY <2>1 DEF Queued, Taken, Serving
  <2>3. CASE mpc = "reply"
    <3>1. Answered = Append(inbox, reply)
      BY <2>3, AnsweredIs
    <3>2. Answered # <<>> /\ Answered[Len(Answered)] = reply
      BY <3>1, LastOfAppend
    <3>3. Answered' = <<>> \o <<reply>>
      BY <2>1, <2>3 DEF Answered
    <3>4. <<>> \o <<reply>> = <<reply>>
      BY ConcatEmptySeq
    <3>5. CP!ClientLeaves
      BY <2>2, <3>2, <3>3, <3>4 DEF CP!ClientLeaves
    <3> QED BY <3>5 DEF CP!CPNext
  <2>4. CASE mpc # "reply"
    <3>1. Answered' = <<>> \o <<>>
      BY <2>1, <2>4 DEF Answered
    <3>2. <<>> \o <<>> = <<>>
      BY ConcatEmptySeq
    <3>3. CP!ClientLeaves
      BY <2>2, <3>1, <3>2 DEF CP!ClientLeaves
    <3> QED BY <3>3 DEF CP!CPNext
  <2> QED BY <2>3, <2>4
<1> QED BY <1>1, <1>2, <1>3, <1>4 DEF ClientStep

\* A step of the main task.
LEMMA MainRefines ==
  ASSUME TypeOK, TypeOK', MainStep
  PROVE  [CP!CPNext]_(CP!cpVars)
<1> USE DEF TypeOK, MgTypeOK
<1>1. CASE MgRecv
  <2> DEFINE r == Head(sock)
  <2>1. /\ up /\ mpc = "recv" /\ sock # <<>>
        /\ sock' = Tail(sock)
        /\ msg' = r
        /\ mpc' = CASE r.type = "junk"  -> "recv"
                    [] r.type = "radix" -> "reply"
                    [] OTHER            -> "lock"
        /\ reply' = IF r.type = "radix" THEN AnswerTo("radix") ELSE reply
        /\ UNCHANGED <<inbox, up, tables>>
    BY <1>1 DEF MgRecv, Parsed, shared
  <2>2. /\ r \in Request
        /\ r.type \in {"add", "remove", "radix", "dump", "junk"}
    BY <2>1 DEF Request, Queries
  <2> HIDE DEF r
  <2>3. mpc' \in {"recv", "reply", "lock"}
    BY <2>1
  <2>4. Serving /\ Serving' /\ Queued = sock /\ Answered = inbox
    BY <2>1, <2>3, QueuedIs, AnsweredIs DEF Serving
  <2>5. CASE r.type = "junk"
    <3>1. mpc' = "recv"
      BY <2>1, <2>5
    <3>2. Queued' = Tail(sock) /\ Answered' = inbox
      <4>1. Tail(sock) \in Seq(Request) /\ inbox \in Seq(Answer)
        BY <2>1
      <4> QED BY <2>1, <2>4, <3>1, <4>1, ConcatEmptySeq DEF Queued, Taken, Answered
    <3>3. CP!Updated(r) = tables /\ CP!Answers(r) = <<>>
      BY <2>5 DEF CP!Updated, CP!Answers
    <3>4. Answered \o <<>> = Answered
      BY MappedType, ConcatEmptySeq
    <3>5. CP!Serve
      BY <2>1, <2>4, <3>2, <3>3, <3>4 DEF CP!Serve, r
    <3> QED BY <3>5 DEF CP!CPNext
  <2>6. CASE r.type = "radix"
    <3>1. mpc' = "reply"
      BY <2>1, <2>6
    <3>2. reply' = [type |-> "radix", radix |-> NumPorts]
      <4>1. NumPorts \in Nat /\ NumPorts < 65536
        BY PortsAssumption
      <4>2. NumPorts % 65536 = NumPorts
        BY <4>1
      <4> QED BY <2>1, <2>6, <4>2 DEF AnswerTo
    <3>3. Queued' = Tail(sock) /\ Answered' = inbox \o <<reply'>>
      <4>1. Tail(sock) \in Seq(Request)
        BY <2>1
      <4> QED BY <2>1, <2>4, <3>1, <4>1, ConcatEmptySeq DEF Queued, Taken, Answered
    <3>4. /\ CP!Updated(r) = tables
          /\ CP!Answers(r) = <<[type |-> "radix", radix |-> NumPorts]>>
      BY <2>6 DEF CP!Updated, CP!Answers
    <3>5. CP!Serve
      BY <2>1, <2>4, <3>2, <3>3, <3>4 DEF CP!Serve, r
    <3> QED BY <3>5 DEF CP!CPNext
  <2>7. CASE r.type \in {"add", "remove", "dump"}
    <3>1. mpc' = "lock"
      BY <2>1, <2>7
    <3>2. Queued' = <<r>> \o Tail(sock) /\ Answered' = inbox \o <<>>
      BY <2>1, <2>4, <3>1 DEF Queued, Taken, Answered
    <3>3. <<r>> \o Tail(sock) = sock
      BY <2>1, HeadBack DEF r
    <3>4. inbox \o <<>> = inbox
      BY ConcatEmptySeq
    <3> QED BY <2>1, <2>4, <3>2, <3>3, <3>4 DEF CP!cpVars
  <2> QED BY <2>2, <2>5, <2>6, <2>7
<1>2. CASE MgLock
  <2>1. /\ mpc = "lock" /\ mpc' = "call"
        /\ UNCHANGED <<msg, reply, sock, inbox, up, tables>>
    BY <1>2 DEF MgLock, Lock
  <2>2. UNCHANGED <<Serving, Queued, Answered, tables>>
    BY <2>1 DEF Serving, Queued, Taken, Answered
  <2> QED BY <2>2 DEF CP!cpVars
<1>3. CASE MgLockIsPoisoned
  <2>1. /\ up /\ mpc = "lock" /\ mpc' = "dead"
        /\ UNCHANGED <<inbox, tables>>
    BY <1>3 DEF MgLockIsPoisoned, LockPanics, shared
  <2>2. Answered' = Answered
    BY <2>1 DEF Answered
  <2> QED BY <2>1, <2>2, EndOfService DEF Serving, CP!CPNext
<1>4. CASE MgUpdate
  <2>1. /\ up /\ mpc = "call" /\ mpc' = "recv" /\ msg.type \in {"add", "remove"}
        /\ tables' = IF msg.type = "add" THEN tables \cup {msg.key}
                                         ELSE tables \ {msg.key}
        /\ UNCHANGED <<msg, reply, sock, inbox, up>>
    BY <1>4 DEF MgUpdate, Unlock
  <2>2. Serving /\ Serving' /\ Queued = <<msg>> \o sock
    BY <2>1, QueuedIs DEF Serving
  <2>3. Queued' = <<>> \o sock
    BY <2>1, <2>2 DEF Queued, Taken
  <2>4. <<>> \o sock = sock
    BY ConcatEmptySeq
  <2>5. Queued # <<>> /\ Head(Queued) = msg /\ Queued' = Tail(Queued)
    BY <2>2, <2>3, <2>4, HeadInFront
  <2>6. CP!Updated(msg) = tables' /\ CP!Answers(msg) = <<>>
    BY <2>1 DEF CP!Updated, CP!Answers
  <2>7. Answered' = Answered /\ Answered \o <<>> = Answered
    BY <2>1, MappedType, ConcatEmptySeq DEF Answered
  <2>8. CP!Serve
    BY <2>2, <2>5, <2>6, <2>7 DEF CP!Serve
  <2> QED BY <2>8 DEF CP!CPNext
<1>5. CASE MgCallPanics
  <2>1. /\ up /\ mpc = "call" /\ mpc' = "dead"
        /\ UNCHANGED <<inbox, tables>>
    BY <1>5 DEF MgCallPanics, CallPanics, Unwind
  <2>2. Answered' = Answered
    BY <2>1 DEF Answered
  <2> QED BY <2>1, <2>2, EndOfService DEF Serving, CP!CPNext
<1>6. CASE MgDump
  <2>1. /\ up /\ mpc = "call" /\ mpc' = "reply" /\ msg.type = "dump"
        /\ reply' = [type |-> "dump", entries |-> tables]
        /\ UNCHANGED <<msg, sock, inbox, up, tables>>
    BY <1>6 DEF MgDump, Unlock, AnswerTo
  <2>2. Serving /\ Serving' /\ Queued = <<msg>> \o sock /\ Answered = inbox
    BY <2>1, QueuedIs, AnsweredIs DEF Serving
  <2>3. Queued' = <<>> \o sock /\ Answered' = inbox \o <<reply'>>
    BY <2>1, <2>2 DEF Queued, Taken, Answered
  <2>4. <<>> \o sock = sock
    BY ConcatEmptySeq
  <2>5. Queued # <<>> /\ Head(Queued) = msg /\ Queued' = Tail(Queued)
    BY <2>2, <2>3, <2>4, HeadInFront
  <2>6. /\ CP!Updated(msg) = tables
        /\ CP!Answers(msg) = <<[type |-> "dump", entries |-> tables]>>
    BY <2>1 DEF CP!Updated, CP!Answers
  <2>7. CP!Serve
    BY <2>1, <2>2, <2>3, <2>5, <2>6 DEF CP!Serve
  <2> QED BY <2>7 DEF CP!CPNext
<1>7. CASE MgReply
  <2>1. /\ mpc = "reply" /\ mpc' = "recv"
        /\ inbox' = Append(inbox, reply)
        /\ UNCHANGED <<msg, reply, sock, up, tables>>
    BY <1>7 DEF MgReply, LeaveBlock
  <2>2. Answered = Append(inbox, reply)
    BY <2>1, AnsweredIs
  <2>3. Answered' = Append(inbox, reply) \o <<>>
    BY <2>1 DEF Answered
  <2>4. Append(inbox, reply) \o <<>> = Append(inbox, reply)
    BY ConcatEmptySeq
  <2>5. UNCHANGED <<Serving, Queued>>
    BY <2>1 DEF Serving, Queued, Taken
  <2> QED BY <2>1, <2>2, <2>3, <2>4, <2>5 DEF CP!cpVars
<1>8. CASE MgReplyPanics
  <2>1. /\ up /\ mpc = "reply" /\ mpc' = "dead"
        /\ UNCHANGED <<inbox, tables>>
    BY <1>8 DEF MgReplyPanics, Unwind
  <2>2. Answered = Append(inbox, reply)
    BY <2>1, AnsweredIs
  <2>3. SubSeq(Answered, 1, Len(Answered) - 1) = inbox
    BY <2>2, LastOfAppend
  <2>4. Answered' = inbox \o <<>>
    BY <2>1 DEF Answered
  <2>5. inbox \o <<>> = inbox
    BY ConcatEmptySeq
  <2>6. Answered' \in {Answered, SubSeq(Answered, 1, Len(Answered) - 1)}
    BY <2>3, <2>4, <2>5
  <2> QED BY <2>1, <2>6, EndOfService DEF Serving, CP!CPNext
<1>9. CASE Exit
  <2>1. /\ mpc = "dead"
        /\ UNCHANGED <<mpc, msg, reply, sock, inbox, tables>>
    BY <1>9 DEF Exit, mgVars
  <2>2. ~Serving /\ ~Serving'
    BY <2>1 DEF Serving
  <2>3. UNCHANGED <<Serving, Queued, Answered, tables>>
    BY <2>1, <2>2 DEF Queued, Answered, Serving
  <2> QED BY <2>3 DEF CP!cpVars
<1> QED
  BY <1>1, <1>2, <1>3, <1>4, <1>5, <1>6, <1>7, <1>8, <1>9 DEF MainStep

(***************************************************************************)
(* The management interface of the process, whatever its packet handlers   *)
(* and its clients do, serves requests one at a time and in their order,   *)
(* each update in one step and each query from the tables of one moment.   *)
(***************************************************************************)
THEOREM ServiceIsInOrder == Spec => ServesInOrder
<1>1. Init => CP!CPInit
  <2> SUFFICES ASSUME Init PROVE CP!CPInit
    OBVIOUS
  <2>1. TypeOK
    BY InitType
  <2>2. /\ up = TRUE /\ mpc = "recv" /\ sock = <<>> /\ inbox = <<>>
        /\ tables = {}
    BY DEF Init, SharedInit, MgInit
  <2>3. Serving = TRUE
    BY <2>2 DEF Serving
  <2>4. Queued = <<>> /\ Answered = <<>>
    BY <2>1, <2>2, <2>3, QueuedIs, AnsweredIs
  <2> QED BY <2>2, <2>3, <2>4 DEF CP!CPInit
<1>2. TypeOK /\ [Next]_vars => [CP!CPNext]_(CP!cpVars)
  <2> SUFFICES ASSUME TypeOK, [Next]_vars PROVE [CP!CPNext]_(CP!cpVars)
    OBVIOUS
  <2>1. TypeOK'
    BY StepType
  <2>2. CASE Traffic
    BY <2>2, SameMapped DEF Traffic, Arrive, shared, mgVars
  <2>3. ASSUME NEW h \in Handlers, Handle(h) PROVE [CP!CPNext]_(CP!cpVars)
    BY <2>3, HandlerRefines DEF Handle
  <2>4. CASE Client
    BY <2>1, <2>4, ClientRefines DEF Client
  <2>5. CASE Manage
    BY <2>1, <2>5, MainRefines DEF Manage
  <2>6. CASE UNCHANGED vars
    BY <2>6, SameMapped DEF vars, shared, mgVars
  <2> QED BY <2>2, <2>3, <2>4, <2>5, <2>6 DEF Next
<1> QED
  BY <1>1, <1>2, TypeCorrect, PTL DEF Spec, ServesInOrder, CP!ControlPlaneSpec

-----------------------------------------------------------------------------
(* The questions among a sequence of requests.  Questions is a recursive   *)
(* function; that there is one, and only one, is shown by induction over a *)
(* set of naturals.                                                        *)

\* A set that has 0, and with every number the next, has them all.
LEMMA SetInduction ==
  ASSUME NEW T \in SUBSET Nat, 0 \in T, \A n \in T : n + 1 \in T
  PROVE  T = Nat
<1> SUFFICES ASSUME Nat \ T # {} PROVE FALSE
  OBVIOUS
<1>1. IsWellFoundedOn(OpToRel(<, Nat), Nat)
  BY NatLessThanWellFounded
<1>2. PICK x \in Nat \ T : \A y \in Nat \ T : ~ (<<y, x>> \in OpToRel(<, Nat))
  BY <1>1, WFMin
<1>3. \A y \in Nat \ T : ~ (y < x)
  BY <1>2 DEF OpToRel
<1> QED BY <1>3

\* The questions q, and that of the request r if it is one.
With(q, r) == IF r.type \in Queries THEN Append(q, r.type) ELSE q

LEMMA WithInConcat ==
  ASSUME NEW q \in Seq(Queries), NEW w \in Seq(Queries), NEW r
  PROVE  With(q \o w, r) = q \o With(w, r)
<1>1. CASE r.type \in Queries
  <2> DEFINE x == r.type
  <2>1. x \in Queries
    BY <1>1
  <2> HIDE DEF x
  <2>2. q \o Append(w, x) = Append(q \o w, x)
    BY <2>1, ConcatAppend
  <2> QED BY <1>1, <2>2, Zenon DEF With, x
<1>2. CASE r.type \notin Queries
  BY <1>2, Zenon DEF With
<1> QED BY <1>1, <1>2

\* f[i] is the questions among the first i requests of s, for i up to n.
IsTally(s, n, f) ==
  /\ f[0] = <<>>
  /\ \A i \in 1..n : f[i] = With(f[i - 1], s[i])

LEMMA WithType ==
  ASSUME NEW q \in Seq(Queries), NEW r
  PROVE  With(q, r) \in Seq(Queries)
BY AppendProperties DEF With

LEMMA TallyExists ==
  ASSUME NEW s
  PROVE  \A n \in Nat : \E f \in [0..n -> Seq(Queries)] : IsTally(s, n, f)
<1> DEFINE P(n) == \E f \in [0..n -> Seq(Queries)] : IsTally(s, n, f)
           T    == {n \in Nat : P(n)}
<1>1. 0 \in T
  <2> DEFINE f == [i \in 0..0 |-> <<>>]
  <2>1. f \in [0..0 -> Seq(Queries)]
    OBVIOUS
  <2>2. f[0] = <<>> /\ 1..0 = {}
    OBVIOUS
  <2>3. IsTally(s, 0, f)
    BY <2>2 DEF IsTally
  <2> QED BY <2>1, <2>3
<1>2. ASSUME NEW n \in T PROVE n + 1 \in T
  <2>1. PICK f \in [0..n -> Seq(Queries)] : IsTally(s, n, f)
    OBVIOUS
  <2> DEFINE g == [i \in 0..(n + 1) |-> IF i = n + 1 THEN With(f[n], s[n + 1])
                                                     ELSE f[i]]
  <2>2. n \in Nat /\ n + 1 \in Nat
    OBVIOUS
  <2>3. g \in [0..(n + 1) -> Seq(Queries)]
    <3>1. f[n] \in Seq(Queries)
      BY <2>2
    <3>2. With(f[n], s[n + 1]) \in Seq(Queries)
      BY <3>1, WithType
    <3>3. \A i \in 0..(n + 1) : i # n + 1 => f[i] \in Seq(Queries)
      BY <2>2
    <3> QED BY <3>2, <3>3
  <2>4. g[0] = <<>>
    BY <2>1, <2>2 DEF IsTally
  <2>5. ASSUME NEW i \in 1..(n + 1) PROVE g[i] = With(g[i - 1], s[i])
    <3>1. i - 1 \in 0..n /\ g[i - 1] = f[i - 1]
      BY <2>2
    <3>2. CASE i = n + 1
      <4>1. g[i] = With(f[n], s[i]) /\ i - 1 = n
        BY <2>2, <3>2
      <4> QED BY <3>1, <4>1
    <3>3. CASE i # n + 1
      <4>1. i \in 1..n /\ g[i] = f[i]
        BY <2>2, <3>3
      <4>2. f[i] = With(f[i - 1], s[i])
        BY <2>1, <4>1 DEF IsTally
      <4> QED BY <3>1, <4>1, <4>2
    <3> QED BY <3>2, <3>3
  <2> HIDE DEF g
  <2>6. IsTally(s, n + 1, g)
    BY <2>4, <2>5 DEF IsTally
  <2> QED BY <2>2, <2>3, <2>6
<1>3. T = Nat
  <2> HIDE DEF T
  <2>1. T \subseteq Nat
    BY DEF T
  <2> QED BY <1>1, <1>2, <2>1, SetInduction
<1> QED BY <1>3

\* Tallies of sequences that begin alike are alike as far.
LEMMA TalliesAgree ==
  ASSUME NEW s, NEW t, NEW f, NEW g, NEW n \in Nat, NEW m \in Nat,
         IsTally(s, n, f), IsTally(t, m, g), n <= m,
         \A i \in 1..n : s[i] = t[i]
  PROVE  \A i \in 0..n : f[i] = g[i]
<1> DEFINE T == {i \in Nat : i <= n => f[i] = g[i]}
<1>1. 0 \in T
  BY DEF IsTally
<1>2. ASSUME NEW i \in T PROVE i + 1 \in T
  <2>1. i + 1 \in Nat
    OBVIOUS
  <2>2. ASSUME i + 1 <= n PROVE f[i + 1] = g[i + 1]
    <3>1. f[i] = g[i] /\ i + 1 \in 1..n /\ i + 1 \in 1..m /\ (i + 1) - 1 = i
      BY <2>2
    <3> DEFINE j == i + 1
    <3>2. f[j] = With(f[j - 1], s[j]) /\ g[j] = With(g[j - 1], t[j])
      BY <3>1 DEF IsTally
    <3>3. j - 1 = i /\ s[j] = t[j]
      BY <3>1
    <3> HIDE DEF j
    <3>4. f[j] = g[j]
      BY <3>1, <3>2, <3>3
    <3> QED BY <3>4 DEF j
  <2> QED BY <2>1, <2>2
<1>3. T = Nat
  <2> HIDE DEF T
  <2>1. T \subseteq Nat
    BY DEF T
  <2> QED BY <1>1, <1>2, <2>1, SetInduction
<1>4. \A i \in Nat : i \in T
  BY <1>3
<1> QED BY <1>4

\* Questions is the end of the tally.
LEMMA QuestionsIsTally ==
  ASSUME NEW s, Len(s) \in Nat, NEW g, IsTally(s, Len(s), g)
  PROVE  Questions(s) = g[Len(s)]
<1> DEFINE n    == Len(s)
           R(f) == [i \in 0..n |->
                      IF i = 0 THEN <<>>
                      ELSE IF s[i].type \in Queries
                           THEN Append(f[i - 1], s[i].type)
                           ELSE f[i - 1]]
           c    == CHOOSE f : f = R(f)
<1>1. Questions(s) = c[n]
  BY DEF Questions
<1>2. \E f : f = R(f)
  <2> DEFINE h == [i \in 0..n |-> g[i]]
  <2>1. ASSUME NEW i \in 0..n
        PROVE  h[i] = IF i = 0 THEN <<>>
                      ELSE IF s[i].type \in Queries
                           THEN Append(h[i - 1], s[i].type)
                           ELSE h[i - 1]
    <3>1. CASE i = 0
      BY <3>1 DEF IsTally
    <3>2. CASE i # 0
      <4>1. i \in 1..n /\ i - 1 \in 0..n /\ h[i - 1] = g[i - 1] /\ h[i] = g[i]
        BY <3>2
      <4>2. g[i] = With(g[i - 1], s[i])
        BY <4>1 DEF IsTally
      <4> QED BY <3>2, <4>1, <4>2 DEF With
    <3> QED BY <3>1, <3>2
  <2>2. h = R(h)
    BY <2>1
  <2> QED BY <2>2
<1>3. c = R(c)
  BY <1>2
<1> HIDE DEF c
<1>4. IsTally(s, n, c)
  <2>1. c[0] = <<>>
    BY <1>3
  <2>2. ASSUME NEW i \in 1..n PROVE c[i] = With(c[i - 1], s[i])
    <3>1. i \in 0..n /\ i # 0
      OBVIOUS
    <3>2. c[i] = IF s[i].type \in Queries THEN Append(c[i - 1], s[i].type)
                                          ELSE c[i - 1]
      BY <1>3, <3>1
    <3> QED BY <3>2 DEF With
  <2> QED BY <2>1, <2>2 DEF IsTally
<1>5. n <= n /\ n \in 0..n
  OBVIOUS
<1>6. c[n] = g[n]
  BY <1>4, <1>5, TalliesAgree
<1> QED BY <1>1, <1>6

LEMMA QuestionsType ==
  ASSUME NEW s \in Seq(Request)
  PROVE  Questions(s) \in Seq(Queries)
<1>1. Len(s) \in Nat
  BY LenProperties
<1>2. PICK f \in [0..Len(s) -> Seq(Queries)] : IsTally(s, Len(s), f)
  BY <1>1, TallyExists
<1>3. Questions(s) = f[Len(s)] /\ Len(s) \in 0..Len(s)
  BY <1>1, <1>2, QuestionsIsTally
<1> QED BY <1>2, <1>3

LEMMA NoQuestions == Questions(<<>>) = <<>>
<1>1. Len(<<>>) = 0 /\ 0 \in Nat
  OBVIOUS
<1>2. PICK f \in [0..0 -> Seq(Queries)] : IsTally(<<>>, 0, f)
  BY <1>1, TallyExists
<1>3. Questions(<<>>) = f[0]
  BY <1>1, <1>2, QuestionsIsTally
<1> QED BY <1>2, <1>3 DEF IsTally

\* The questions of one request.
LEMMA OneQuestion ==
  ASSUME NEW r
  PROVE  Questions(<<r>>) = With(<<>>, r)
<1>1. Len(<<r>>) = 1 /\ 1 \in Nat /\ <<r>>[1] = r
  OBVIOUS
<1>2. PICK f \in [0..1 -> Seq(Queries)] : IsTally(<<r>>, 1, f)
  BY <1>1, TallyExists
<1>3. Questions(<<r>>) = f[1]
  BY <1>1, <1>2, QuestionsIsTally
<1>4. 1 \in 1..1 /\ 1 - 1 = 0
  OBVIOUS
<1>5. f[0] = <<>> /\ f[1] = With(f[1 - 1], <<r>>[1])
  BY <1>2, <1>4 DEF IsTally
<1> QED BY <1>1, <1>3, <1>4, <1>5

\* A tally that goes on for one more request.
LEMMA OneMore ==
  ASSUME NEW s, NEW t, NEW f, NEW g, NEW n \in Nat,
         IsTally(s, n, f), IsTally(t, n + 1, g),
         \A i \in 1..n : s[i] = t[i]
  PROVE  g[n + 1] = With(f[n], t[n + 1])
<1> DEFINE m == n + 1
<1>1. m \in Nat /\ n <= m /\ m - 1 = n /\ m \in 1..m /\ n \in 0..n
  OBVIOUS
<1>2. IsTally(t, m, g)
  OBVIOUS
<1> HIDE DEF m
<1>3. \A i \in 0..n : f[i] = g[i]
  BY <1>1, <1>2, TalliesAgree
<1>4. g[m] = With(g[m - 1], t[m])
  BY <1>1, <1>2 DEF IsTally
<1>5. g[m] = With(f[n], t[m])
  BY <1>1, <1>3, <1>4
<1> QED BY <1>5 DEF m

\* One more request.
LEMMA QuestionsOfAppend ==
  ASSUME NEW s \in Seq(Request), NEW r \in Request
  PROVE  Questions(Append(s, r)) = With(Questions(s), r)
<1> DEFINE n == Len(s)
           t == Append(s, r)
<1>1. n \in Nat /\ Len(t) = n + 1 /\ t[n + 1] = r
      /\ \A i \in 1..n : s[i] = t[i]
  BY LenProperties, AppendProperties
<1>2. n + 1 \in Nat /\ Len(t) \in Nat /\ n = Len(s)
  BY <1>1
<1> HIDE DEF n, t
<1>3. PICK f : IsTally(s, n, f)
  BY <1>1, TallyExists
<1>4. PICK g : IsTally(t, n + 1, g)
  BY <1>2, TallyExists
<1>5. g[n + 1] = With(f[n], r)
  <2>1. g[n + 1] = With(f[n], t[n + 1])
    BY <1>1, <1>3, <1>4, OneMore
  <2> QED BY <1>1, <2>1
<1>6. Questions(s) = f[n]
  BY <1>1, <1>2, <1>3, QuestionsIsTally
<1>7. Questions(t) = g[Len(t)]
  <2>1. IsTally(t, Len(t), g)
    BY <1>1, <1>4
  <2> QED BY <1>2, <2>1, QuestionsIsTally
<1> QED BY <1>1, <1>5, <1>6, <1>7 DEF t

\* The questions are those of the first request and those of the rest.
LEMMA QuestionsOfHead ==
  ASSUME NEW s \in Seq(Request), s # <<>>
  PROVE  /\ Questions(<<Head(s)>>) \in Seq(Queries)
         /\ Questions(Tail(s)) \in Seq(Queries)
         /\ Questions(s) = Questions(<<Head(s)>>) \o Questions(Tail(s))
<1> DEFINE t == Tail(s)
           n == Len(t)
           q == Questions(<<Head(s)>>)
<1>1. /\ t \in Seq(Request) /\ n \in Nat /\ Len(s) = n + 1 /\ s[1] = Head(s)
      /\ \A i \in 1..n : t[i] = s[i + 1]
      /\ Head(s) \in Request
  BY LenProperties, HeadTailProperties
<1>2. q \in Seq(Queries) /\ Questions(t) \in Seq(Queries)
  <2>1. <<Head(s)>> \in Seq(Request)
    BY <1>1
  <2> QED BY <1>1, <2>1, QuestionsType
<1> HIDE DEF t
<1>0. n \in Nat /\ n + 1 \in Nat
  BY <1>1
<1> HIDE DEF n
<1>3. PICK f \in [0..(n + 1) -> Seq(Queries)] : IsTally(s, n + 1, f)
  BY <1>0, TallyExists
<1>4. PICK g \in [0..n -> Seq(Queries)] : IsTally(t, n, g)
  BY <1>0, TallyExists
<1>5. Questions(s) = f[n + 1] /\ Questions(t) = g[n]
  <2>1. Len(s) = n + 1 /\ Len(t) = n /\ n + 1 \in Nat /\ n \in Nat
    BY <1>1, <1>0 DEF n
  <2> QED BY <2>1, <1>3, <1>4, QuestionsIsTally
<1> DEFINE T == {i \in Nat : i <= n => f[i + 1] = q \o g[i]}
<1>6. 0 \in T
  <2>1. 1 \in 1..(n + 1) /\ 1 - 1 = 0
    BY <1>1
  <2>2. f[1] = With(f[1 - 1], s[1]) /\ f[0] = <<>> /\ g[0] = <<>>
    BY <1>3, <1>4, <2>1 DEF IsTally
  <2>3. f[1] = With(<<>>, Head(s))
    BY <1>1, <2>1, <2>2
  <2>4. q = With(<<>>, Head(s))
    BY OneQuestion
  <2> HIDE DEF q
  <2>5. q \o <<>> = q
    BY <1>2, ConcatEmptySeq
  <2>6. f[0 + 1] = q \o g[0]
    BY <2>2, <2>3, <2>4, <2>5
  <2> QED BY <2>6
<1> HIDE DEF q
<1>7. ASSUME NEW i \in T PROVE i + 1 \in T
  <2>1. i \in Nat /\ i + 1 \in Nat
    OBVIOUS
  <2>2. ASSUME i + 1 <= n PROVE f[(i + 1) + 1] = q \o g[i + 1]
    <3>1. f[i + 1] = q \o g[i]
      <4>1. i <= n
        BY <2>1, <2>2, <1>0
      <4> QED BY <4>1
    <3> DEFINE j == i + 1
               k == j + 1
    <3>2. j \in 1..n /\ k \in 1..(n + 1) /\ k - 1 = j /\ j - 1 = i /\ j \in Nat
          /\ i \in 0..n
      BY <2>1, <2>2, <1>0
    <3> HIDE DEF j, k
    <3>3. t[j] = s[k]
      BY <1>1, <3>2 DEF k
    <3>4. f[k] = With(f[k - 1], s[k]) /\ g[j] = With(g[j - 1], t[j])
      BY <1>3, <1>4, <3>2 DEF IsTally
    <3> DEFINE r == s[k]
    <3>5. f[k] = With(f[j], r) /\ g[j] = With(g[i], r)
      BY <3>2, <3>3, <3>4
    <3>6. g[i] \in Seq(Queries)
      BY <3>2, <1>4
    <3> HIDE DEF r
    <3>7. f[j] = q \o g[i]
      BY <3>1 DEF j
    <3>8. With(q \o g[i], r) = q \o With(g[i], r)
      <4> DEFINE w == g[i]
      <4>1. w \in Seq(Queries)
        BY <3>6
      <4> HIDE DEF w
      <4>2. With(q \o w, r) = q \o With(w, r)
        BY <1>2, <4>1, WithInConcat
      <4> QED BY <4>2 DEF w
    <3>9. f[k] = q \o g[j]
      BY <3>5, <3>7, <3>8, Zenon
    <3> QED BY <3>9 DEF j, k
  <2> QED BY <2>1, <2>2
<1>8. T = Nat
  <2> HIDE DEF T
  <2>1. T \subseteq Nat
    BY DEF T
  <2> QED BY <1>6, <1>7, <2>1, SetInduction
<1>9. n \in T
  BY <1>1, <1>8
<1>10. f[n + 1] = q \o g[n]
  BY <1>1, <1>9
<1> QED BY <1>2, <1>5, <1>10 DEF q, t

-----------------------------------------------------------------------------
(* The questions on their way.                                             *)

\* Those with an answer, the one in hand and those still to be taken up.
Chain(a, b, c) == (a \o b) \o c

\* A request is sent: its question goes to the end.
LEMMA ChainWith ==
  ASSUME NEW a \in Seq(Queries), NEW b \in Seq(Queries), NEW c \in Seq(Queries),
         NEW r
  PROVE  Chain(a, b, With(c, r)) = With(Chain(a, b, c), r)
<1>1. a \o b \in Seq(Queries)
  BY ConcatProperties
<1> QED BY <1>1, WithInConcat DEF Chain

\* An answer is read: it goes from the front.
LEMMA ChainTail ==
  ASSUME NEW S, NEW a \in Seq(S), NEW b \in Seq(S), NEW c \in Seq(S), a # <<>>
  PROVE  /\ Chain(a, b, c) # <<>>
         /\ Chain(Tail(a), b, c) = Tail(Chain(a, b, c))
<1> DEFINE d == a \o b
<1>1. d \in Seq(S) /\ d # <<>> /\ Tail(d) = Tail(a) \o b
  BY ConcatProperties, TailOfConcat
<1> HIDE DEF d
<1>2. d \o c # <<>> /\ Tail(d \o c) = Tail(d) \o c
  BY <1>1, TailOfConcat
<1> QED BY <1>1, <1>2, Zenon DEF Chain, d

\* An answer goes out: it moves from the middle to the front.
LEMMA ChainMoves ==
  ASSUME NEW S, NEW a \in Seq(S), NEW c \in Seq(S), NEW x \in S
  PROVE  Chain(Append(a, x), <<>>, c) = Chain(a, <<x>>, c)
<1>1. Append(a, x) \in Seq(S) /\ Append(a, x) = a \o <<x>>
  BY AppendProperties, AppendIsConcat
<1>2. Append(a, x) \o <<>> = Append(a, x)
  BY <1>1, ConcatEmptySeq
<1> QED BY <1>1, <1>2, Zenon DEF Chain

\* A request is taken up: its question moves to the middle.
LEMMA ChainTakes ==
  ASSUME NEW S, NEW a \in Seq(S), NEW b \in Seq(S), NEW c \in Seq(S)
  PROVE  Chain(a, <<>>, b \o c) = Chain(a, b, c)
<1>1. a \o <<>> = a
  BY ConcatEmptySeq
<1>2. a \o (b \o c) = (a \o b) \o c
  BY ConcatAssociative
<1> QED BY <1>1, <1>2, Zenon DEF Chain

\* With a question in hand, something is on its way.
LEMMA ChainOfSome ==
  ASSUME NEW S, NEW a \in Seq(S), NEW c \in Seq(S), NEW x \in S
  PROVE  Chain(a, <<x>>, c) # <<>>
<1>1. Append(a, x) \in Seq(S) /\ Append(a, x) # <<>> /\ <<>> \in Seq(S)
  BY AppendProperties
<1>2. Chain(Append(a, x), <<>>, c) # <<>>
  BY <1>1, ChainTail
<1> QED BY <1>2, ChainMoves

\* The kinds of the answers that are out.
LEMMA KindsType ==
  ASSUME NEW s \in Seq(Answer)
  PROVE  /\ Kinds(s) \in Seq(Queries)
         /\ Len(Kinds(s)) = Len(s)
         /\ \A i \in 1..Len(s) : Kinds(s)[i] = s[i].type
<1>1. Len(s) \in Nat /\ DOMAIN s = 1..Len(s) /\ \A i \in 1..Len(s) : s[i] \in Answer
  BY LenProperties, ElementOfSeq
<1>2. \A a \in Answer : a.type \in Queries
  BY DEF Answer, Queries
<1>3. Kinds(s) = [i \in 1..Len(s) |-> s[i].type]
  BY <1>1 DEF Kinds
<1> QED BY <1>1, <1>2, <1>3

LEMMA NoKinds == Kinds(<<>>) = <<>>
BY DEF Kinds

LEMMA KindsOfAppend ==
  ASSUME NEW s \in Seq(Answer), NEW a \in Answer
  PROVE  Kinds(Append(s, a)) = Append(Kinds(s), a.type)
<1> DEFINE t == Append(s, a)
           k == Kinds(s)
<1>1. /\ t \in Seq(Answer) /\ Len(t) = Len(s) + 1 /\ t[Len(s) + 1] = a
      /\ \A i \in 1..Len(s) : t[i] = s[i]
      /\ Len(s) \in Nat
  BY AppendProperties, LenProperties
<1>2. k \in Seq(Queries) /\ Len(k) = Len(s) /\ \A i \in 1..Len(s) : k[i] = s[i].type
  BY KindsType
<1>3. a.type \in Queries
  BY DEF Answer, Queries
<1> HIDE DEF t, k
<1>4. /\ Kinds(t) \in Seq(Queries) /\ Len(Kinds(t)) = Len(t)
      /\ \A i \in 1..Len(t) : Kinds(t)[i] = t[i].type
  BY <1>1, KindsType
<1>5. /\ Append(k, a.type) \in Seq(Queries)
      /\ Len(Append(k, a.type)) = Len(k) + 1
      /\ Append(k, a.type)[Len(k) + 1] = a.type
      /\ \A i \in 1..Len(k) : Append(k, a.type)[i] = k[i]
  BY <1>2, <1>3, AppendProperties
<1> DEFINE u == Kinds(t)
           w == Append(k, a.type)
<1>6. u \in Seq(Queries) /\ w \in Seq(Queries) /\ Len(u) = Len(w)
  BY <1>1, <1>2, <1>4, <1>5
<1>7. \A i \in 1..Len(u) : u[i] = w[i]
  BY <1>1, <1>2, <1>4, <1>5
<1> HIDE DEF u, w
<1>8. u = w
  BY <1>6, <1>7, SeqEqual
<1> QED BY <1>8 DEF t, k, u, w

LEMMA KindsOfTail ==
  ASSUME NEW s \in Seq(Answer), s # <<>>
  PROVE  /\ Kinds(s) # <<>>
         /\ Kinds(Tail(s)) = Tail(Kinds(s))
<1> DEFINE k == Kinds(s)
<1>1. /\ Tail(s) \in Seq(Answer) /\ Len(s) \in Nat /\ Len(s) # 0
      /\ Len(Tail(s)) = Len(s) - 1
      /\ \A i \in 1..Len(Tail(s)) : Tail(s)[i] = s[i + 1]
  BY HeadTailProperties, LenProperties
<1>2. k \in Seq(Queries) /\ Len(k) = Len(s) /\ \A i \in 1..Len(s) : k[i] = s[i].type
  BY KindsType
<1> HIDE DEF k
<1>3. k # <<>>
  BY <1>1, <1>2
<1>4. /\ Tail(k) \in Seq(Queries)
      /\ Len(Tail(k)) = Len(k) - 1
      /\ \A i \in 1..Len(Tail(k)) : Tail(k)[i] = k[i + 1]
  BY <1>2, <1>3, HeadTailProperties
<1> DEFINE t == Tail(s)
           u == Kinds(t)
           w == Tail(k)
<1>5. /\ u \in Seq(Queries) /\ Len(u) = Len(t)
      /\ \A i \in 1..Len(t) : u[i] = t[i].type
  BY <1>1, KindsType
<1>6. w \in Seq(Queries) /\ Len(u) = Len(w) /\ \A i \in 1..Len(u) : u[i] = w[i]
  BY <1>1, <1>2, <1>4, <1>5
<1> HIDE DEF u, w
<1>7. u = w
  BY <1>5, <1>6, SeqEqual
<1> QED BY <1>3, <1>7 DEF k, t, u, w

\* Pending in its parts, which are sequences of questions.
LEMMA PendingIs ==
  ASSUME TypeOK
  PROVE  /\ Kinds(inbox) \in Seq(Queries)
         /\ InHand \in Seq(Queries)
         /\ Questions(sock) \in Seq(Queries)
         /\ Pending = Chain(Kinds(inbox), InHand, Questions(sock))
<1>1. inbox \in Seq(Answer) /\ sock \in Seq(Request) /\ reply \in Answer
      /\ msg \in Request
  BY DEF TypeOK, MgTypeOK
<1>2. reply.type \in Queries
  BY <1>1 DEF Answer, Queries
<1>3. Questions(<<msg>>) \in Seq(Queries)
  <2>1. <<msg>> \in Seq(Request)
    BY <1>1
  <2> QED BY <2>1, QuestionsType
<1>4. InHand \in Seq(Queries)
  BY <1>2, <1>3 DEF InHand
<1>5. Pending = Chain(Kinds(inbox), InHand, Questions(sock))
  BY Zenon DEF Pending, Chain
<1> QED BY <1>1, <1>4, <1>5, KindsType, QuestionsType


-----------------------------------------------------------------------------
(* The answers match the questions.                                        *)

\* Where nothing that AnswersMatch looks at changes, it stays.
LEMMA SameQuestions ==
  ASSUME UNCHANGED <<mpc, msg, reply, sock, inbox, asked>>, up' => up, AnswersMatch
  PROVE  AnswersMatch'
<1>1. UNCHANGED Pending
  BY DEF Pending, InHand
<1> QED BY <1>1 DEF AnswersMatch

\* A client asks, reads an answer, or leaves when it has them all.
LEMMA ClientMatches ==
  ASSUME TypeOK, TypeOK', AnswersMatch, ClientStep
  PROVE  AnswersMatch'
<1> SUFFICES ASSUME ~ClientMayVanish, mpc' # "dead", up'
             PROVE  Pending' = asked'
  BY DEF AnswersMatch
<1> DEFINE a == Kinds(inbox)
           q == Questions(sock)
<1>1. UNCHANGED <<mpc, msg, reply, up>>
  BY DEF ClientStep, ClientBind, ClientSend, ClientRead, ClientLeave, shared
<1>2. Chain(a, InHand, q) = asked
  BY <1>1, PendingIs DEF AnswersMatch
<1>3. UNCHANGED InHand
  BY <1>1 DEF InHand
<1>4. Pending' = Chain(a', InHand, q')
  BY <1>3, PendingIs DEF Pending, Chain
<1>5. a \in Seq(Queries) /\ InHand \in Seq(Queries) /\ q \in Seq(Queries)
  BY PendingIs
<1>6. sock \in Seq(Request) /\ inbox \in Seq(Answer)
  BY DEF TypeOK, MgTypeOK
<1>7. CASE ClientBind
  BY <1>2, <1>4, <1>7 DEF ClientBind
<1>8. ASSUME NEW r \in Request, ClientSend(r)
      PROVE  Pending' = asked'
  <2>1. /\ sock' = Append(sock, r) /\ inbox' = inbox
        /\ asked' = With(asked, r)
    BY <1>8 DEF ClientSend, With
  <2>2. a' = a /\ q' = With(q, r)
    BY <2>1, <1>6, QuestionsOfAppend
  <2> HIDE DEF a, q
  <2>3. Chain(a, InHand, With(q, r)) = With(Chain(a, InHand, q), r)
    BY <1>5, ChainWith
  <2> QED BY <1>2, <1>4, <2>1, <2>2, <2>3, Zenon
<1>9. CASE ClientRead
  <2>1. /\ inbox # <<>> /\ inbox' = Tail(inbox) /\ sock' = sock
        /\ asked' = IF asked = <<>> THEN <<>> ELSE Tail(asked)
    BY <1>9 DEF ClientRead
  <2>2. a # <<>> /\ a' = Tail(a) /\ q' = q
    BY <2>1, <1>6, KindsOfTail
  <2> HIDE DEF a, q
  <2>3. asked # <<>> /\ Chain(Tail(a), InHand, q) = Tail(asked)
    <3>1. /\ Chain(a, InHand, q) # <<>>
          /\ Chain(Tail(a), InHand, q) = Tail(Chain(a, InHand, q))
      BY <1>5, <2>2, ChainTail
    <3> QED BY <1>2, <3>1, Zenon
  <2> QED BY <1>4, <2>1, <2>2, <2>3, Zenon
<1>10. CASE ClientLeave
  <2>1. asked = <<>> /\ inbox' = <<>> /\ asked' = <<>> /\ sock' = sock
    BY <1>10 DEF ClientLeave
  <2>2. q' = q /\ a' = <<>>
    BY <2>1, NoKinds
  <2>3. a = <<>>
    <3>1. a # <<>> => Chain(a, InHand, q) # <<>>
      BY <1>5, ChainTail
    <3> QED BY <1>2, <2>1, <3>1, Zenon
  <2> HIDE DEF a, q
  <2> QED BY <1>2, <1>4, <2>1, <2>2, <2>3, Zenon
<1> QED BY <1>7, <1>8, <1>9, <1>10 DEF ClientStep

\* The main task takes requests up and answers them in their order.
LEMMA MainMatches ==
  ASSUME TypeOK, TypeOK', AnswersMatch, MainStep
  PROVE  AnswersMatch'
<1> SUFFICES ASSUME ~ClientMayVanish, mpc' # "dead", up'
             PROVE  Pending' = asked'
  BY DEF AnswersMatch
<1> DEFINE a == Kinds(inbox)
           q == Questions(sock)
<1>1. Pending' = Chain(a', InHand', q')
  BY Zenon DEF Pending, Chain
<1>2. /\ a \in Seq(Queries) /\ InHand \in Seq(Queries) /\ q \in Seq(Queries)
      /\ Pending = Chain(a, InHand, q)
  BY PendingIs
<1>3. /\ sock \in Seq(Request) /\ inbox \in Seq(Answer)
      /\ msg \in Request /\ reply \in Answer
  BY DEF TypeOK, MgTypeOK
<1>4. CASE MgRecv
  <2> DEFINE r == Head(sock)
  <2>1. /\ up /\ mpc = "recv" /\ sock # <<>>
        /\ sock' = Tail(sock)
        /\ msg' = r
        /\ mpc' = CASE r.type = "junk"  -> "recv"
                    [] r.type = "radix" -> "reply"
                    [] OTHER            -> "lock"
        /\ reply' = IF r.type = "radix" THEN AnswerTo("radix") ELSE reply
        /\ UNCHANGED <<inbox, asked>>
    BY <1>4 DEF MgRecv, Parsed, shared
  <2>2. /\ Questions(<<r>>) \in Seq(Queries)
        /\ q' \in Seq(Queries)
        /\ q = Questions(<<r>>) \o q'
    BY <2>1, <1>3, QuestionsOfHead
  <2>3. InHand = <<>> /\ asked = Chain(a, <<>>, q)
    BY <2>1, <1>2 DEF InHand, AnswersMatch
  <2> HIDE DEF r
  <2>4. InHand' = Questions(<<r>>)
    <3>1. Questions(<<r>>) = With(<<>>, r)
      BY OneQuestion
    <3>2. CASE r.type = "junk"
      <4>1. mpc' = "recv"
        BY <2>1, <3>2
      <4>2. With(<<>>, r) = <<>>
        BY <3>2 DEF With, Queries
      <4> QED BY <3>1, <4>1, <4>2 DEF InHand
    <3>3. CASE r.type = "radix"
      <4>1. mpc' = "reply" /\ reply'.type = "radix"
        BY <2>1, <3>3 DEF AnswerTo
      <4>2. With(<<>>, r) = <<"radix">>
        BY <3>3 DEF With, Queries
      <4> QED BY <3>1, <4>1, <4>2 DEF InHand
    <3>4. CASE r.type \notin {"junk", "radix"}
      <4>1. mpc' = "lock"
        BY <2>1, <3>4
      <4> QED BY <2>1, <4>1 DEF InHand
    <3> QED BY <3>2, <3>3, <3>4
  <2>5. a' = a
    BY <2>1
  <2> DEFINE q1 == q'
             b  == Questions(<<r>>)
  <2> HIDE DEF a, q, q1, b
  <2>6. Chain(a, <<>>, b \o q1) = Chain(a, b, q1)
    BY <1>2, <2>2, ChainTakes DEF q1, b
  <2> QED BY <1>1, <2>1, <2>2, <2>3, <2>4, <2>5, <2>6, Zenon DEF q1, b
<1>5. CASE MgLock
  <2>1. /\ mpc = "lock" /\ mpc' = "call" /\ UNCHANGED <<msg, sock, inbox, asked, up>>
    BY <1>5 DEF MgLock, Lock
  <2>2. UNCHANGED InHand
    BY <2>1 DEF InHand
  <2>3. UNCHANGED Pending
    BY <2>1, <2>2 DEF Pending
  <2> QED BY <2>1, <2>3 DEF AnswersMatch
<1>6. CASE MgUpdate
  <2>1. /\ up /\ mpc = "call" /\ mpc' = "recv" /\ msg.type \in {"add", "remove"}
        /\ UNCHANGED <<sock, inbox, asked>>
    BY <1>6 DEF MgUpdate, Unlock
  <2>2. InHand = Questions(<<msg>>) /\ InHand' = <<>>
    BY <2>1 DEF InHand
  <2>3. Questions(<<msg>>) = <<>>
    <3>1. msg.type \notin Queries
      BY <2>1 DEF Queries
    <3>2. Questions(<<msg>>) = With(<<>>, msg)
      BY OneQuestion
    <3> QED BY <3>1, <3>2, Zenon DEF With
  <2>4. UNCHANGED Pending
    BY <2>1, <2>2, <2>3 DEF Pending
  <2> QED BY <2>1, <2>4 DEF AnswersMatch
<1>7. CASE MgDump
  <2>1. /\ up /\ mpc = "call" /\ mpc' = "reply" /\ msg.type = "dump"
        /\ reply'.type = "dump"
        /\ UNCHANGED <<sock, inbox, asked>>
    BY <1>7 DEF MgDump, Unlock, AnswerTo
  <2>2. InHand = Questions(<<msg>>) /\ InHand' = <<"dump">>
    BY <2>1 DEF InHand
  <2>3. Questions(<<msg>>) = <<"dump">>
    <3>1. With(<<>>, msg) = <<"dump">>
      BY <2>1 DEF With, Queries
    <3> QED BY <3>1, OneQuestion
  <2>4. UNCHANGED Pending
    BY <2>1, <2>2, <2>3 DEF Pending
  <2> QED BY <2>1, <2>4 DEF AnswersMatch
<1>8. CASE MgReply
  <2>1. /\ up /\ mpc = "reply" /\ mpc' = "recv"
        /\ inbox' = Append(inbox, reply)
        /\ UNCHANGED <<sock, asked>>
    BY <1>8 DEF MgReply, LeaveBlock
  <2>2. InHand = <<reply.type>> /\ InHand' = <<>>
    BY <2>1 DEF InHand
  <2>3. a' = Append(a, reply.type) /\ q' = q
    BY <2>1, <1>3, KindsOfAppend
  <2>4. reply.type \in Queries
    BY <1>3 DEF Answer, Queries
  <2>5. asked = Pending
    BY <2>1 DEF AnswersMatch
  <2> HIDE DEF a, q
  <2>6. Chain(Append(a, reply.type), <<>>, q) = Chain(a, <<reply.type>>, q)
    BY <1>2, <2>4, ChainMoves
  <2> QED BY <1>1, <1>2, <2>1, <2>2, <2>3, <2>5, <2>6, Zenon
<1>9. CASE MgLockIsPoisoned \/ MgCallPanics \/ MgReplyPanics
  BY <1>9 DEF MgLockIsPoisoned, MgCallPanics, MgReplyPanics
<1>10. CASE Exit
  BY <1>10 DEF Exit
<1> QED
  BY <1>4, <1>5, <1>6, <1>7, <1>8, <1>9, <1>10 DEF MainStep

(***************************************************************************)
(* While its clients stay for their answers, the questions on their way,   *)
(* answered, in hand and queued, are exactly those the client still        *)
(* expects an answer to, in the order in which it asked them: no task      *)
(* loses, adds or swaps one, whatever the handlers do.                     *)
(***************************************************************************)
THEOREM AnswersAreMatched == Spec => []AnswersMatch
<1>1. Init => AnswersMatch
  <2> SUFFICES ASSUME Init PROVE Pending = asked
    BY DEF AnswersMatch
  <2>1. mpc = "recv" /\ sock = <<>> /\ inbox = <<>> /\ asked = <<>>
    BY DEF Init, MgInit
  <2>2. Kinds(inbox) = <<>> /\ InHand = <<>> /\ Questions(sock) = <<>>
    BY <2>1, NoKinds, NoQuestions DEF InHand
  <2>3. (<<>> \o <<>>) \o <<>> = <<>>
    OBVIOUS
  <2> QED BY <2>1, <2>2, <2>3, Zenon DEF Pending
<1>2. TypeOK /\ AnswersMatch /\ [Next]_vars => AnswersMatch'
  <2> SUFFICES ASSUME TypeOK, AnswersMatch, [Next]_vars PROVE AnswersMatch'
    OBVIOUS
  <2>1. TypeOK'
    BY StepType
  <2>2. CASE Traffic
    BY <2>2, SameQuestions DEF Traffic, Arrive, shared, mgVars
  <2>3. ASSUME NEW h \in Handlers, Handle(h) PROVE AnswersMatch'
    <3>1. up' => up
      BY <2>3 DEF Handle, HandlerStep, Recv, RecvPanics, AcquireLock,
                  LockIsPoisoned, Process, ProcessPanics, SendPacket,
                  LosePacket, DispatchPanics
    <3>2. UNCHANGED <<mpc, msg, reply, sock, inbox, asked>>
      BY <2>3 DEF Handle, mgVars
    <3> QED BY <3>1, <3>2, SameQuestions
  <2>4. CASE Client
    BY <2>1, <2>4, ClientMatches DEF Client
  <2>5. CASE Manage
    BY <2>1, <2>5, MainMatches DEF Manage
  <2>6. CASE UNCHANGED vars
    BY <2>6, SameQuestions DEF vars, shared, mgVars
  <2> QED BY <2>2, <2>3, <2>4, <2>5, <2>6 DEF Next
<1> QED BY <1>1, <1>2, TypeCorrect, PTL DEF Spec

\* What the client finds at its socket.
AnswersAreExpected ==
  \A i \in 1..Len(inbox) : i \in 1..Len(asked) /\ inbox[i].type = asked[i]

(***************************************************************************)
(* So a client that takes the next answer for that to its oldest open      *)
(* question is right: the answers that wait for it are of the kinds it has *)
(* asked for, in that order, and none comes unasked.                       *)
(***************************************************************************)
THEOREM AnswersCanBeTaken ==
  ASSUME ~ClientMayVanish
  PROVE  Spec => [](mpc # "dead" /\ up => AnswersAreExpected)
<1>1. TypeOK /\ AnswersMatch => (mpc # "dead" /\ up => AnswersAreExpected)
  <2> SUFFICES ASSUME TypeOK, Pending = asked, NEW i \in 1..Len(inbox)
               PROVE  i \in 1..Len(asked) /\ inbox[i].type = asked[i]
    BY DEF AnswersMatch, AnswersAreExpected
  <2> DEFINE a == Kinds(inbox)
             b == InHand
             c == Questions(sock)
  <2>1. inbox \in Seq(Answer)
    BY DEF TypeOK, MgTypeOK
  <2>2. Len(a) = Len(inbox) /\ a[i] = inbox[i].type
    BY <2>1, KindsType
  <2>3. a \in Seq(Queries) /\ b \in Seq(Queries) /\ c \in Seq(Queries)
        /\ asked = (a \o b) \o c
    BY PendingIs, Zenon DEF Chain
  <2> HIDE DEF a, b, c
  <2> DEFINE ab == a \o b
  <2>4. /\ ab \in Seq(Queries) /\ Len(ab) = Len(a) + Len(b)
        /\ \A j \in 1..Len(a) : ab[j] = a[j]
    BY <2>3, ConcatProperties
  <2> HIDE DEF ab
  <2>5. /\ Len(ab \o c) = Len(ab) + Len(c)
        /\ \A j \in 1..Len(ab) : (ab \o c)[j] = ab[j]
    <3>1. ab \in Seq(Queries) /\ c \in Seq(Queries)
      BY <2>3, <2>4, Zenon
    <3> QED BY <3>1, ConcatProperties
  <2>6. Len(a) \in Nat /\ Len(b) \in Nat /\ Len(c) \in Nat
    BY <2>3, LenProperties
  <2>7. i \in 1..Len(a) /\ i \in 1..Len(ab) /\ i \in 1..Len(ab \o c)
    <3>1. \A m, n, l \in Nat : i \in 1..m => i \in 1..(m + n) /\ i \in 1..((m + n) + l)
      OBVIOUS
    <3>2. i \in 1..Len(a)
      BY <2>2
    <3>3. i \in 1..(Len(a) + Len(b)) /\ i \in 1..((Len(a) + Len(b)) + Len(c))
      BY <2>6, <3>1, <3>2, Zenon
    <3>4. Len(ab) = Len(a) + Len(b) /\ Len(ab \o c) = (Len(a) + Len(b)) + Len(c)
      BY <2>4, <2>5, Zenon
    <3> QED BY <3>2, <3>3, <3>4, Zenon
  <2>8. asked = ab \o c
    BY <2>3 DEF ab
  <2> QED BY <2>2, <2>4, <2>5, <2>7, <2>8
<1> QED BY <1>1, AnswersAreMatched, TypeCorrect, PTL

-----------------------------------------------------------------------------
(* The process lives.                                                      *)

\* A client with an open question has its path bound.
AskedIsBound == asked # <<>> => bound

LEMMA AskersAreBound == Spec => []AskedIsBound
<1>1. Init => AskedIsBound
  BY DEF Init, MgInit, AskedIsBound
<1>2. AskedIsBound /\ [Next]_vars => AskedIsBound'
  <2> SUFFICES ASSUME AskedIsBound, [Next]_vars PROVE AskedIsBound'
    OBVIOUS
  <2> USE DEF AskedIsBound
  <2>1. ASSUME UNCHANGED <<asked, bound>> PROVE AskedIsBound'
    BY <2>1
  <2>2. CASE Traffic \/ (\E h \in Handlers : Handle(h)) \/ UNCHANGED vars
    BY <2>1, <2>2 DEF Traffic, Handle, vars, mgVars
  <2>3. CASE Manage
    BY <2>1, <2>3 DEF Manage, MainStep, MgRecv, MgLock, MgLockIsPoisoned,
                      MgUpdate, MgCallPanics, MgDump, MgReply, MgReplyPanics,
                      Exit, mgVars
  <2>4. CASE Client
    BY <2>4 DEF Client, ClientStep, ClientBind, ClientSend, ClientRead, ClientLeave
  <2> QED BY <2>2, <2>3, <2>4 DEF Next
<1> QED BY <1>1, <1>2, PTL DEF Spec

\* With good clients an answer in hand can be sent.
LEMMA GoodAnswersAreSent ==
  ASSUME TypeOK, AnswersMatch, AskedIsBound, GoodClients, up, mpc = "reply"
  PROVE  Sendable
<1>1. reply \in Answer
  BY DEF TypeOK, MgTypeOK
<1>2. reply.type \in Queries
  BY <1>1 DEF Answer, Queries
<1>3. InHand = <<reply.type>> /\ asked = Pending
  BY DEF InHand, AnswersMatch, GoodClients
<1>4. Chain(Kinds(inbox), <<reply.type>>, Questions(sock)) # <<>>
  BY <1>2, PendingIs, ChainOfSome
<1>5. asked # <<>>
  BY <1>3, <1>4, PendingIs, Zenon
<1>6. ASSUME reply.type = "dump" PROVE Cardinality(reply.entries) <= DumpLimit
  <2>1. reply.entries \subseteq Keys
    BY <1>1, <1>6 DEF Answer
  <2>2. /\ Cardinality(reply.entries) <= Cardinality(Keys)
        /\ IsFiniteSet(reply.entries) /\ IsFiniteSet(Keys)
    BY <2>1, ManagementAssumption, FS_Subset
  <2>3. Cardinality(reply.entries) \in Nat /\ Cardinality(Keys) \in Nat
    BY <2>2, FS_CardinalityType
  <2>4. Cardinality(Keys) <= DumpLimit /\ DumpLimit \in Nat
    BY ManagementAssumption DEF GoodClients
  <2> QED BY <2>2, <2>3, <2>4
<1> QED BY <1>5, <1>6 DEF Sendable, AskedIsBound

(***************************************************************************)
(* With a pipeline that does not panic, clients that stay for their        *)
(* answers and tables whose dump fits a datagram, the management loop and  *)
(* the process never die: not of a handler's death, of any frame, of any   *)
(* order of binding, asking, reading and leaving.                          *)
(***************************************************************************)
THEOREM ProcessSurvives == Spec => []ProcessLives
<1>1. Init => ProcessLives
  BY DEF Init, SharedInit, MgInit, ProcessLives
<1>2. TypeOK /\ OnlyThePipelinePoisons /\ AnswersMatch /\ AskedIsBound
        /\ ProcessLives /\ [Next]_vars => ProcessLives'
  <2> SUFFICES ASSUME TypeOK, OnlyThePipelinePoisons, AnswersMatch, AskedIsBound,
                      GoodClients, up, mpc # "dead", [Next]_vars
               PROVE  up' /\ mpc' # "dead"
    BY DEF ProcessLives, GoodClients
  <2>1. ~poisoned /\ ~PipelineMayPanic /\ ~CallMayPanic
    BY DEF OnlyThePipelinePoisons, GoodClients
  <2>2. CASE Traffic
    BY <2>2 DEF Traffic, Arrive, shared, mgVars
  <2>3. ASSUME NEW h \in Handlers, Handle(h) PROVE up' /\ mpc' # "dead"
    BY <2>1, <2>3
    DEF Handle, mgVars, HandlerStep, Recv, RecvPanics, AcquireLock,
        LockIsPoisoned, Process, ProcessPanics, SendPacket, LosePacket,
        DispatchPanics, Sent, Lock, LockPanics, Unlock, LeaveBlock, Unwind, shared
  <2>4. CASE Client
    BY <2>4 DEF Client, ClientStep, ClientBind, ClientSend, ClientRead,
                ClientLeave, shared
  <2>5. CASE Manage
    <3>1. mpc = "reply" => Sendable
      BY GoodAnswersAreSent
    <3> QED
      BY <2>1, <2>5, <3>1
      DEF Manage, MainStep, MgRecv, MgLock, MgLockIsPoisoned, MgUpdate,
          MgCallPanics, MgDump, MgReply, MgReplyPanics, Exit, Lock, LockPanics,
          Unlock, LeaveBlock, shared
  <2>6. CASE UNCHANGED vars
    BY <2>6 DEF vars, shared, mgVars
  <2> QED BY <2>2, <2>3, <2>4, <2>5, <2>6 DEF Next
<1> QED
  BY <1>1, <1>2, TypeCorrect, FaultsDoNotPoison, AnswersAreMatched,
     AskersAreBound, PTL DEF Spec

=============================================================================
