------------------------------- MODULE SoftNpu -------------------------------
(***************************************************************************)
(* The softnpu process: the packet handlers of every port and the          *)
(* management loop, tasks of one multi-threaded runtime that share the     *)
(* pipeline and its mutex and nothing else.                                *)
(***************************************************************************)
EXTENDS DataPlane, Management

vars == <<shared, dpVars, mgVars>>

Init == SharedInit /\ DPInit /\ MgInit

Traffic == \E h \in Handlers, n \in FrameLens : Arrive(h, n) /\ UNCHANGED mgVars
Handle(h) == HandlerStep(h) /\ UNCHANGED mgVars
Client    == ClientStep /\ UNCHANGED dpVars
Manage    == MainStep /\ UNCHANGED dpVars

Next ==
  \/ Traffic
  \/ \E h \in Handlers : Handle(h)
  \/ Client
  \/ Manage

(***************************************************************************)
(* Every task is polled again once it can go on, and a call into the       *)
(* pipeline returns, panics or aborts.  Nothing is assumed of the network, *)
(* of the host or of the clients.                                          *)
(***************************************************************************)
Fairness ==
  /\ \A h \in Handlers : WF_vars(Handle(h))
  /\ WF_vars(Manage)

Spec == Init /\ [][Next]_vars /\ Fairness

\* What only some clients do: go on reading their answers.
ReadingClient == WF_vars(ClientRead /\ UNCHANGED dpVars)

-----------------------------------------------------------------------------
\* The types of the variables, of all three parts.
TypeOK == SharedTypeOK /\ DPTypeOK /\ MgTypeOK

(***************************************************************************)
(* A task holds the guard while it is in a call into the pipeline, and at  *)
(* no other point: never while it waits for a frame, for a request or for  *)
(* a client to take an answer, and never while it dispatches packets.      *)
(***************************************************************************)
NoGuardAcrossAwait ==
  up => /\ \A h \in Handlers : holder = h <=> pc[h] = "call"
        /\ holder = Main <=> mpc = "call"

\* Nobody can hold the guard of a poisoned mutex.
PoisonedIsFree == poisoned => holder = NoTask

\* The invariant the proofs start from.
IInv == TypeOK /\ NoGuardAcrossAwait /\ PoisonedIsFree

(***************************************************************************)
(* Only a panic inside the pipeline reaches the mutex: whatever dies for a *)
(* short header, a frame too long or a client that went away, the tasks    *)
(* that are left can use the pipeline.                                     *)
(***************************************************************************)
OnlyThePipelinePoisons == (~PipelineMayPanic /\ ~CallMayPanic) => ~poisoned

\* A frame from the host that leaves the sidecar header no room in the buffer
\* of its port, and a packet for the CPU port without a whole one.
TooLong(h, f) == f.len + SidecarHdr > Mtu[h[2]] + L2_HEADROOM
TooShort(o)   == o.port = 0 /\ o.hlen < EthHdr + SidecarHdr

(***************************************************************************)
(* With a pipeline that does not panic, a packet handler dies only of what *)
(* it was given itself: of a header cut short on the way from the network, *)
(* of a frame too long for its own port on the way from the host.          *)
(* Whatever kills the others and the main task, before or after, in the    *)
(* midst of whatever they share, and whatever the clients do, the rest of  *)
(* the handlers go on.                                                     *)
(***************************************************************************)
EachDiesOfItsOwn ==
  (~PipelineMayPanic /\ ~CallMayPanic) =>
    \A h \in Handlers : pc[h] = "dead" =>
      \/ h[1] = "ingress" /\ outq[h] # <<>> /\ TooShort(Head(outq[h]))
      \/ h[1] = "egress"  /\ TooLong(h, pkt[h])

(***************************************************************************)
(* With clients that wait for their answers, answers of a size that fits   *)
(* and a pipeline that does not panic, the management loop, and with it    *)
(* the process, lives for ever, whatever frames kill packet handlers.      *)
(***************************************************************************)
GoodClients ==
  /\ ~PipelineMayPanic
  /\ ~CallMayPanic
  /\ ~ClientMayVanish
  /\ Cardinality(Keys) <= DumpLimit

ProcessLives == GoodClients => up /\ mpc # "dead"

(***************************************************************************)
(* Answers carry no request number: what tells a client which of its       *)
(* questions an answer is for is that exactly the questions it asked are   *)
(* on their way, as answers and as requests, in the order it asked them.   *)
(* So it is for clients that do not leave before their last answer.        *)
(***************************************************************************)
Kinds(s) == [i \in DOMAIN s |-> s[i].type]

\* The questions among the requests s.
Questions(s) ==
  LET upTo[i \in 0..Len(s)] ==
        IF i = 0 THEN <<>>
        ELSE IF s[i].type \in Queries THEN Append(upTo[i - 1], s[i].type)
        ELSE upTo[i - 1]
  IN upTo[Len(s)]

InHand  == CASE mpc = "reply"           -> <<reply.type>>
             [] mpc \in {"lock", "call"} -> Questions(<<msg>>)
             [] OTHER                   -> <<>>
Pending == Kinds(inbox) \o InHand \o Questions(sock)

AnswersMatch == (~ClientMayVanish /\ mpc # "dead" /\ up) => Pending = asked

(***************************************************************************)
(* The radix a client is told is the number of the last front port: the    *)
(* egress ports from 1 up to it are exactly those packets are forwarded    *)
(* to.  (The pipeline is created with one more, for the CPU port.)         *)
(***************************************************************************)
RadixIsTheLastPort ==
  \A i \in 1..Len(inbox) : inbox[i].type = "radix" =>
    \A p \in 1..(NumPorts + 1) : p <= inbox[i].radix <=> ExtDest(p) # Dropped

(***************************************************************************)
(* The management loop comes back to its receive, whatever the packet      *)
(* handlers and the pipeline do, unless the process exits; only a client   *)
(* that does not read its answers can hold it up.                          *)
(***************************************************************************)
OnlyTheClientHoldsUp ==
  (mpc # "recv") ~> (mpc = "recv" \/ ~up \/ Len(inbox) = ClientCap)

(***************************************************************************)
(* With a client that reads its answers, every request that is sent is     *)
(* taken up, or the process exits.                                         *)
(***************************************************************************)
RequestsDrain ==
  ReadingClient => ((sock # <<>>) ~> (sock = <<>> \/ ~up))

-----------------------------------------------------------------------------
(***************************************************************************)
(* The management interface keeps the promise of ControlPlane: the request *)
(* in hand is still queued until its effect on the tables, or its answer,  *)
(* has been decided; the answer in hand is already on its way.             *)
(***************************************************************************)
Serving  == up /\ mpc # "dead"
Taken    == IF mpc \in {"lock", "call"} THEN <<msg>> ELSE <<>>
Queued   == IF Serving THEN Taken \o sock ELSE <<>>
Answered == inbox \o (IF mpc = "reply" THEN <<reply>> ELSE <<>>)

CP == INSTANCE ControlPlane WITH
        Radix <- NumPorts, alive <- Serving, queue <- Queued, answers <- Answered

ServesInOrder == CP!ControlPlaneSpec

=============================================================================
