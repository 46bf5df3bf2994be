------------------------------ MODULE DataPlane ------------------------------
(***************************************************************************)
(* The packet handlers of client/src/bin/softnpu.rs: per port, an ingress  *)
(* task that reads the sidecar link (frames from the network) and an       *)
(* egress task that reads the scrimlet link (frames from the host).  Each  *)
(* takes a frame, runs it through the shared pipeline under the mutex, and *)
(* sends what the pipeline emitted after it dropped the guard.             *)
(*                                                                         *)
(* A frame is its identity and its length.  The P4 program is external: it *)
(* may emit any of Verdicts, and it may panic if PipelineMayPanic.  A      *)
(* receive error is logged and the loop goes round: it is a stuttering     *)
(* step.                                                                   *)
(***************************************************************************)
EXTENDS SharedPipeline

CONSTANTS
  Mtu,              \* switch.ports[i].mtu, a function of the port
  FrameLens,        \* the lengths of the frames that arrive
  Verdicts,         \* what the P4 program may emit for a packet
  PipelineMayPanic, \* whether a call into the pipeline may panic
  MaxOut,           \* bound: packets emitted for one frame
  MaxFrames         \* bound: frames that arrive

L2_HEADROOM == 20
EthHdr      == 14
SidecarHdr  == 24

\* An emitted packet: the egress port, the length of header_data and the
\* sc_egress field its bytes 16 and 17 hold.
Verdict == [port: U16, hlen: Nat, sc: U16]

\* DLPI delivers whole layer 2 frames, never less than their header.
ASSUME DataPlaneAssumption ==
  /\ Mtu \in [Ports -> Nat]
  /\ FrameLens \subseteq {n \in Nat : n >= EthHdr}
  /\ Verdicts \subseteq Verdict
  /\ PipelineMayPanic \in BOOLEAN
  /\ MaxOut \in Nat
  /\ MaxFrames \in Nat

VARIABLES
  pc,       \* where each handler is: "recv", "lock", "call", "send", "dead"
  pkt,      \* the frame a handler holds between recv and the call
  outq,     \* the packets a handler has yet to send
            \* (history: of a dead handler, both as they were when it died)
  rx,       \* the frames waiting at the link a handler reads
  tx,       \* history: what was sent on each link
  arrived   \* the number of frames that have arrived, to name the next one

dpVars == <<pc, pkt, outq, rx, tx, arrived>>

Links   == {"sidecar", "scrimlet"} \X Ports
NoFrame == [id |-> 0, len |-> 0]
Frame   == [id: Nat, len: Nat]

\* A packet on its way out: the handler and frame it comes from, its place
\* among the packets emitted for that frame, and the verdict.
Packet == [src: Handlers, id: Nat, k: Nat,
           port: U16, hlen: Nat, sc: U16]

\* Slip: the mtu of the first port for all.
BufLenOfOne(h) == Mtu[1] + L2_HEADROOM

\* The size of the buffers msg and frame: mtu + L2_HEADROOM.
BufLen(h) == Mtu[h[2]] + L2_HEADROOM

\* A frame fits the buffer it was read into, and a handler that sends has
\* something to send.
DPTypeOK ==
  /\ pc      \in [Handlers -> {"recv", "lock", "call", "send", "dead"}]
  /\ pkt     \in [Handlers -> Frame]
  /\ outq    \in [Handlers -> Seq(Packet)]
  /\ rx      \in [Handlers -> Seq(Frame)]
  /\ tx      \in [Links -> Seq(Packet)]
  /\ arrived \in 0..MaxFrames
  /\ \A h \in Handlers : /\ pkt[h].len <= BufLen(h)
                         /\ pc[h] = "send" => outq[h] # <<>>

DPInit ==
  /\ pc      = [h \in Handlers |-> "recv"]
  /\ pkt     = [h \in Handlers |-> NoFrame]
  /\ outq    = [h \in Handlers |-> <<>>]
  /\ rx      = [h \in Handlers |-> <<>>]
  /\ tx      = [l \in Links |-> <<>>]
  /\ arrived = 0

-----------------------------------------------------------------------------
(* Receiving a frame.                                                      *)

\* Slip: n is the length of the message on the link, from recvinfo.
ReceivedUncut(h, f) == f

\* recv_async fills msg and no more: a longer frame is cut off.
Received(h, f) ==
  [f EXCEPT !.len = IF f.len <= BufLen(h) THEN f.len ELSE BufLen(h)]

\* The slices of the egress handler are in range.  The last one ends at
\* n + 24, which no index before it exceeds.
Encapsulates(h, f) == f.len + SidecarHdr <= BufLen(h)

\* Frames arrive from the network and from the host.
Arrive(h, n) ==
  /\ up
  /\ arrived < MaxFrames
  /\ arrived' = arrived + 1
  /\ rx' = [rx EXCEPT ![h] = Append(@, [id |-> arrived + 1, len |-> n])]
  /\ UNCHANGED <<pc, pkt, outq, tx>>
  /\ UNCHANGED shared

\* The frame is passed on, with room for the sidecar header in the egress
\* handler.
Recv(h) ==
  /\ up
  /\ pc[h] = "recv"
  /\ rx[h] # <<>>
  /\ rx' = [rx EXCEPT ![h] = Tail(@)]
  /\ LET f == Received(h, Head(rx[h])) IN
       /\ h[1] = "egress" => Encapsulates(h, f)
       /\ pkt' = [pkt EXCEPT ![h] = f]
  /\ pc' = [pc EXCEPT ![h] = "lock"]
  /\ UNCHANGED <<outq, tx, arrived>>
  /\ UNCHANGED shared

\* A slice is out of range: the egress handler panics.
RecvPanics(h) ==
  /\ up
  /\ pc[h] = "recv"
  /\ rx[h] # <<>>
  /\ h[1] = "egress"
  /\ ~Encapsulates(h, Received(h, Head(rx[h])))
  /\ rx' = [rx EXCEPT ![h] = Tail(@)]
  /\ pkt' = [pkt EXCEPT ![h] = Received(h, Head(rx[h]))]
  /\ pc' = [pc EXCEPT ![h] = "dead"]
  /\ Unwind(h)
  /\ UNCHANGED <<outq, tx, arrived>>

-----------------------------------------------------------------------------
(* The critical section: pl.process_packet(index, &mut pkt).               *)

AcquireLock(h) ==
  /\ up
  /\ pc[h] = "lock"
  /\ Lock(h)
  /\ pc' = [pc EXCEPT ![h] = "call"]
  /\ UNCHANGED <<pkt, outq, rx, tx, arrived>>

LockIsPoisoned(h) ==
  /\ up
  /\ pc[h] = "lock"
  /\ LockPanics
  /\ pc' = [pc EXCEPT ![h] = "dead"]
  /\ UNCHANGED <<pkt, outq, rx, tx, arrived>>

\* What process_packet may return for the frame handler h holds.
VerdictSeqs == UNION {[1..n -> Verdicts] : n \in 0..MaxOut}

Emitted(h, vs) ==
  [k \in DOMAIN vs |->
     [src |-> h, id |-> pkt[h].id, k |-> k,
      port |-> vs[k].port, hlen |-> vs[k].hlen, sc |-> vs[k].sc]]

\* The handler goes on with its output, or with the next frame.
Continue(q) == IF q = <<>> THEN "recv" ELSE "send"

\* Slip: for (..) in pipeline.lock().unwrap().process_packet(..) keeps the
\* guard, a temporary of the loop's head, to the end of the loop, where the
\* output has been dispatched.
ProcessHoldingGuard(h) ==
  /\ up
  /\ pc[h] = "call"
  /\ \E vs \in VerdictSeqs :
       /\ outq' = [outq EXCEPT ![h] = Emitted(h, vs)]
       /\ pc'   = [pc EXCEPT ![h] = Continue(vs)]
       /\ IF vs = <<>> THEN LeaveBlock(h) ELSE UNCHANGED shared
  /\ pkt' = [pkt EXCEPT ![h] = NoFrame]
  /\ UNCHANGED <<rx, tx, arrived>>

Process(h) ==
  /\ up
  /\ pc[h] = "call"
  /\ Unlock(h)
  /\ UNCHANGED tables
  /\ \E vs \in VerdictSeqs :
       /\ outq' = [outq EXCEPT ![h] = Emitted(h, vs)]
       /\ pc'   = [pc EXCEPT ![h] = Continue(vs)]
  /\ pkt' = [pkt EXCEPT ![h] = NoFrame]
  /\ UNCHANGED <<rx, tx, arrived>>

ProcessPanics(h) ==
  /\ up
  /\ PipelineMayPanic
  /\ pc[h] = "call"
  /\ CallPanics(h)
  /\ pc' = [pc EXCEPT ![h] = "dead"]
  /\ UNCHANGED <<pkt, outq, rx, tx, arrived>>

-----------------------------------------------------------------------------
(* Dispatching what the pipeline emitted, with the guard dropped.          *)

Dropped == <<"dropped", 0>>
Panics  == <<"panics", 0>>

\* handle_packet_to_ext_port: port 0 underflows checked_sub and is dropped.
ExtDest(p) == IF p \in Ports THEN <<"sidecar", p>> ELSE Dropped

\* handle_packet_to_cpu_port, in the order it reads header_data: bytes 16
\* and 17, then, for a port in range, bytes 20 and 21 and the tail from 38.
CpuDest(o) ==
  CASE o.hlen < 18                               -> Panics
    [] o.hlen >= 18 /\ o.sc \notin Ports         -> Dropped
    [] o.hlen \in 18..37 /\ o.sc \in Ports       -> Panics
    [] o.hlen >= 38 /\ o.sc \in Ports            -> <<"scrimlet", o.sc>>

\* Slip: internal packets dispatched by the handler of external ones.
DestReflecting(h, o) == IF o.port = 0 THEN CpuDest(o) ELSE ExtDest(o.port)

\* handle_external_packet and handle_internal_packet: only a packet from the
\* network may go to the CPU port.
Dest(h, o) ==
  CASE o.port # 0                       -> ExtDest(o.port)
    [] o.port = 0 /\ h[1] = "ingress"   -> CpuDest(o)
    [] o.port = 0 /\ h[1] = "egress"    -> Dropped

\* Slip: a packet that could not be sent is put back, to be tried again.
SentRetrying(h) ==
  \E q \in {Tail(outq[h]), Append(Tail(outq[h]), Head(outq[h]))} :
    /\ outq' = [outq EXCEPT ![h] = q]
    /\ pc'   = [pc EXCEPT ![h] = Continue(q)]
    /\ IF q = <<>> THEN LeaveBlock(h) ELSE UNCHANGED shared

\* The loop over the output goes on after a packet, whatever became of it,
\* and ends after the last.
Sent(h) ==
  LET q == Tail(outq[h]) IN
    /\ outq' = [outq EXCEPT ![h] = q]
    /\ pc'   = [pc EXCEPT ![h] = Continue(q)]
    /\ IF q = <<>> THEN LeaveBlock(h) ELSE UNCHANGED shared

SendPacket(h) ==
  /\ up
  /\ pc[h] = "send"
  /\ Dest(h, Head(outq[h])) \in Links
  /\ LET l == Dest(h, Head(outq[h])) IN
       tx' = [tx EXCEPT ![l] = Append(@, Head(outq[h]))]
  /\ Sent(h)
  /\ UNCHANGED <<pkt, rx, arrived>>

\* The destination is out of range, or dlpi::send fails: either is logged.
LosePacket(h) ==
  /\ up
  /\ pc[h] = "send"
  /\ Dest(h, Head(outq[h])) # Panics
  /\ Sent(h)
  /\ UNCHANGED <<pkt, rx, tx, arrived>>

\* header_data is shorter than the sidecar header: the task panics, outside
\* the critical section.
DispatchPanics(h) ==
  /\ up
  /\ pc[h] = "send"
  /\ Dest(h, Head(outq[h])) = Panics
  /\ pc' = [pc EXCEPT ![h] = "dead"]
  /\ Unwind(h)
  /\ UNCHANGED <<pkt, outq, rx, tx, arrived>>

-----------------------------------------------------------------------------
HandlerStep(h) ==
  \/ Recv(h)
  \/ RecvPanics(h)
  \/ AcquireLock(h)
  \/ LockIsPoisoned(h)
  \/ Process(h)
  \/ ProcessPanics(h)
  \/ SendPacket(h)
  \/ LosePacket(h)
  \/ DispatchPanics(h)

DPNext ==
  \/ \E h \in Handlers, n \in FrameLens : Arrive(h, n)
  \/ \E h \in Handlers : HandlerStep(h)

-----------------------------------------------------------------------------
(***************************************************************************)
(* A packet leaves only where its verdict says: on the sidecar link of its *)
(* egress port, or, for CPU packets with a whole sidecar header, on the    *)
(* scrimlet link of sc_egress; and a packet from the host is never         *)
(* delivered back to the host.                                             *)
(***************************************************************************)
RightLink ==
  \A l \in Links : \A j \in 1..Len(tx[l]) :
    LET o == tx[l][j] IN
      \/ l = <<"sidecar", o.port>>
      \/ /\ l = <<"scrimlet", o.sc>>
         /\ o.port = 0
         /\ o.hlen >= 38
         /\ o.src[1] = "ingress"

\* o was emitted before p: for an earlier frame, or earlier for the same one.
Before(o, p) == o.id < p.id \/ (o.id = p.id /\ o.k < p.k)

(***************************************************************************)
(* No reordering, no duplicate: of the packets one handler puts on a link, *)
(* each was emitted before the next, whatever the other handlers send in   *)
(* between, and whatever send errors and drops there are.                  *)
(***************************************************************************)
PerPortOrder ==
  \A l \in Links : \A j \in 1..Len(tx[l]) : \A i \in 1..(j - 1) :
    tx[l][i].src = tx[l][j].src => Before(tx[l][i], tx[l][j])

(***************************************************************************)
(* A handler that has a frame gets back to its receive, or dies: it never  *)
(* waits for ever, for the mutex or in its output, whatever the others do. *)
(***************************************************************************)
HandlersReturn ==
  \A h \in Handlers :
    (pc[h] \in {"lock", "call", "send"}) ~> (pc[h] \in {"recv", "dead"} \/ ~up)

(***************************************************************************)
(* Every frame from the host that the link lets through (a full MTU after  *)
(* the Ethernet header) gets into the pipeline: no egress handler dies     *)
(* unless the pipeline itself may panic.  client/src/bin/softnpu.rs does   *)
(* not keep this: its buffer has room for L2_HEADROOM = 20 bytes besides   *)
(* the MTU, and the headers it writes take EthHdr + SidecarHdr = 38.       *)
(***************************************************************************)
HostFramesGetIn ==
  (~PipelineMayPanic /\ \A n \in FrameLens, p \in Ports : n <= Mtu[p] + EthHdr)
    => \A h \in Handlers : h[1] = "egress" => pc[h] # "dead"

=============================================================================
