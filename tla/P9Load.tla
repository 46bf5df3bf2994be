------------------------------- MODULE P9Load -------------------------------
(***************************************************************************)
(* load_program (client/src/p9.rs): runs of a program in a guest, one      *)
(* after the other, that find the device of the ASIC emulator among those  *)
(* of the guest and write a P4 program to it, a 9P message at a time.      *)
(*                                                                         *)
(* External: the devices, and the server behind each, which stores what it *)
(* is sent at the offset it is sent for and runs it at the clunk.  Byte x  *)
(* of the program of run n is <<n, x>>.                                    *)
(***************************************************************************)
EXTENDS Integers, FiniteSets

CONSTANTS
  MSIZE,    \* the longest message: 0x10000
  HEADER,   \* how much of it a Twrite takes beside its data: 23
  Devices,  \* the devices of the guest
  NoDev,    \* none of them
  Kind,     \* Kind[d]: what load_program finds out about device d
  Servers,  \* what servers may do
  Sizes,    \* the sizes of programs
  MaxLoads  \* bound: runs

P9Kind == [virtio9p: BOOLEAN, address: BOOLEAN, p4: BOOLEAN]

\* Whether a server takes all of every write, whether a new session makes it
\* forget what it has stored, whether nothing fails, and its own msize.
Server == [whole: BOOLEAN, fresh: BOOLEAN, sound: BOOLEAN, msize: Nat]

ASSUME P9Assumption ==
  /\ MSIZE \in Nat /\ HEADER \in Nat /\ HEADER < MSIZE
  /\ IsFiniteSet(Devices) /\ NoDev \notin Devices
  /\ Kind \in [Devices -> P9Kind]
  /\ Servers \subseteq Server
  /\ Sizes \subseteq Nat
  /\ MaxLoads \in Nat

VARIABLES
  lpc,     \* where the run is, or how the last one ended
  load,    \* its number
  tried,   \* the devices it has looked at
  dev,     \* the one it has found
  i,       \* the offset it has got to
  bar,     \* the position of the progress bar
  size,    \* the size of the program of each run; never changes
  server,  \* what the servers do; never changes
  stored,  \* stored[d]: the bytes behind device d
  running  \* running[d]: the program that runs behind it

p9vars == <<lpc, load, tried, dev, i, bar, size, server, stored, running>>

Loading   == {"find", "write", "clunk"}
LoadEnded == {"idle", "done", "failed", "killed"}
Runs      == 1..MaxLoads

\* Slip: one more than fits a message.
StrideTooLong == MSIZE - HEADER + 1

STRIDE == MSIZE - HEADER

Hole   == <<0, 0>>
Blank  == [x \in {} |-> Hole]

\* What is stored once the bytes from..(from + n - 1) of run k's program have
\* been written at offset at.
Written(bytes, k, from, at, n) ==
  LET place == at..(at + n - 1)
  IN [x \in DOMAIN bytes \cup place |->
        IF x \in place THEN <<k, from + (x - at)>> ELSE bytes[x]]

Whole(bytes, k) == \A x \in 0..(size[k] - 1) :
  x \in DOMAIN bytes /\ bytes[x] = <<k, x>>

P9Init ==
  /\ lpc = "idle" /\ load = 0 /\ tried = {} /\ dev = NoDev /\ i = 0 /\ bar = 0
  /\ size \in [Runs -> Sizes]
  /\ server \in Servers
  /\ stored = [d \in Devices |-> Blank]
  /\ running = [d \in Devices |-> Blank]

\* The run ends, with nothing undone.
Finish(how) ==
  /\ lpc' = how
  /\ UNCHANGED <<load, tried, dev, i, bar, size, server>>

-----------------------------------------------------------------------------
BeginLoad ==
  /\ lpc \in LoadEnded
  /\ load < MaxLoads
  /\ load' = load + 1
  /\ lpc' = "find"
  /\ tried' = {} /\ dev' = NoDev /\ i' = 0 /\ bar' = 0
  /\ UNCHANGED <<size, server, stored, running>>

Candidate(d) == Kind[d].virtio9p /\ Kind[d].address

\* A device of another kind, or one that speaks another version of 9P.
Skip(d) ==
  /\ lpc = "find"
  /\ d \notin tried
  /\ ~(Candidate(d) /\ Kind[d].p4)
  /\ tried' = tried \cup {d}
  /\ UNCHANGED <<lpc, load, dev, i, bar, size, server, stored, running>>

\* A new session with the server, and from here on with no other.
Opened(d) ==
  /\ dev' = d
  /\ lpc' = "write"
  /\ stored' = IF server.fresh THEN [stored EXCEPT ![d] = Blank] ELSE stored
  /\ UNCHANGED <<load, tried, i, bar, size, server, running>>

Find(d) ==
  /\ lpc = "find"
  /\ d \notin tried
  /\ Candidate(d) /\ Kind[d].p4
  /\ Opened(d)

\* All have been looked at; or one did not answer, which is unwrapped.
FindFails ==
  /\ lpc = "find"
  /\ tried = Devices \/ ~server.sound
  /\ Finish("failed")
  /\ UNCHANGED <<stored, running>>

Total == size[load]
Chunk == IF i + STRIDE < Total THEN STRIDE ELSE Total - i

\* On to the offset next, or out of the loop; there the bar is finished, which
\* fills it whatever it showed.
GoOn(next, shown, over) ==
  /\ i' = next
  /\ bar' = IF over THEN Total ELSE bar + shown
  /\ lpc' = IF over THEN "clunk" ELSE "write"

\* Slip: on from the end of the chunk, and not done there.
AdvanceToEnd(count) == GoOn(i + Chunk, count, i + Chunk > Total)

\* Slip: the bar shows what was sent.
AdvanceSent(count) == GoOn(i + STRIDE, Chunk, i + STRIDE >= Total)

\* Slip: i > end.
AdvancePastEnd(count) == GoOn(i + STRIDE, count, i + STRIDE > Total)

Advance(count) == GoOn(i + STRIDE, count, i + STRIDE >= Total)

\* A Twrite and the answer to it, with the number of bytes taken.
Write(count) ==
  /\ lpc = "write"
  /\ HEADER + Chunk <= server.msize
  /\ count = Chunk \/ (~server.whole /\ count \in 0..Chunk)
  /\ stored' = [stored EXCEPT ![dev] = Written(@, load, i, i, count)]
  /\ Advance(count)
  /\ UNCHANGED <<load, tried, dev, size, server, running>>

\* Slip: the error is not returned before the clunk.
WriteFailsToClunk ==
  /\ lpc = "write"
  /\ ~server.sound \/ HEADER + Chunk > server.msize
  /\ Finish("clunk")
  /\ UNCHANGED <<stored, running>>

\* The message is refused for its size, or an answer is missing; then the
\* server may have got the message all the same.
WriteFails ==
  /\ lpc = "write"
  /\ \/ HEADER + Chunk > server.msize /\ UNCHANGED stored
     \/ ~server.sound /\ UNCHANGED stored
     \/ ~server.sound /\ stored' = [stored EXCEPT ![dev] = Written(@, load, i, i, Chunk)]
  /\ Finish("failed")
  /\ UNCHANGED running

Clunk ==
  /\ lpc = "clunk"
  /\ running' = [running EXCEPT ![dev] = stored[dev]]
  /\ Finish("done")
  /\ UNCHANGED stored

\* Here, too, the server may have got the message.
ClunkFails ==
  /\ lpc = "clunk"
  /\ ~server.sound
  /\ \/ running' = [running EXCEPT ![dev] = stored[dev]]
     \/ UNCHANGED running
  /\ Finish("failed")
  /\ UNCHANGED stored

KillLoad ==
  /\ lpc \in Loading
  /\ Finish("killed")
  /\ UNCHANGED <<stored, running>>

LoadStep ==
  \/ \E d \in Devices : Skip(d) \/ Find(d)
  \/ FindFails
  \/ \E count \in 0..STRIDE : Write(count)
  \/ WriteFails
  \/ Clunk
  \/ ClunkFails

P9Next == BeginLoad \/ LoadStep \/ KillLoad

\* Every message is answered, or its error returned.
P9Spec == P9Init /\ [][P9Next]_p9vars /\ WF_p9vars(LoadStep)

-----------------------------------------------------------------------------
Bytes == Runs \X Nat

\* Something is behind every device: bytes at some offsets.
Behind(f) ==
  /\ DOMAIN f = Devices
  /\ \A d \in Devices : \A x \in DOMAIN f[d] : x \in Nat /\ f[d][x] \in Bytes

P9TypeOK ==
  /\ lpc \in Loading \cup LoadEnded
  /\ load \in 0..MaxLoads
  /\ tried \subseteq Devices
  /\ dev \in Devices \cup {NoDev}
  /\ {i, bar} \subseteq Nat
  /\ size \in [Runs -> Sizes]
  /\ server \in Servers
  /\ Behind(stored) /\ Behind(running)
  /\ lpc \in Loading => load \in Runs
  /\ lpc \in {"write", "clunk"} => dev \in Devices
  /\ lpc = "write" => i < Total \/ i = 0

(***************************************************************************)
(* A program runs only when all of it has been written: a load that fails, *)
(* or is killed, at any point leaves what ran before.  So it is with a     *)
(* server that takes all of every write; of what is in the server beyond   *)
(* the end of a program, the load knows nothing.                           *)
(***************************************************************************)
RunsWholePrograms ==
  server.whole => \A d \in Devices :
    running[d] # Blank => \E k \in 1..load : Whole(running[d], k)

(***************************************************************************)
(* A server may take less of a write than it was sent: the rest is never   *)
(* sent again, and the load reports that it is done.  Up to its last write *)
(* the bar tells: a load that has not got to its end, be it still under    *)
(* way or broken off, has a bar that keeps up with the offset only if      *)
(* every byte before it has been stored at its place.  (At the end the bar *)
(* is filled, and tells nothing any more.)                                 *)
(***************************************************************************)
BarTellsWhatIsStored ==
  (load \in Runs /\ i < Total /\ bar = i) =>
    \A x \in 0..(i - 1) : x \in DOMAIN stored[dev] /\ stored[dev][x] = <<load, x>>

(***************************************************************************)
(* Every message fits the msize the client has announced: a server that    *)
(* agrees to it, and answers, is loaded.                                   *)
(***************************************************************************)
SoundLoadsSucceed ==
  (/\ server.sound /\ server.msize = MSIZE
   /\ \E d \in Devices : Candidate(d) /\ Kind[d].p4) => lpc # "failed"

(***************************************************************************)
(* A load comes to its end, however little the server takes of each write. *)
(***************************************************************************)
LoadEnds == lpc \in Loading ~> lpc \in LoadEnded

=============================================================================
