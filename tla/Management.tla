----------------------------- MODULE Management -----------------------------
(***************************************************************************)
(* The management interface: the loop at the end of run()                  *)
(* (client/src/bin/softnpu.rs) and handle_management_message               *)
(* (lib/src/lib.rs).  It is the main task: when it panics, the process     *)
(* exits.  Requests come in on the datagram socket <uds_path>/server;      *)
(* answers go to the one fixed path <uds_path>/client, whoever has bound   *)
(* it by then.                                                             *)
(*                                                                         *)
(* The client is external: it binds its path, sends requests, reads the    *)
(* answers, and goes away.  A receive error of the server is logged and    *)
(* the loop goes round: it is a stuttering step.                           *)
(***************************************************************************)
EXTENDS SharedPipeline, FiniteSets

CONSTANTS
  CallMayPanic,    \* whether add_table_entry or remove_table_entry may panic
  ClientMayVanish, \* whether a client may leave with an answer outstanding
  DumpLimit,       \* the entries whose dump still fits into a datagram
  ClientCap,       \* the answers the client's socket buffers
  MaxRequests      \* bound: requests the clients send

ASSUME ManagementAssumption ==
  /\ CallMayPanic \in BOOLEAN
  /\ ClientMayVanish \in BOOLEAN
  /\ DumpLimit \in Nat
  /\ ClientCap \in Nat \ {0}
  /\ MaxRequests \in Nat
  /\ IsFiniteSet(Keys)

VARIABLES
  mpc,       \* the main task: "recv", "lock", "call", "reply", "dead"
  msg,       \* the request it handles, if any
  reply,     \* the answer it sends, if any
  sock,      \* the datagrams queued at the server socket
  inbox,     \* the answers queued at the client socket
  bound,     \* whether a client has bound the client path
  asked,     \* history: the kinds of answer this client still expects
  submitted  \* the number of requests sent, to bound them

mgVars == <<mpc, msg, reply, sock, inbox, bound, asked, submitted>>

Queries == {"radix", "dump"}

\* A datagram: a request, or bytes no request parses from, which a request
\* of more than the 10240 bytes of the buffer also is once it is cut off.
Request == [type: {"add", "remove"}, key: Keys] \cup [type: Queries \cup {"junk"}]
NoMsg   == [type |-> "junk"]

Answer  == [type: {"radix"}, radix: U16]
             \cup [type: {"dump"}, entries: SUBSET Keys]
NoReply == [type |-> "radix", radix |-> 0]

\* A request that needs the pipeline is in hand while the main task is at it.
MgTypeOK ==
  /\ mpc       \in {"recv", "lock", "call", "reply", "dead"}
  /\ msg       \in Request
  /\ reply     \in Answer
  /\ sock      \in Seq(Request)
  /\ inbox     \in Seq(Answer)
  /\ bound     \in BOOLEAN
  /\ asked     \in Seq(Queries)
  /\ submitted \in 0..MaxRequests
  /\ mpc \in {"lock", "call"} => msg.type \in {"add", "remove", "dump"}

MgInit ==
  /\ mpc       = "recv"
  /\ msg       = NoMsg
  /\ reply     = NoReply
  /\ sock      = <<>>
  /\ inbox     = <<>>
  /\ bound     = FALSE
  /\ asked     = <<>>
  /\ submitted = 0

-----------------------------------------------------------------------------
(* The client.                                                             *)

ClientBind ==
  /\ ~bound
  /\ bound' = TRUE
  /\ UNCHANGED <<mpc, msg, reply, sock, inbox, asked, submitted>>
  /\ UNCHANGED shared

\* A client that asks a question has bound its path first.
ClientSend(r) ==
  /\ up
  /\ submitted < MaxRequests
  /\ r.type \in Queries => bound
  /\ submitted' = submitted + 1
  /\ sock'  = Append(sock, r)
  /\ asked' = IF r.type \in Queries THEN Append(asked, r.type) ELSE asked
  /\ UNCHANGED <<mpc, msg, reply, inbox, bound>>
  /\ UNCHANGED shared

\* It takes the next answer for that to its oldest open question.
ClientRead ==
  /\ inbox # <<>>
  /\ inbox' = Tail(inbox)
  /\ asked' = IF asked = <<>> THEN <<>> ELSE Tail(asked)
  /\ UNCHANGED <<mpc, msg, reply, sock, bound, submitted>>
  /\ UNCHANGED shared

\* It closes its socket: what is queued there is gone, and so are its
\* questions, but not the requests it sent.
ClientLeave ==
  /\ bound
  /\ asked = <<>> \/ ClientMayVanish
  /\ bound' = FALSE
  /\ inbox' = <<>>
  /\ asked' = <<>>
  /\ UNCHANGED <<mpc, msg, reply, sock, submitted>>
  /\ UNCHANGED shared

-----------------------------------------------------------------------------
(* The main task.                                                          *)

\* Slip: the loop passes radix, which counts the CPU port, for ports.len().
AnswerCountingCpuPort(type) ==
  IF type = "radix" THEN [type |-> "radix", radix |-> (NumPorts + 1) % 65536]
                    ELSE [type |-> "dump", entries |-> tables]

\* Slip: a dump is answered from the dump before it.
AnswerCached(type) ==
  IF type = "radix" THEN [type |-> "radix", radix |-> NumPorts % 65536]
  ELSE IF reply.type = "dump" THEN reply
       ELSE [type |-> "dump", entries |-> tables]

\* RadixResponse(radix as u16), or the tables as they are now.
AnswerTo(type) ==
  IF type = "radix" THEN [type |-> "radix", radix |-> NumPorts % 65536]
                    ELSE [type |-> "dump", entries |-> tables]

\* Slip: from_slice(..).unwrap_or_default(), and the default is RadixRequest.
ParsedOrDefault(r) == IF r.type = "junk" THEN [type |-> "radix"] ELSE r

\* serde_json::from_slice(&buf[..n]).
Parsed(r) == r

\* A datagram that does not parse is skipped; a radix request is answered
\* without the pipeline.
MgRecv ==
  /\ up
  /\ mpc = "recv"
  /\ sock # <<>>
  /\ sock' = Tail(sock)
  /\ LET r == Parsed(Head(sock)) IN
       /\ msg'   = r
       /\ mpc'   = CASE r.type = "junk"  -> "recv"
                     [] r.type = "radix" -> "reply"
                     [] OTHER            -> "lock"
       /\ reply' = IF r.type = "radix" THEN AnswerTo("radix") ELSE reply
  /\ UNCHANGED <<inbox, bound, asked, submitted>>
  /\ UNCHANGED shared

MgLock ==
  /\ up
  /\ mpc = "lock"
  /\ Lock(Main)
  /\ mpc' = "call"
  /\ UNCHANGED <<msg, reply, sock, inbox, bound, asked, submitted>>

\* Slip: a lock that fails is tried again.
MgLockSpins ==
  /\ up
  /\ mpc = "lock"
  /\ LockPanics
  /\ UNCHANGED mgVars

MgLockIsPoisoned ==
  /\ up
  /\ mpc = "lock"
  /\ LockPanics
  /\ mpc' = "dead"
  /\ UNCHANGED <<msg, reply, sock, inbox, bound, asked, submitted>>

\* add_table_entry and remove_table_entry.
MgUpdate ==
  /\ up
  /\ mpc = "call"
  /\ msg.type \in {"add", "remove"}
  /\ tables' = IF msg.type = "add" THEN tables \cup {msg.key}
                                   ELSE tables \ {msg.key}
  /\ Unlock(Main)
  /\ mpc' = "recv"
  /\ UNCHANGED <<msg, reply, sock, inbox, bound, asked, submitted>>

MgCallPanics ==
  /\ up
  /\ CallMayPanic
  /\ mpc = "call"
  /\ CallPanics(Main)
  /\ mpc' = "dead"
  /\ UNCHANGED <<msg, reply, sock, inbox, bound, asked, submitted>>

\* Slip: the guard lives to the end of the match arm, across the await.
MgDumpHoldingGuard ==
  /\ up
  /\ mpc = "call"
  /\ msg.type = "dump"
  /\ reply' = AnswerTo("dump")
  /\ mpc' = "reply"
  /\ UNCHANGED <<msg, sock, inbox, bound, asked, submitted>>
  /\ UNCHANGED shared

\* The whole dump is collected under one guard, which is then dropped.
MgDump ==
  /\ up
  /\ mpc = "call"
  /\ msg.type = "dump"
  /\ reply' = AnswerTo("dump")
  /\ Unlock(Main)
  /\ UNCHANGED tables
  /\ mpc' = "reply"
  /\ UNCHANGED <<msg, sock, inbox, bound, asked, submitted>>

\* Somebody has bound the client path, and the answer fits into a datagram.
Sendable ==
  /\ bound
  /\ reply.type = "dump" => Cardinality(reply.entries) <= DumpLimit

\* uds.send_to(&buf, uds_dst).await waits while the client's queue is full;
\* the arm of the match ends there.
MgReply ==
  /\ up
  /\ mpc = "reply"
  /\ Sendable
  /\ Len(inbox) < ClientCap
  /\ inbox' = Append(inbox, reply)
  /\ mpc' = "recv"
  /\ LeaveBlock(Main)
  /\ UNCHANGED <<msg, reply, sock, bound, asked, submitted>>

\* Slip: an answer that cannot be sent is tried again.
MgReplyRetries ==
  /\ up
  /\ mpc = "reply"
  /\ ~Sendable
  /\ UNCHANGED shared
  /\ UNCHANGED mgVars

\* .unwrap(): nobody has bound the path, or the dump fits no datagram.
MgReplyPanics ==
  /\ up
  /\ mpc = "reply"
  /\ ~Sendable
  /\ mpc' = "dead"
  /\ Unwind(Main)
  /\ UNCHANGED <<msg, reply, sock, inbox, bound, asked, submitted>>

\* The panic of the main task unwinds through block_on: the process exits.
\* Until it has, the handlers go on.
Exit ==
  /\ up
  /\ mpc = "dead"
  /\ up' = FALSE
  /\ UNCHANGED <<holder, poisoned, tables>>
  /\ UNCHANGED mgVars

-----------------------------------------------------------------------------
ClientStep ==
  \/ ClientBind
  \/ \E r \in Request : ClientSend(r)
  \/ ClientRead
  \/ ClientLeave

MainStep ==
  \/ MgRecv
  \/ MgLock
  \/ MgLockIsPoisoned
  \/ MgUpdate
  \/ MgCallPanics
  \/ MgDump
  \/ MgReply
  \/ MgReplyPanics
  \/ Exit

=============================================================================
