------------------------------ MODULE UartDump ------------------------------
(***************************************************************************)
(* dump_tables_propolis (client/src/lib.rs): runs of a program in a guest, *)
(* one after the other, that ask for the tables over a serial line and     *)
(* read one line of answer.                                                *)
(*                                                                         *)
(* External: the tty, which has an input queue and a mode for as long as   *)
(* it is open, and Propolis at the other end, which serves one request     *)
(* after the other and sends its answer a byte at a time, whether or not   *)
(* anybody is there to read it.                                            *)
(***************************************************************************)
EXTENDS Integers, Sequences, SequencesExt

CONSTANTS
  MaxDumps,    \* bound: runs
  MaxVersions  \* bound: changes of the tables

ASSUME UartDumpAssumption == {MaxDumps, MaxVersions} \subseteq Nat

VARIABLES
  dpc,      \* where the run is, or how the last one ended
  buf,      \* what it has read
  asked,    \* history: the version of the tables when it asked
  quiet,    \* history: whether nothing was under way when it flushed
  dumps,    \* the number of runs so far
  raw,      \* whether the tty is in the mode the code sets
  rx,       \* the input queue of the tty
  requests, \* the requests Propolis has still to serve
  wire,     \* the part of its answer Propolis has still to send
  version   \* the version of the tables

client == <<dpc, buf, asked, quiet, dumps>>
tty    == <<raw, rx>>
far    == <<requests, wire, version>>
uvars  == <<client, tty, far>>

Held      == {"open", "ask", "read"}
DumpEnded == {"idle", "done", "garbled", "failed", "killed"}

\* The tables as one line of JSON, in pieces that may arrive apart.
Open    == 1
Entries == 2
Close   == 3
Newline == 4
Line(v) == [i \in Open..Newline |-> <<v, i>>]

UartInit ==
  /\ dpc = "idle" /\ buf = <<>> /\ asked = 0 /\ quiet = FALSE /\ dumps = 0
  /\ raw = FALSE /\ rx = <<>>
  /\ requests = 0 /\ wire = <<>> /\ version = 0

-----------------------------------------------------------------------------
(* A run.                                                                  *)

\* The tty starts in its first mode, with nothing queued.
OpenTty ==
  /\ dpc \in DumpEnded
  /\ dumps < MaxDumps
  /\ dumps' = dumps + 1
  /\ dpc' = "open" /\ buf' = <<>> /\ quiet' = FALSE
  /\ UNCHANGED <<asked, tty, far>>

\* Slip: TCSANOW.
SetWithoutFlush ==
  /\ dpc = "open"
  /\ raw' = TRUE
  /\ quiet' = (wire = <<>> /\ requests = 0)
  /\ dpc' = "ask"
  /\ UNCHANGED <<buf, asked, dumps, rx, far>>

\* TCSAFLUSH: what has arrived is thrown away.
SetAttr ==
  /\ dpc = "open"
  /\ raw' = TRUE /\ rx' = <<>>
  /\ quiet' = (wire = <<>> /\ requests = 0)
  /\ dpc' = "ask"
  /\ UNCHANGED <<buf, asked, dumps, far>>

\* "tcsetattr failed, dump may hang": it goes on all the same.
SetAttrFails ==
  /\ dpc = "open"
  /\ dpc' = "ask"
  /\ UNCHANGED <<buf, asked, quiet, dumps, tty, far>>

\* Slip: written in two, and taken for two.
AskTwice ==
  /\ dpc = "ask"
  /\ requests' = requests + 2
  /\ asked' = version
  /\ dpc' = "read"
  /\ UNCHANGED <<buf, quiet, dumps, tty, wire, version>>

Ask ==
  /\ dpc = "ask"
  /\ requests' = requests + 1
  /\ asked' = version
  /\ dpc' = "read"
  /\ UNCHANGED <<buf, quiet, dumps, tty, wire, version>>

\* The end of a run, and with it the last close of the tty.
End(how, result) ==
  /\ dpc' = how
  /\ buf' = result
  /\ raw' = FALSE /\ rx' = <<>>
  /\ UNCHANGED <<asked, quiet, dumps, far>>

AskFails == dpc = "ask" /\ End("failed", <<>>)

Kill == dpc \in Held /\ End("killed", <<>>)

IsNewline(p) == p[2] = Newline
EndsLine(s)  == \E i \in DOMAIN s : IsNewline(s[i])

\* Where the first line in s ends.
FirstNewline(s) == SelectInSeq(s, IsNewline)

\* What serde_json takes for a map of tables: it can not tell whether entries
\* are missing, or are those of another line.
Parses(s) ==
  LET text == IF s # <<>> /\ IsNewline(Last(s)) THEN Front(s) ELSE s
  IN /\ Len(text) >= 2
     /\ text[1][2] = Open
     /\ text[Len(text)][2] = Close
     /\ \A i \in 2..(Len(text) - 1) : text[i][2] = Entries

Parsed(s) == End(IF Parses(s) THEN "done" ELSE "garbled", IF Parses(s) THEN s ELSE <<>>)

\* Slip: VMIN stays what VEOF was, which is more than one.
ReadableVeof == IF raw THEN Len(rx) >= 3 ELSE EndsLine(rx)

\* When a read returns: with a whole line in the tty's first mode, with any
\* byte in the mode the code sets (VMIN = 1, VTIME = 0).
Readable == IF raw THEN rx # <<>> ELSE EndsLine(rx)

\* read_until: up to the newline, or to the end of the file, which an empty
\* read is taken for.  What BufReader has read beyond is dropped with it.
Read ==
  /\ dpc = "read"
  /\ Readable
  /\ LET all == buf \o rx
     IN IF EndsLine(all) THEN Parsed(SubSeq(all, 1, FirstNewline(all)))
        ELSE IF rx = <<>> THEN Parsed(all)
        ELSE /\ buf' = all /\ rx' = <<>>
             /\ UNCHANGED <<dpc, asked, quiet, dumps, raw, far>>

DumpStep == SetAttr \/ SetAttrFails \/ Ask \/ AskFails \/ Read

-----------------------------------------------------------------------------
(* Propolis, and the line between.                                         *)

Serve ==
  /\ wire = <<>> /\ requests > 0
  /\ requests' = requests - 1
  /\ wire' = Line(version)
  /\ UNCHANGED <<client, tty, version>>

\* What arrives while nobody holds the tty is lost; so is, in its first mode,
\* some of a line that is too long for it.
Send ==
  /\ wire # <<>>
  /\ wire' = Tail(wire)
  /\ \/ dpc \in Held /\ rx' = Append(rx, Head(wire))
     \/ ~raw /\ UNCHANGED rx
  /\ UNCHANGED <<client, raw, requests, version>>

Update ==
  /\ version < MaxVersions
  /\ version' = version + 1
  /\ UNCHANGED <<client, tty, requests, wire>>

Propolis == Serve \/ Send

UartNext == OpenTty \/ DumpStep \/ Kill \/ Propolis \/ Update

\* A run goes on while it can, and Propolis sends what it has to.
UartFairness == WF_uvars(DumpStep) /\ WF_uvars(Propolis)

UartSpec == UartInit /\ [][UartNext]_uvars /\ UartFairness

-----------------------------------------------------------------------------
Pieces == (0..MaxVersions) \X (Open..Newline)

UartTypeOK ==
  /\ dpc \in Held \cup DumpEnded
  /\ {buf, rx, wire} \subseteq Seq(Pieces)
  /\ {asked, version} \subseteq 0..MaxVersions
  /\ {raw, quiet} \subseteq BOOLEAN
  /\ {dumps, requests} \subseteq 0..MaxDumps
  /\ dpc \notin Held => tty = <<FALSE, <<>>>>

(***************************************************************************)
(* Answers carry nothing that ties them to a request.  What makes the line *)
(* a run reads the answer to its own is the flush: if Propolis has nothing *)
(* left to send for earlier runs by then, whatever has piled up before,    *)
(* the run does not choke on what it reads, and returns the tables of one  *)
(* moment after it asked, all of them.                                     *)
(***************************************************************************)
QuietDumpIsRight ==
  quiet => /\ dpc # "garbled"
           /\ dpc = "done" => \E v \in asked..version : buf = Line(v)

(***************************************************************************)
(* "The trailing newline may arrive on its own", and so may any other      *)
(* piece: a run that has set its mode gets to the end of a line, though    *)
(* perhaps of one that was not for it.                                     *)
(***************************************************************************)
DumpEnds == (raw /\ dpc = "read") ~> dpc \in DumpEnded

=============================================================================
