---------------------------- MODULE UartDumpProofs ----------------------------
(***************************************************************************)
(* Proofs about UartDump: its types, that a dump which is asked for while  *)
(* nothing is under way is the answer to its request, and what DumpEnds    *)
(* needs besides fairness: a run that reads has something to wait for, and *)
(* every step but a change of the tables brings it closer to its end.      *)
(***************************************************************************)
EXTENDS UartDump, SequenceTheorems, WellFoundedInduction, TLAPS

-----------------------------------------------------------------------------
(* A set of natural numbers that is not empty has a least element, which   *)
(* Min chooses.                                                            *)

LEMMA MinIsElement ==
  ASSUME NEW T \in SUBSET Nat, T # {}
  PROVE  Min(T) \in T
<1>1. IsWellFoundedOn(OpToRel(<, Nat), Nat)
  BY NatLessThanWellFounded
<1>2. PICK x \in T : \A y \in T : ~ (<<y, x>> \in OpToRel(<, Nat))
  BY <1>1, WFMin
<1>3. \A y \in T : ~ (y < x)
  BY <1>2 DEF OpToRel
<1>4. \A y \in T : x <= y
  BY <1>3
<1> QED BY <1>4 DEF Min

-----------------------------------------------------------------------------
(* Lines and pieces.                                                       *)

\* A line is four pieces of one version.
LEMMA LineType ==
  ASSUME NEW v \in 0..MaxVersions
  PROVE  /\ Line(v) \in Seq(Pieces)
         /\ Len(Line(v)) = 4
         /\ \A i \in 1..4 : Line(v)[i] = <<v, i>>
<1>1. MaxVersions \in Nat
  BY UartDumpAssumption
<1>2. Line(v) = [i \in 1..4 |-> <<v, i>>]
  BY DEF Line, Open, Newline
<1>3. \A i \in 1..4 : <<v, i>> \in Pieces
  BY <1>1 DEF Pieces, Open, Newline
<1> QED BY <1>2, <1>3

\* Its newline comes last.
LEMMA NewlineIsLast ==
  ASSUME NEW v \in 0..MaxVersions
  PROVE  FirstNewline(Line(v)) = 4
<1>1. {i \in 1..Len(Line(v)) : IsNewline(Line(v)[i])} = {4}
  BY LineType DEF IsNewline, Newline
<1>2. Min({4}) = 4
  BY DEF Min
<1> QED BY <1>1, <1>2 DEF FirstNewline, SelectInSeq

\* It is one the parser takes.
LEMMA LineParses ==
  ASSUME NEW v \in 0..MaxVersions
  PROVE  Parses(Line(v))
<1> DEFINE t == SubSeq(Line(v), 1, 3)
<1>1. /\ Len(Line(v)) = 4 /\ Line(v) # <<>>
      /\ \A i \in 1..4 : Line(v)[i] = <<v, i>>
      /\ \A i \in 1..3 : Line(v)[i] \in Pieces
  BY LineType
<1>2. Last(Line(v)) = <<v, 4>> /\ IsNewline(Last(Line(v)))
  BY <1>1 DEF Last, IsNewline, Newline
<1>3. Front(Line(v)) = t
  BY <1>1 DEF Front
<1>4. Len(t) = 3 /\ \A i \in 1..3 : t[i] = <<v, i>>
  BY <1>1, SubSeqProperties
<1> HIDE DEF t
<1>5. /\ Len(t) >= 2
      /\ t[1][2] = 1 /\ t[Len(t)][2] = 3
      /\ \A i \in 2..(Len(t) - 1) : t[i][2] = 2
  BY <1>4
<1> QED BY <1>1, <1>2, <1>3, <1>5 DEF Parses, Open, Entries, Close

\* A part of a line that ends it is all of it.
LEMMA EndOfLineIsAll ==
  ASSUME NEW v \in 0..MaxVersions, NEW s \in Seq(Pieces), NEW t \in Seq(Pieces),
         s \o t = Line(v), EndsLine(s)
  PROVE  s = Line(v)
<1>1. /\ s \in Seq(Pieces) /\ Len(s) \in Nat /\ DOMAIN s = 1..Len(s)
      /\ Len(t) \in Nat
  BY LenProperties
<1>2. PICK i \in 1..Len(s) : s[i][2] = 4
  BY <1>1 DEF EndsLine, IsNewline, Newline
<1>3. /\ Len(s \o t) = Len(s) + Len(t)
      /\ \A j \in 1..Len(s) : (s \o t)[j] = s[j]
  BY ConcatProperties
<1>4. /\ Line(v) \in Seq(Pieces) /\ Len(Line(v)) = 4
      /\ \A j \in 1..4 : Line(v)[j] = <<v, j>>
  BY LineType
<1>5. Len(s) + Len(t) = 4 /\ \A j \in 1..Len(s) : s[j] = Line(v)[j]
  BY <1>3, <1>4
<1>6. i \in 1..4 /\ s[i] = <<v, i>>
  BY <1>1, <1>4, <1>5
<1>7. i = 4
  BY <1>2, <1>6
<1>8. Len(s) = 4
  BY <1>1, <1>5, <1>7
<1> QED BY <1>4, <1>5, <1>8, SeqEqual

\* What has been read, what has arrived and what is still to be sent.
Chain(a, b, c) == (a \o b) \o c

\* What is sent moves from one part of a line to the next.
LEMMA PieceMoves ==
  ASSUME NEW S, NEW a \in Seq(S), NEW b \in Seq(S), NEW c \in Seq(S), c # <<>>
  PROVE  /\ Head(c) \in S /\ Tail(c) \in Seq(S)
         /\ Append(b, Head(c)) \in Seq(S)
         /\ Chain(a, Append(b, Head(c)), Tail(c)) = Chain(a, b, c)
<1> DEFINE h == Head(c)
           t == Tail(c)
<1>1. h \in S /\ t \in Seq(S) /\ <<h>> \in Seq(S) /\ a \o b \in Seq(S)
  BY HeadTailProperties, ConcatProperties
<1>2. <<h>> \o t = c
  <2>1. <<h>> \o t \in Seq(S)
    BY <1>1, ConcatProperties
  <2>2. /\ Len(<<h>> \o t) = Len(c)
        /\ \A i \in 1..Len(c) : (<<h>> \o t)[i] = c[i]
    BY <1>1, HeadTailProperties, ConcatProperties
  <2> QED BY <2>1, <2>2, SeqEqual
<1>3. Append(b, h) = b \o <<h>> /\ Append(b, h) \in Seq(S)
  BY <1>1, AppendIsConcat, AppendProperties
<1> HIDE DEF h, t
<1>4. a \o (b \o <<h>>) = (a \o b) \o <<h>>
  BY <1>1, ConcatAssociative
<1>5. ((a \o b) \o <<h>>) \o t = (a \o b) \o (<<h>> \o t)
  BY <1>1, ConcatAssociative
<1> QED BY <1>1, <1>2, <1>3, <1>4, <1>5 DEF h, t, Chain

LEMMA FirstNewlineIsIn ==
  ASSUME NEW s \in Seq(Pieces), EndsLine(s)
  PROVE  /\ FirstNewline(s) \in 1..Len(s)
         /\ SubSeq(s, 1, FirstNewline(s)) \in Seq(Pieces)
<1> DEFINE I == {i \in 1..Len(s) : IsNewline(s[i])}
<1>1. I # {} /\ I \subseteq 1..Len(s)
  BY DEF EndsLine
<1>2. Min(I) \in I
  <2>1. Len(s) \in Nat
    BY LenProperties
  <2>2. I \in SUBSET Nat
    BY <1>1, <2>1
  <2> HIDE DEF I
  <2> QED BY <1>1, <2>2, MinIsElement
<1>3. FirstNewline(s) = Min(I)
  BY <1>1 DEF FirstNewline, SelectInSeq
<1>4. FirstNewline(s) \in 1..Len(s)
  BY <1>1, <1>2, <1>3
<1>5. \A i \in 1..FirstNewline(s) : s[i] \in Pieces
  BY <1>4, ElementOfSeq
<1> QED BY <1>4, <1>5, SubSeqProperties

\* What a read does.
LEMMA ReadIs ==
  ASSUME Read
  PROVE  LET all == buf \o rx IN
         /\ dpc = "read" /\ Readable
         /\ \/ EndsLine(all) /\ Parsed(SubSeq(all, 1, FirstNewline(all)))
            \/ ~EndsLine(all) /\ rx = <<>> /\ Parsed(all)
            \/ /\ ~EndsLine(all) /\ rx # <<>>
               /\ buf' = all /\ rx' = <<>>
               /\ UNCHANGED <<dpc, asked, quiet, dumps, raw, far>>
<1> QED BY DEF Read

-----------------------------------------------------------------------------
(* The types.                                                              *)

\* UartTypeOK, one variable at a time.
UartTypes ==
  /\ dpc \in {"open", "ask", "read", "idle", "done", "garbled", "failed", "killed"}
  /\ buf \in Seq(Pieces) /\ rx \in Seq(Pieces) /\ wire \in Seq(Pieces)
  /\ asked \in 0..MaxVersions /\ version \in 0..MaxVersions
  /\ dumps \in 0..MaxDumps /\ requests \in 0..MaxDumps
  /\ dpc \notin {"open", "ask", "read"} => ~raw /\ rx = <<>>

Flags == raw \in BOOLEAN /\ quiet \in BOOLEAN

LEMMA TypesAreTypes == UartTypes /\ Flags => UartTypeOK
<1>1. dpc \in Held \cup DumpEnded <=>
        dpc \in {"open", "ask", "read", "idle", "done", "garbled", "failed", "killed"}
  BY DEF Held, DumpEnded
<1>2. \A a, b, S : {a, b} \subseteq S <=> a \in S /\ b \in S
  OBVIOUS
<1>3. \A a, b, c, S : {a, b, c} \subseteq S <=> a \in S /\ b \in S /\ c \in S
  OBVIOUS
<1>4. Flags => {raw, quiet} \subseteq BOOLEAN
  BY <1>2, Zenon DEF Flags
<1>5. Flags /\ ~raw => raw = FALSE
  BY Zenon DEF Flags
<1>6. (dpc \notin {"open", "ask", "read"} => raw = FALSE /\ rx = <<>>)
        => (dpc \notin Held => tty = <<FALSE, <<>>>>)
  BY DEF Held, tty
<1> QED BY <1>1, <1>2, <1>3, <1>4, <1>5, <1>6, Zenon DEF UartTypes, UartTypeOK

\* Each run asks once.
AsksOnce ==
  /\ requests <= dumps
  /\ dpc \in {"open", "ask"} => requests < dumps

\* The tables only ever get newer.
AskedBefore == asked <= version

\* A run that has not asked yet has read nothing.
FreshRun == dpc \in {"open", "ask"} => buf = <<>>

UartBase == UartTypes /\ AsksOnce /\ AskedBefore /\ FreshRun

LEMMA InitBase == UartInit => UartBase
BY UartDumpAssumption
   DEF UartInit, UartBase, UartTypes, AsksOnce, AskedBefore, FreshRun

\* How a run ends.
LEMMA EndBase ==
  ASSUME UartBase, NEW how \in DumpEnded, NEW result \in Seq(Pieces),
         End(how, result)
  PROVE  UartBase'
BY DEF End, UartBase, UartTypes, AsksOnce, AskedBefore, FreshRun, DumpEnded, tty, far

LEMMA ReadBase ==
  ASSUME UartBase, Read
  PROVE  UartBase'
<1> DEFINE all == buf \o rx
<1>1. all \in Seq(Pieces)
  BY ConcatProperties DEF UartBase, UartTypes
<1>2. ASSUME NEW s \in Seq(Pieces), Parsed(s)
      PROVE  UartBase'
  <2>1. <<>> \in Seq(Pieces) /\ "done" \in DumpEnded /\ "garbled" \in DumpEnded
    BY DEF DumpEnded
  <2>2. CASE Parses(s)
    <3>1. End("done", s)
      BY <1>2, <2>2 DEF Parsed
    <3> QED BY <2>1, <3>1, EndBase
  <2>3. CASE ~Parses(s)
    <3>1. End("garbled", <<>>)
      BY <1>2, <2>3 DEF Parsed
    <3> QED BY <2>1, <3>1, EndBase
  <2> QED BY <2>2, <2>3
<1>3. CASE EndsLine(all) /\ Parsed(SubSeq(all, 1, FirstNewline(all)))
  BY <1>1, <1>2, <1>3, FirstNewlineIsIn
<1>4. CASE Parsed(all)
  BY <1>1, <1>2, <1>4
<1>5. CASE buf' = all /\ rx' = <<>> /\ UNCHANGED <<dpc, asked, quiet, dumps, raw, far>>
  <2>1. dpc = "read"
    BY ReadIs
  <2> QED BY <1>1, <1>5, <2>1
          DEF UartBase, UartTypes, AsksOnce, AskedBefore, FreshRun, far
<1> QED BY <1>3, <1>4, <1>5, ReadIs

LEMMA SendBase ==
  ASSUME UartBase, Send
  PROVE  UartBase'
<1>1. Tail(wire) \in Seq(Pieces) /\ Append(rx, Head(wire)) \in Seq(Pieces)
  BY PieceMoves DEF Send, UartBase, UartTypes
<1> QED BY <1>1
        DEF Send, UartBase, UartTypes, AsksOnce, AskedBefore, FreshRun, client, Held

LEMMA StepBase ==
  ASSUME UartBase, [UartNext]_uvars
  PROVE  UartBase'
<1> USE UartDumpAssumption
    DEF UartBase, UartTypes, AsksOnce, AskedBefore, FreshRun, Held, DumpEnded, client, tty, far
<1>1. CASE OpenTty
  BY <1>1 DEF OpenTty
<1>2. CASE SetAttr
  BY <1>2 DEF SetAttr
<1>3. CASE SetAttrFails
  BY <1>3 DEF SetAttrFails
<1>4. CASE Ask
  BY <1>4 DEF Ask
<1>5. CASE AskFails \/ Kill
  <2>1. <<>> \in Seq(Pieces) /\ "failed" \in DumpEnded /\ "killed" \in DumpEnded
    OBVIOUS
  <2>2. End("failed", <<>>) \/ End("killed", <<>>)
    BY <1>5 DEF AskFails, Kill
  <2> QED BY <2>1, <2>2, EndBase
<1>6. CASE Read
  BY <1>6, ReadBase
<1>7. CASE Serve
  <2>1. Line(version) \in Seq(Pieces)
    BY LineType
  <2> QED BY <1>7, <2>1 DEF Serve
<1>8. CASE Send
  BY <1>8, SendBase
<1>9. CASE Update
  BY <1>9 DEF Update
<1>10. CASE UNCHANGED uvars
  BY <1>10 DEF uvars
<1> QED BY <1>1, <1>2, <1>3, <1>4, <1>5, <1>6, <1>7, <1>8, <1>9, <1>10
        DEF UartNext, DumpStep, Propolis

LEMMA StepFlags ==
  ASSUME Flags, [UartNext]_uvars
  PROVE  Flags'
<1>1. \A a, b : (a = b) \in BOOLEAN
  OBVIOUS
<1>2. TRUE \in BOOLEAN /\ FALSE \in BOOLEAN
  OBVIOUS
<1>3. CASE OpenTty \/ SetAttr \/ SetAttrFails \/ Ask
  <2>1. (wire = <<>> /\ requests = 0) \in BOOLEAN
    OBVIOUS
  <2> QED BY <1>2, <1>3, <2>1, Zenon DEF OpenTty, SetAttr, SetAttrFails, Ask, Flags, tty
<1>4. ASSUME NEW how, NEW result, End(how, result)
      PROVE  Flags'
  BY <1>2, <1>4, Zenon DEF End, Flags
<1>5. CASE AskFails \/ Kill
  BY <1>4, <1>5, Zenon DEF AskFails, Kill
<1>6. CASE Read
  <2>1. ASSUME NEW s, Parsed(s)
        PROVE  Flags'
    BY <1>4, <2>1, Zenon DEF Parsed
  <2>2. \/ \E s : Parsed(s)
        \/ UNCHANGED <<dpc, asked, quiet, dumps, raw, far>>
    BY <1>6 DEF Read
  <2> QED BY <2>1, <2>2, Zenon DEF Flags
<1>7. CASE Serve \/ Send \/ Update \/ UNCHANGED uvars
  BY <1>7, Zenon DEF Serve, Send, Update, uvars, client, tty, Flags
<1> QED BY <1>3, <1>5, <1>6, <1>7, Zenon DEF UartNext, DumpStep, Propolis

LEMMA FlagsHold == UartSpec => []Flags
<1>1. UartInit => Flags
  BY Zenon DEF UartInit, Flags
<1> QED BY <1>1, StepFlags, PTL DEF UartSpec

THEOREM UartBaseHolds == UartSpec => []UartBase
<1> QED BY InitBase, StepBase, PTL DEF UartSpec

(***************************************************************************)
(* The variables have their types, and a tty that nobody holds has nothing *)
(* queued and is in its first mode.                                        *)
(***************************************************************************)
THEOREM DumpsAreTyped == UartSpec => []UartTypeOK
<1>1. UartBase /\ Flags => UartTypeOK
  BY TypesAreTypes DEF UartBase
<1> QED BY <1>1, UartBaseHolds, FlagsHold, PTL

-----------------------------------------------------------------------------
(* A dump that is quiet when it flushes.                                   *)

\* Nothing is under way but the request of the run, which is not served yet.
Unserved == requests = 1 /\ buf = <<>> /\ rx = <<>> /\ wire = <<>>

\* What is under way, in the three places it can be, is one line.
UnderWay(v) == requests = 0 /\ Chain(buf, rx, wire) = Line(v)

\* While a quiet run has the tty, it is all that happens on the line.
QuietInv ==
  quiet =>
    /\ dpc # "open"
    /\ dpc = "ask" =>
         raw /\ requests = 0 /\ buf = <<>> /\ rx = <<>> /\ wire = <<>>
    /\ dpc = "read" =>
         raw /\ ~EndsLine(buf) /\ (Unserved \/ \E v \in asked..version : UnderWay(v))
    /\ dpc # "garbled"
    /\ dpc = "done" => \E v \in asked..version : buf = Line(v)

\* The line it reads is a whole one: it parses, and it is what it returns.
LEMMA QuietRead ==
  ASSUME UartBase, QuietInv, Read
  PROVE  QuietInv'
<1> SUFFICES ASSUME quiet'
             PROVE  QuietInv'
  BY Zenon DEF QuietInv
<1> DEFINE all == buf \o rx
<1>1. /\ buf \in Seq(Pieces) /\ rx \in Seq(Pieces) /\ wire \in Seq(Pieces)
      /\ all \in Seq(Pieces)
      /\ asked \in 0..MaxVersions /\ version \in 0..MaxVersions
  BY ConcatProperties DEF UartBase, UartTypes
<1>2. dpc = "read" /\ Readable
  BY ReadIs
<1>3. quiet' = quiet /\ asked' = asked /\ version' = version
  BY ReadIs DEF Parsed, End, far
<1>4. /\ raw /\ rx # <<>> /\ requests = 0
      /\ \E v \in asked..version : all \o wire = Line(v)
  BY <1>2, <1>3 DEF QuietInv, Readable, Unserved, UnderWay, Chain
<1>5. PICK v \in asked..version : all \o wire = Line(v)
  BY <1>4
<1>6. v \in 0..MaxVersions
  BY <1>1, UartDumpAssumption
<1>7. CASE EndsLine(all)
  <2>1. all = Line(v)
    BY <1>1, <1>5, <1>6, <1>7, EndOfLineIsAll
  <2>2. FirstNewline(all) = 4
    BY <1>6, <2>1, NewlineIsLast
  <2>3. SubSeq(all, 1, 4) = Line(v)
    <3>1. /\ Line(v) \in Seq(Pieces) /\ Len(Line(v)) = 4
          /\ \A i \in 1..4 : Line(v)[i] \in Pieces
      BY <1>6, LineType, ElementOfSeq
    <3>2. /\ SubSeq(Line(v), 1, 4) \in Seq(Pieces)
          /\ Len(SubSeq(Line(v), 1, 4)) = 4
          /\ \A i \in 1..4 : SubSeq(Line(v), 1, 4)[i] = Line(v)[i]
      BY <3>1, SubSeqProperties
    <3> QED BY <2>1, <3>1, <3>2, SeqEqual
  <2>4. Parsed(Line(v))
    BY <1>7, <2>2, <2>3, ReadIs
  <2>5. End("done", Line(v))
    BY <1>6, <2>4, LineParses DEF Parsed
  <2>6. dpc' = "done" /\ buf' = Line(v)
    BY <2>5 DEF End
  <2> QED BY <1>3, <1>5, <2>6 DEF QuietInv
<1>8. CASE ~EndsLine(all)
  <2>1. buf' = all /\ rx' = <<>> /\ UNCHANGED <<dpc, raw, far>>
    BY <1>4, <1>8, ReadIs
  <2>2. (buf' \o rx') \o wire' = Line(v) /\ requests' = 0
    BY <1>1, <1>4, <1>5, <2>1, ConcatEmptySeq DEF far
  <2> QED BY <1>2, <1>3, <1>4, <1>5, <1>8, <2>1, <2>2
          DEF QuietInv, UnderWay, Chain, EndsLine, Line
<1> QED BY <1>7, <1>8

\* What Propolis does for a quiet run.
LEMMA QuietPropolis ==
  ASSUME UartBase, QuietInv, Propolis
  PROVE  QuietInv'
<1> SUFFICES ASSUME quiet'
             PROVE  QuietInv'
  BY Zenon DEF QuietInv
<1>1. /\ buf \in Seq(Pieces) /\ rx \in Seq(Pieces) /\ wire \in Seq(Pieces)
      /\ asked \in 0..MaxVersions /\ version \in 0..MaxVersions
      /\ asked <= version
  BY DEF UartBase, UartTypes, AskedBefore
<1>2. UNCHANGED client /\ raw' = raw /\ version' = version
  BY DEF Propolis, Serve, Send, tty
<1>3. CASE dpc # "read"
  <2>1. quiet /\ (requests > 0 \/ wire # <<>>)
    BY <1>2 DEF Propolis, Serve, Send, client
  <2>2. dpc # "ask"
    BY <2>1 DEF QuietInv
  <2> QED BY <1>2, <1>3, <2>2 DEF QuietInv, client
<1>4. CASE dpc = "read" /\ Serve
  <2>1. Unserved
    <3>1. requests > 0
      BY <1>4 DEF Serve
    <3> QED BY <1>2, <1>4, <3>1 DEF QuietInv, UnderWay, client
  <2>2. /\ requests' = 0 /\ wire' = Line(version)
        /\ buf' = <<>> /\ rx' = <<>>
    BY <1>4, <2>1 DEF Serve, Unserved, client, tty
  <2>3. (buf' \o rx') \o wire' = Line(version)
    BY <1>1, <2>2, LineType, ConcatEmptySeq
  <2> QED BY <1>1, <1>2, <1>4, <2>2, <2>3 DEF QuietInv, UnderWay, Chain, client, EndsLine
<1>5. CASE dpc = "read" /\ Send
  <2>1. raw /\ wire # <<>>
    BY <1>2, <1>5 DEF QuietInv, Send, client
  <2>2. PICK v \in asked..version : UnderWay(v)
    BY <1>2, <1>5, <2>1 DEF QuietInv, Unserved, client
  <2>3. rx' = Append(rx, Head(wire)) /\ wire' = Tail(wire) /\ requests' = requests
    BY <1>5, <2>1 DEF Send
  <2>4. Chain(buf, rx', wire') = Line(v)
    <3>1. Chain(buf, Append(rx, Head(wire)), Tail(wire)) = Chain(buf, rx, wire)
      BY <1>1, <2>1, PieceMoves
    <3> QED BY <2>2, <2>3, <3>1, Zenon DEF UnderWay
  <2> QED BY <1>2, <1>5, <2>2, <2>3, <2>4 DEF QuietInv, UnderWay, client, EndsLine
<1> QED BY <1>3, <1>4, <1>5 DEF Propolis

LEMMA EmptyDoesNotEnd == ~EndsLine(<<>>)
BY DEF EndsLine

\* Newer tables change nothing of what is under way.
LEMMA LaterStillHolds ==
  ASSUME UartBase, QuietInv, Update
  PROVE  QuietInv'
<1>1. /\ UNCHANGED <<client, tty, requests, wire>>
      /\ asked \in Nat /\ version \in Nat /\ version' = version + 1
  BY UartDumpAssumption DEF Update, UartBase, UartTypes
<1>2. asked..version \subseteq asked'..version'
  BY <1>1 DEF client
<1> QED BY <1>1, <1>2 DEF QuietInv, Unserved, UnderWay, client, tty

LEMMA StepQuiet ==
  ASSUME UartBase, QuietInv, [UartNext]_uvars
  PROVE  QuietInv'
<1>1. CASE OpenTty
  BY <1>1 DEF OpenTty, QuietInv
<1>2. CASE SetAttr
  <2>1. dpc' = "ask" /\ raw' /\ rx' = <<>> /\ buf' = buf /\ UNCHANGED far
    BY <1>2 DEF SetAttr
  <2>2. quiet' => wire = <<>> /\ requests = 0
    BY <1>2 DEF SetAttr
  <2>3. buf = <<>>
    BY <1>2 DEF SetAttr, UartBase, FreshRun
  <2> QED BY <2>1, <2>2, <2>3, Zenon DEF QuietInv, far
<1>3. CASE SetAttrFails
  BY <1>3 DEF SetAttrFails, QuietInv
<1>4. CASE Ask
  BY <1>4, EmptyDoesNotEnd DEF Ask, tty, QuietInv, Unserved
<1>5. CASE AskFails \/ Kill
  BY <1>5 DEF AskFails, Kill, End, QuietInv
<1>6. CASE Read
  BY <1>6, QuietRead
<1>7. CASE Propolis
  BY <1>7, QuietPropolis
<1>8. CASE Update
  BY <1>8, LaterStillHolds
<1>9. CASE UNCHANGED uvars
  BY <1>9 DEF uvars, client, tty, far, QuietInv, Unserved, UnderWay
<1> QED BY <1>1, <1>2, <1>3, <1>4, <1>5, <1>6, <1>7, <1>8, <1>9 DEF UartNext, DumpStep

(***************************************************************************)
(* A dump that flushes while Propolis has nothing to send returns the      *)
(* tables of one moment after it asked, all of them, whatever the runs     *)
(* before it have left behind.                                             *)
(***************************************************************************)
THEOREM QuietDumpsAreRight == UartSpec => []QuietDumpIsRight
<1>1. UartInit => QuietInv
  BY DEF UartInit, QuietInv
<1>2. QuietInv => QuietDumpIsRight
  BY DEF QuietInv, QuietDumpIsRight
<1> QED BY <1>1, <1>2, StepQuiet, UartBaseHolds, PTL DEF UartSpec

-----------------------------------------------------------------------------
(* A run that reads has something to wait for.                             *)

\* What is left of an answer has its newline still to come.
AnswerHasItsEnd == wire # <<>> => IsNewline(wire[Len(wire)])

\* A run that has set its mode and asked.
Waiting == raw /\ dpc = "read"

ReaderIsServed == Waiting => (requests > 0 \/ wire # <<>> \/ EndsLine(rx))

ServedInv == AnswerHasItsEnd /\ ReaderIsServed

LEMMA InitServed == UartInit => ServedInv
BY DEF UartInit, ServedInv, AnswerHasItsEnd, ReaderIsServed, Waiting

LEMMA LineEndsItself ==
  ASSUME NEW v \in 0..MaxVersions
  PROVE  Line(v) # <<>> /\ IsNewline(Line(v)[Len(Line(v))])
BY LineType DEF IsNewline, Newline

LEMMA ServeServes ==
  ASSUME UartBase, ServedInv, Serve
  PROVE  ServedInv'
<1>1. Line(version) # <<>> /\ IsNewline(Line(version)[Len(Line(version))])
  BY LineEndsItself DEF UartBase, UartTypes
<1>2. wire' = Line(version)
  BY DEF Serve
<1>3. AnswerHasItsEnd' /\ wire' # <<>>
  BY <1>1, <1>2, Zenon DEF AnswerHasItsEnd
<1> QED BY <1>3, Zenon DEF ServedInv, ReaderIsServed

LEMMA SendServes ==
  ASSUME UartBase, ServedInv, Send
  PROVE  ServedInv'
<1>1. /\ wire \in Seq(Pieces) /\ wire # <<>> /\ rx \in Seq(Pieces)
      /\ wire' = Tail(wire)
      /\ UNCHANGED <<dpc, raw, requests>>
      /\ IsNewline(wire[Len(wire)])
  BY DEF Send, UartBase, UartTypes, client, ServedInv, AnswerHasItsEnd
<1>2. /\ Len(wire) \in Nat /\ Len(wire) # 0
      /\ Len(Tail(wire)) = Len(wire) - 1
      /\ \A i \in 1..Len(Tail(wire)) : Tail(wire)[i] = wire[i + 1]
      /\ Head(wire) = wire[1]
  BY <1>1, HeadTailProperties, EmptySeq, LenProperties
<1>3. AnswerHasItsEnd'
  <2>1. CASE Len(wire) = 1
    <3>1. Tail(wire) = <<>>
      BY <1>1, <1>2, <2>1, HeadTailProperties, EmptySeq
    <3> QED BY <1>1, <3>1 DEF AnswerHasItsEnd
  <2>2. CASE Len(wire) # 1
    <3>1. Tail(wire)[Len(Tail(wire))] = wire[Len(wire)]
      BY <1>2, <2>2
    <3> QED BY <1>1, <3>1, Zenon DEF AnswerHasItsEnd
  <2> QED BY <2>1, <2>2
<1>4. ReaderIsServed'
  <2> SUFFICES ASSUME Waiting', wire' = <<>>
               PROVE  EndsLine(rx')
    BY DEF ReaderIsServed
  <2>1. raw /\ dpc = "read"
    BY <1>1 DEF Waiting
  <2>2. rx' = Append(rx, Head(wire))
    BY <2>1, Zenon DEF Send
  <2>3. Len(wire) = 1
    <3>1. Tail(wire) \in Seq(Pieces) /\ Tail(wire) = <<>>
      BY <1>1, HeadTailProperties
    <3>2. Len(Tail(wire)) = 0
      BY <3>1, EmptySeq
    <3>3. Len(wire) - 1 = 0 /\ Len(wire) \in Nat
      BY <1>2, <3>2
    <3> QED BY <3>3
  <2>4. IsNewline(Head(wire))
    BY <1>1, <1>2, <2>3
  <2> DEFINE h == Head(wire)
  <2>5. h \in Pieces
    BY <1>1, HeadTailProperties
  <2> HIDE DEF h
  <2>6. /\ Append(rx, h) \in Seq(Pieces)
        /\ Len(Append(rx, h)) = Len(rx) + 1
        /\ Append(rx, h)[Len(rx) + 1] = h
    BY <1>1, <2>5, AppendProperties
  <2>7. Len(rx) + 1 \in DOMAIN Append(rx, h)
    <3>1. Len(rx) \in Nat
      BY <1>1, LenProperties
    <3> QED BY <2>6, <3>1, LenProperties
  <2>8. IsNewline(Append(rx, h)[Len(rx) + 1])
    BY <2>4, <2>6 DEF h
  <2>9. EndsLine(Append(rx, h))
    BY <2>7, <2>8, Zenon DEF EndsLine
  <2> QED BY <2>2, <2>9 DEF h
<1> QED BY <1>3, <1>4 DEF ServedInv

\* A read that goes on has not found a newline, so that one is still to come.
LEMMA ReadServes ==
  ASSUME UartBase, ServedInv, Read
  PROVE  ServedInv'
<1> DEFINE all == buf \o rx
<1>1. UNCHANGED far
  BY ReadIs DEF Parsed, End
<1>2. AnswerHasItsEnd'
  BY <1>1 DEF far, ServedInv, AnswerHasItsEnd
<1>3. ReaderIsServed'
  <2>1. ASSUME NEW s, Parsed(s)
        PROVE  ~Waiting'
    BY <2>1 DEF Parsed, End, Waiting
  <2>2. CASE ~EndsLine(all) /\ UNCHANGED <<dpc, raw>>
    <3>1. ~EndsLine(rx)
      <4>1. buf \in Seq(Pieces) /\ rx \in Seq(Pieces)
        BY DEF UartBase, UartTypes
      <4>2. SUFFICES ASSUME NEW i \in DOMAIN rx, IsNewline(rx[i])
                     PROVE  FALSE
        BY DEF EndsLine
      <4>3. /\ Len(all) = Len(buf) + Len(rx)
            /\ \A j \in 1..Len(rx) : all[Len(buf) + j] = rx[j]
            /\ Len(buf) \in Nat /\ Len(rx) \in Nat
            /\ i \in 1..Len(rx) /\ DOMAIN all = 1..Len(all)
        BY <4>1, <4>2, ConcatProperties, LenProperties
      <4>4. Len(buf) + i \in DOMAIN all /\ IsNewline(all[Len(buf) + i])
        BY <4>2, <4>3
      <4> QED BY <2>2, <4>4 DEF EndsLine
    <3>2. Waiting' => requests > 0 \/ wire # <<>>
      BY <2>2, <3>1 DEF ServedInv, ReaderIsServed, Waiting
    <3> QED BY <1>1, <3>2 DEF ReaderIsServed, far
  <2>3. \/ \E s : Parsed(s)
        \/ ~EndsLine(all) /\ UNCHANGED <<dpc, raw>>
    BY ReadIs
  <2> QED BY <2>1, <2>2, <2>3 DEF ReaderIsServed
<1> QED BY <1>2, <1>3 DEF ServedInv

LEMMA StepServes ==
  ASSUME UartBase, ServedInv, [UartNext]_uvars
  PROVE  ServedInv'
<1> USE DEF ServedInv, AnswerHasItsEnd, ReaderIsServed, Waiting
<1>1. CASE OpenTty
  BY <1>1 DEF OpenTty, far
<1>2. CASE SetAttr
  BY <1>2 DEF SetAttr, far
<1>3. CASE SetAttrFails
  BY <1>3 DEF SetAttrFails, far
<1>4. CASE Ask
  <2>1. requests' > 0
    BY <1>4 DEF Ask, UartBase, UartTypes, AsksOnce
  <2> QED BY <1>4, <2>1 DEF Ask
<1>5. CASE AskFails \/ Kill
  BY <1>5 DEF AskFails, Kill, End, far
<1>6. CASE Read
  BY <1>6, ReadServes
<1>7. CASE Serve
  BY <1>7, ServeServes
<1>8. CASE Send
  BY <1>8, SendServes
<1>9. CASE Update
  BY <1>9 DEF Update, client, tty
<1>10. CASE UNCHANGED uvars
  BY <1>10 DEF uvars, client, tty, far
<1> QED BY <1>1, <1>2, <1>3, <1>4, <1>5, <1>6, <1>7, <1>8, <1>9, <1>10
        DEF UartNext, DumpStep, Propolis

(***************************************************************************)
(* No run that has set its mode waits for an answer nobody will send: a    *)
(* request is still to be served, a line is under way, or one has arrived, *)
(* wherever runs before it were killed.                                    *)
(***************************************************************************)
THEOREM ReadersAreServed == UartSpec => []ReaderIsServed
<1>1. ServedInv => ReaderIsServed
  BY DEF ServedInv
<1> QED BY <1>1, InitServed, StepServes, UartBaseHolds, PTL DEF UartSpec

-----------------------------------------------------------------------------
(* Every step brings a run closer to its end.                              *)

\* The steps of a run and of Propolis before the run ends at the latest: a
\* request costs five of Propolis, and each piece one read at most.
RankOf(pc, n) ==
  IF pc = "open" THEN 13 + n
  ELSE IF pc = "ask" THEN 12 + n
  ELSE IF pc = "read" THEN 1 + n
  ELSE 0

StepsOf(pc, r, w, n) == 10 * r + 2 * w + RankOf(pc, n)

DumpLeft == StepsOf(dpc, requests, Len(wire), Len(rx))

ComesCloser == DumpLeft' < DumpLeft \/ (Update /\ DumpLeft' = DumpLeft)

LEMMA StepsAreFewer ==
  ASSUME NEW r \in Nat, NEW w \in Nat, NEW n \in Nat
  PROVE  /\ \A pc : StepsOf(pc, r, w, n) \in Nat
         /\ \A pc, m : pc \notin Held => \A old \in Held : StepsOf(pc, r, w, m) < StepsOf(old, r, w, n)
         /\ StepsOf("ask", r, w, 0) < StepsOf("open", r, w, n)
         /\ StepsOf("ask", r, w, n) < StepsOf("open", r, w, n)
         /\ StepsOf("read", r + 1, w, n) < StepsOf("ask", r, w, n)
         /\ n > 0 => \A pc \in Held : StepsOf(pc, r, w, 0) < StepsOf(pc, r, w, n)
         /\ r > 0 => \A pc \in Held : StepsOf(pc, r - 1, 4, n) < StepsOf(pc, r, 0, n)
         /\ w > 0 => \A pc \in Held : /\ StepsOf(pc, r, w - 1, n) < StepsOf(pc, r, w, n)
                                     /\ StepsOf(pc, r, w - 1, n + 1) < StepsOf(pc, r, w, n)
BY DEF StepsOf, RankOf, Held

LEMMA StepComesCloser ==
  ASSUME UartBase, dpc \in Held, UartNext
  PROVE  ComesCloser
<1> DEFINE n == Len(rx)
           w == Len(wire)
<1>1. /\ n \in Nat /\ w \in Nat /\ requests \in Nat
      /\ rx \in Seq(Pieces) /\ wire \in Seq(Pieces)
      /\ version \in 0..MaxVersions
  BY LenProperties, UartDumpAssumption DEF UartBase, UartTypes
<1>2. ASSUME NEW how, NEW result, how \notin Held, End(how, result)
      PROVE  ComesCloser
  <2>1. dpc' = how /\ requests' = requests /\ wire' = wire
    BY <1>2, Zenon DEF End, far
  <2>2. StepsOf(how, requests, w, Len(rx')) < StepsOf(dpc, requests, w, n)
    BY <1>1, <1>2, StepsAreFewer, Zenon
  <2> QED BY <2>1, <2>2, Zenon DEF DumpLeft, ComesCloser
<1>3. CASE OpenTty
  BY <1>3 DEF OpenTty, DumpEnded, Held
<1>4. CASE SetAttr
  <2>1. /\ dpc = "open" /\ dpc' = "ask" /\ rx' = <<>>
        /\ requests' = requests /\ wire' = wire
    BY <1>4 DEF SetAttr, far
  <2>2. Len(rx') = 0
    BY <2>1
  <2>3. StepsOf("ask", requests, w, 0) < StepsOf("open", requests, w, n)
    BY <1>1, StepsAreFewer, Zenon
  <2> QED BY <2>1, <2>2, <2>3, Zenon DEF DumpLeft, ComesCloser
<1>5. CASE SetAttrFails
  <2>1. /\ dpc = "open" /\ dpc' = "ask" /\ rx' = rx
        /\ requests' = requests /\ wire' = wire
    BY <1>5 DEF SetAttrFails, tty, far
  <2>2. StepsOf("ask", requests, w, n) < StepsOf("open", requests, w, n)
    BY <1>1, StepsAreFewer, Zenon
  <2> QED BY <2>1, <2>2, Zenon DEF DumpLeft, ComesCloser
<1>6. CASE Ask
  <2>1. /\ dpc = "ask" /\ dpc' = "read" /\ rx' = rx
        /\ requests' = requests + 1 /\ wire' = wire
    BY <1>6 DEF Ask, tty
  <2>2. StepsOf("read", requests + 1, w, n) < StepsOf("ask", requests, w, n)
    BY <1>1, StepsAreFewer, Zenon
  <2> QED BY <2>1, <2>2, Zenon DEF DumpLeft, ComesCloser
<1>7. CASE AskFails \/ Kill
  <2>1. End("failed", <<>>) \/ End("killed", <<>>)
    BY <1>7 DEF AskFails, Kill
  <2>2. "failed" \notin Held /\ "killed" \notin Held
    BY DEF Held
  <2> QED BY <1>2, <2>1, <2>2, Zenon
<1>8. CASE Read
  <2>1. ASSUME NEW s, Parsed(s)
        PROVE  ComesCloser
    <3>1. \E how \in {"done", "garbled"} : \E result : End(how, result)
      BY <2>1 DEF Parsed
    <3>2. "done" \notin Held /\ "garbled" \notin Held
      BY DEF Held
    <3> QED BY <1>2, <3>1, <3>2
  <2>2. CASE rx # <<>> /\ rx' = <<>> /\ UNCHANGED <<dpc, far>>
    <3>1. n > 0 /\ Len(rx') = 0
      BY <1>1, <2>2, EmptySeq
    <3>2. dpc' = dpc /\ requests' = requests /\ wire' = wire
      BY <2>2 DEF far
    <3>3. StepsOf(dpc, requests, w, 0) < StepsOf(dpc, requests, w, n)
      BY <1>1, <3>1, StepsAreFewer, Zenon
    <3> QED BY <3>1, <3>2, <3>3, Zenon DEF DumpLeft, ComesCloser
  <2> QED BY <1>8, <2>1, <2>2, ReadIs
<1>9. CASE Serve
  <2>1. /\ dpc' = dpc /\ rx' = rx /\ wire = <<>>
        /\ requests' = requests - 1 /\ requests > 0
        /\ wire' = Line(version)
    BY <1>9 DEF Serve, client, tty
  <2>2. w = 0 /\ Len(wire') = 4
    BY <1>1, <2>1, LineType
  <2>3. StepsOf(dpc, requests - 1, 4, n) < StepsOf(dpc, requests, 0, n)
    BY <1>1, <2>1, StepsAreFewer, Zenon
  <2> QED BY <2>1, <2>2, <2>3, Zenon DEF DumpLeft, ComesCloser
<1>10. CASE Send
  <2>1. dpc' = dpc /\ requests' = requests /\ wire # <<>> /\ wire' = Tail(wire)
    BY <1>10 DEF Send, client
  <2>2. Len(wire') = w - 1 /\ w > 0
    BY <1>1, <2>1, HeadTailProperties, EmptySeq
  <2>3. Len(rx') = n \/ Len(rx') = n + 1
    <3>1. Head(wire) \in Pieces
      BY <1>1, <2>1, HeadTailProperties
    <3>2. Len(Append(rx, Head(wire))) = n + 1
      BY <1>1, <3>1, AppendProperties
    <3> QED BY <1>10, <3>2, Zenon DEF Send
  <2>4. /\ StepsOf(dpc, requests, w - 1, n) < StepsOf(dpc, requests, w, n)
        /\ StepsOf(dpc, requests, w - 1, n + 1) < StepsOf(dpc, requests, w, n)
    BY <1>1, <2>2, StepsAreFewer, Zenon
  <2> QED BY <2>1, <2>2, <2>3, <2>4, Zenon DEF DumpLeft, ComesCloser
<1>11. CASE Update
  <2>1. DumpLeft' = DumpLeft
    BY <1>11 DEF Update, client, tty, DumpLeft
  <2> QED BY <1>11, <2>1 DEF ComesCloser
<1> QED BY <1>3, <1>4, <1>5, <1>6, <1>7, <1>8, <1>9, <1>10, <1>11
        DEF UartNext, DumpStep, Propolis

(***************************************************************************)
(* While a run has the tty, every step of the run and of Propolis takes    *)
(* one of a number of steps away that no step adds to; a change of the     *)
(* tables takes none.  With the fairness of DumpEnds, and as nothing waits *)
(* for nobody, a run ends.                                                 *)
(***************************************************************************)
THEOREM DumpsAreShort ==
  UartSpec => /\ []((dpc \in Held) => (DumpLeft \in Nat))
              /\ [][(dpc \in Held) => ComesCloser]_uvars
<1>1. UartBase => ((dpc \in Held) => (DumpLeft \in Nat))
  <2> SUFFICES ASSUME UartBase
               PROVE  DumpLeft \in Nat
    OBVIOUS
  <2>1. Len(rx) \in Nat /\ Len(wire) \in Nat /\ requests \in Nat
    BY LenProperties DEF UartBase, UartTypes
  <2> QED BY <2>1, StepsAreFewer, Zenon DEF DumpLeft
<1>2. UartBase /\ [UartNext]_uvars => [(dpc \in Held) => ComesCloser]_uvars
  BY StepComesCloser
<1> QED BY <1>1, <1>2, UartBaseHolds, PTL DEF UartSpec

=============================================================================
