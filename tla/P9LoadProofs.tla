---------------------------- MODULE P9LoadProofs ----------------------------
(***************************************************************************)
(* Proofs about loads over 9P, for any devices, any servers, programs and  *)
(* messages of any size, and any number of loads.                          *)
(***************************************************************************)
EXTENDS P9Load, FiniteSetTheorems, TLAPS

-----------------------------------------------------------------------------
(* The invariant.                                                          *)

\* All of the run's program up to n is there.
Reached(n) == \A x \in 0..(n - 1) :
                x \in DOMAIN stored[dev] /\ stored[dev][x] = <<load, x>>

\* In the loop the bar is behind as soon as a server has taken less than it was
\* sent; after it, only what servers promise is known.
Progress ==
  /\ lpc = "write" => bar <= i /\ (server.whole => bar = i)
  /\ lpc = "clunk" /\ server.whole => Reached(Total)

\* The invariant the proofs start from.
LoadInv ==
  /\ P9TypeOK
  /\ lpc = "find" => i = 0 /\ bar = 0
  /\ \A d \in tried : ~(Candidate(d) /\ Kind[d].p4)
  /\ Progress
  /\ RunsWholePrograms
  /\ BarTellsWhatIsStored
  /\ SoundLoadsSucceed

-----------------------------------------------------------------------------
(* Chunks and what is written.                                             *)

\* There is room for data in a message.
LEMMA StrideType == STRIDE \in Nat \ {0}
BY P9Assumption DEF STRIDE

\* The program of a run has a size.
LEMMA TotalType ==
  ASSUME P9TypeOK, lpc \in Loading
  PROVE  Total \in Nat
<1>1. load \in Runs /\ size \in [Runs -> Sizes]
  BY DEF P9TypeOK
<1>2. size[load] \in Sizes
  BY <1>1
<1> QED BY <1>2, P9Assumption DEF Total

\* A chunk is a stride, or what is left of the program.
LEMMA ChunkFits ==
  ASSUME P9TypeOK, lpc = "write"
  PROVE  /\ i \in Nat /\ i <= Total
         /\ Chunk \in 0..STRIDE
         /\ i + STRIDE < Total => Chunk = STRIDE
         /\ i + STRIDE >= Total => i + Chunk = Total
<1>1. Total \in Nat /\ STRIDE \in Nat \ {0}
  BY StrideType, TotalType DEF Loading
<1>2. i \in Nat /\ i <= Total
  BY <1>1 DEF P9TypeOK
<1> QED BY <1>1, <1>2 DEF Chunk

-----------------------------------------------------------------------------
(* The invariant of a load.                                                *)

\* A guest whose devices nobody has used.
LEMMA P9InitInv == P9Init => LoadInv
<1> SUFFICES ASSUME P9Init PROVE LoadInv
  OBVIOUS
<1>1. P9TypeOK
  BY P9Assumption DEF P9Init, P9TypeOK, Behind, Blank, Loading, LoadEnded
<1> QED
  BY <1>1, P9Assumption
  DEF P9Init, LoadInv, Progress, RunsWholePrograms, BarTellsWhatIsStored,
      SoundLoadsSucceed, Runs

\* What a write does to the bytes behind the device.
LEMMA WriteStores ==
  ASSUME LoadInv, lpc = "write", NEW count \in 0..Chunk,
         stored' = [stored EXCEPT ![dev] = Written(@, load, i, i, count)],
         UNCHANGED <<dev, load>>
  PROVE  /\ Behind(stored)'
         /\ \A x \in DOMAIN stored[dev] :
              x < i => x \in DOMAIN stored'[dev] /\ stored'[dev][x] = stored[dev][x]
         /\ bar = i /\ count = Chunk =>
              \A x \in 0..(i + Chunk - 1) :
                x \in DOMAIN stored'[dev] /\ stored'[dev][x] = <<load, x>>
<1>1. /\ i \in Nat /\ bar \in Nat /\ Chunk \in Nat /\ count \in Nat /\ count <= Chunk
      /\ Total \in Nat /\ load \in Runs /\ dev \in Devices /\ P9TypeOK /\ Behind(stored)
      /\ i < Total \/ i = 0
  BY StrideType, TotalType, ChunkFits DEF LoadInv, P9TypeOK, Loading
<1> DEFINE new == Written(stored[dev], load, i, i, count)
<1>2. stored'[dev] = new /\ stored' = [stored EXCEPT ![dev] = new]
  BY <1>1 DEF Behind
<1>3. /\ DOMAIN new = DOMAIN stored[dev] \cup i..(i + count - 1)
      /\ \A x \in i..(i + count - 1) : new[x] = <<load, x>>
      /\ \A x \in DOMAIN stored[dev] :
           x \notin i..(i + count - 1) => new[x] = stored[dev][x]
  <2>1. \A x \in i..(i + count - 1) : i + (x - i) = x
    BY <1>1
  <2> QED BY <1>1, <2>1 DEF Written
<1> HIDE DEF new
<1>4. \A x \in DOMAIN new : x \in Nat /\ new[x] \in Bytes
  <2>1. ASSUME NEW x \in i..(i + count - 1)
        PROVE  x \in Nat /\ new[x] \in Bytes
    <3>1. x \in Nat /\ new[x] = <<load, x>>
      BY <1>1, <1>3
    <3> QED BY <1>1, <3>1 DEF Bytes
  <2>2. ASSUME NEW x \in DOMAIN stored[dev], x \notin i..(i + count - 1)
        PROVE  x \in Nat /\ new[x] \in Bytes
    BY <1>1, <1>3, <2>2 DEF Behind
  <2> QED BY <1>3, <2>1, <2>2
<1>5. Behind(stored)'
  BY <1>1, <1>2, <1>4 DEF Behind
<1>6. \A x \in DOMAIN stored[dev] : x < i => x \in DOMAIN new /\ new[x] = stored[dev][x]
  BY <1>1, <1>3 DEF Behind
<1>7. ASSUME bar = i, count = Chunk, NEW x \in 0..(i + Chunk - 1)
      PROVE  x \in DOMAIN new /\ new[x] = <<load, x>>
  <2>1. CASE x < i
    <3>1. x \in DOMAIN stored[dev] /\ stored[dev][x] = <<load, x>>
      BY <1>1, <1>7, <2>1 DEF LoadInv, BarTellsWhatIsStored
    <3> QED BY <1>6, <2>1, <3>1
  <2>2. CASE x >= i
    BY <1>1, <1>3, <1>7, <2>2
  <2> QED BY <1>1, <2>1, <2>2
<1> QED BY <1>2, <1>5, <1>6, <1>7

\* Steps that leave the programs that run alone, and do not end in "done".
LEMMA OthersRun ==
  ASSUME LoadInv, [P9Next]_p9vars, UNCHANGED running
  PROVE  RunsWholePrograms'
<1>1. UNCHANGED <<size, server>> /\ load \in Nat /\ load' \in Nat /\ load <= load'
  BY DEF P9Next, BeginLoad, LoadStep, Skip, Find, Opened, FindFails, Write, WriteFails,
         Clunk, ClunkFails, KillLoad, Finish, p9vars, LoadInv, P9TypeOK
<1>2. ASSUME NEW d \in Devices, server.whole, running[d] # Blank
      PROVE  \E k \in 1..load' : Whole(running[d], k)'
  <2>1. PICK k \in 1..load : Whole(running[d], k)
    BY <1>2 DEF LoadInv, RunsWholePrograms
  <2> QED BY <1>1, <2>1 DEF Whole
<1> QED BY <1>1, <1>2 DEF RunsWholePrograms

\* Steps that bind the run to no more than it had, and end without success.
LEMMA OtherSteps ==
  ASSUME LoadInv, [P9Next]_p9vars
  PROVE  /\ UNCHANGED <<size, server>>
         /\ \A d \in tried' : ~(Candidate(d) /\ Kind[d].p4)
         /\ lpc' = "find" => i' = 0 /\ bar' = 0
<1> USE DEF LoadInv
<1>1. UNCHANGED <<size, server>>
  BY DEF P9Next, BeginLoad, LoadStep, Skip, Find, Opened, FindFails, Write, WriteFails,
         Clunk, ClunkFails, KillLoad, Finish, p9vars
<1>2. \A d \in tried' : ~(Candidate(d) /\ Kind[d].p4)
  BY DEF P9Next, BeginLoad, LoadStep, Skip, Find, Opened, FindFails, Write, WriteFails,
         Clunk, ClunkFails, KillLoad, Finish, p9vars
<1>3. lpc' = "find" => i' = 0 /\ bar' = 0
  BY DEF P9Next, BeginLoad, LoadStep, Skip, Find, Opened, FindFails, Write, Advance,
         GoOn, WriteFails, Clunk, ClunkFails, KillLoad, Finish, p9vars
<1> QED BY <1>1, <1>2, <1>3

\* A server that does all it should is not given up.
LEMMA SoundStays ==
  ASSUME LoadInv, [P9Next]_p9vars
  PROVE  SoundLoadsSucceed'
<1> SUFFICES ASSUME server'.sound, server'.msize = MSIZE, lpc' = "failed",
                    NEW d \in Devices, Candidate(d), Kind[d].p4
             PROVE  FALSE
  BY DEF SoundLoadsSucceed
<1>1. server.sound /\ server.msize = MSIZE
  BY OtherSteps
<1>2. lpc # "failed"
  BY <1>1 DEF LoadInv, SoundLoadsSucceed
<1>3. ~FindFails
  BY <1>1 DEF FindFails, LoadInv
<1>4. ~WriteFails
  <2> SUFFICES ASSUME lpc = "write", HEADER + Chunk > MSIZE PROVE FALSE
    BY <1>1 DEF WriteFails
  <2>1. Chunk \in 0..STRIDE
    BY ChunkFits DEF LoadInv
  <2> QED BY <2>1, P9Assumption DEF STRIDE
<1>5. ~ClunkFails
  BY <1>1 DEF ClunkFails
<1> QED
  BY <1>2, <1>3, <1>4, <1>5
  DEF P9Next, BeginLoad, LoadStep, Skip, Find, Opened, Write, Advance, GoOn, Clunk, KillLoad,
      Finish, p9vars

\* Steps that leave alone what the bar tells of.
LEMMA BarStays ==
  ASSUME LoadInv, UNCHANGED <<load, i, bar, size, dev>>,
         \/ UNCHANGED stored
         \/ /\ dev \in Devices
            /\ \A x \in DOMAIN stored[dev] :
                 x < i => x \in DOMAIN stored'[dev] /\ stored'[dev][x] = stored[dev][x]
  PROVE  BarTellsWhatIsStored'
<1> SUFFICES ASSUME load \in Runs, i < Total, bar = i, NEW x \in 0..(i - 1)
             PROVE  x \in DOMAIN stored'[dev] /\ stored'[dev][x] = <<load, x>>
  BY DEF BarTellsWhatIsStored, Total
<1>1. x \in DOMAIN stored[dev] /\ stored[dev][x] = <<load, x>> /\ i \in Nat
  BY DEF LoadInv, BarTellsWhatIsStored, P9TypeOK
<1> QED BY <1>1

\* Every step keeps the invariant.
LEMMA P9StepInv ==
  ASSUME LoadInv, [P9Next]_p9vars
  PROVE  LoadInv'
<1> DEFINE Kept == P9TypeOK /\ Progress /\ RunsWholePrograms /\ BarTellsWhatIsStored
<1>1. SUFFICES Kept'
  BY OtherSteps, SoundStays DEF LoadInv
<1>2. Kept /\ (lpc = "find" => i = 0 /\ bar = 0)
  BY DEF LoadInv
<1>3. UNCHANGED running => RunsWholePrograms'
  BY OthersRun
<1> USE <1>2 DEF P9TypeOK, Loading, LoadEnded
<1>4. CASE UNCHANGED p9vars
  BY <1>4, <1>3, BarStays DEF p9vars, Behind, Total, Progress, Reached
<1>5. CASE BeginLoad
  BY <1>5, <1>3, P9Assumption DEF BeginLoad, Behind, Runs, Progress, BarTellsWhatIsStored
<1>6. ASSUME NEW d \in Devices, Skip(d)
      PROVE  Kept'
  BY <1>6, <1>3, BarStays DEF Skip, Behind, Progress
<1>7. ASSUME NEW d \in Devices, Find(d)
      PROVE  Kept'
  <2>1. P9TypeOK'
    BY <1>7 DEF Find, Opened, Behind, Blank, Total
  <2>2. lpc' = "write" /\ i' = 0 /\ bar' = 0
    BY <1>7 DEF Find, Opened
  <2>3. Progress' /\ BarTellsWhatIsStored'
    BY <2>2 DEF Progress, BarTellsWhatIsStored
  <2> QED BY <1>7, <2>1, <2>3, <1>3 DEF Find, Opened
<1>8. CASE FindFails \/ KillLoad
  BY <1>8, <1>3, BarStays DEF FindFails, KillLoad, Finish, Behind, Progress
<1>9. CASE WriteFails
  <2>1. /\ lpc = "write" /\ dev \in Devices /\ lpc' = "failed"
        /\ UNCHANGED <<load, tried, dev, i, bar, size, server, running>>
    BY <1>9 DEF WriteFails, Finish
  <2>2. Chunk \in 0..Chunk
    BY <2>1, StrideType, ChunkFits
  <2>3. /\ Behind(stored)'
        /\ \/ UNCHANGED stored
           \/ \A x \in DOMAIN stored[dev] :
                x < i => x \in DOMAIN stored'[dev] /\ stored'[dev][x] = stored[dev][x]
    <3>1. CASE UNCHANGED stored
      BY <3>1 DEF Behind
    <3>2. CASE stored' = [stored EXCEPT ![dev] = Written(@, load, i, i, Chunk)]
      BY <2>1, <2>2, <3>2, WriteStores
    <3> QED BY <1>9, <3>1, <3>2 DEF WriteFails
  <2>4. P9TypeOK'
    BY <2>1, <2>3 DEF Behind
  <2>5. BarTellsWhatIsStored'
    BY <2>1, <2>3, BarStays
  <2> QED BY <2>1, <2>4, <2>5, <1>3 DEF Progress
<1>10. ASSUME NEW count \in 0..STRIDE, Write(count)
       PROVE  Kept'
  <2>1. /\ i \in Nat /\ STRIDE \in Nat \ {0} /\ bar \in Nat /\ count \in Nat
        /\ Total \in Nat /\ lpc = "write" /\ load \in Runs /\ dev \in Devices
    BY <1>10, StrideType, TotalType DEF Write
  <2>2. /\ Chunk \in 0..STRIDE
        /\ i + STRIDE < Total => Chunk = STRIDE
        /\ i + STRIDE >= Total => i + Chunk = Total
    BY <2>1, ChunkFits
  <2>3. /\ count \in 0..Chunk
        /\ bar <= i
        /\ server.whole => bar = i /\ count = Chunk
    BY <1>10, <2>1, <2>2 DEF Write, Progress
  <2>4. /\ i' = i + STRIDE
        /\ bar' = IF i + STRIDE >= Total THEN Total ELSE bar + count
        /\ lpc' = IF i + STRIDE >= Total THEN "clunk" ELSE "write"
        /\ UNCHANGED <<load, tried, dev, size, server, running>>
        /\ stored' = [stored EXCEPT ![dev] = Written(@, load, i, i, count)]
    BY <1>10 DEF Write, Advance, GoOn
  <2>5. /\ Behind(stored)'
        /\ bar = i /\ count = Chunk =>
             \A x \in 0..(i + Chunk - 1) :
               x \in DOMAIN stored'[dev] /\ stored'[dev][x] = <<load, x>>
    BY <2>1, <2>3, <2>4, WriteStores
  <2>6. Total' = Total
    BY <2>4 DEF Total
  <2>7. P9TypeOK'
    <3>1. {i, bar}' \subseteq Nat /\ (lpc' = "write" => i' < Total')
      BY <2>1, <2>4, <2>6
    <3>2. Behind(running)'
      BY <2>4 DEF Behind
    <3> QED BY <2>1, <2>4, <2>5, <3>1, <3>2
  <2>8. CASE i + STRIDE >= Total
    <3>1. i + Chunk = Total /\ lpc' = "clunk" /\ ~(i' < Total')
      BY <2>1, <2>2, <2>4, <2>6, <2>8
    <3>2. server'.whole => Reached(Total)'
      BY <2>3, <2>4, <2>5, <2>6, <3>1 DEF Reached
    <3> QED BY <2>4, <2>7, <3>1, <3>2, <1>3 DEF Progress, BarTellsWhatIsStored
  <2>9. CASE ~(i + STRIDE >= Total)
    <3>1. Chunk = STRIDE /\ lpc' = "write" /\ bar' = bar + count
      BY <2>1, <2>2, <2>4, <2>9
    <3>2. bar' <= i' /\ (bar' = i' => bar = i /\ count = Chunk)
      BY <2>1, <2>3, <2>4, <3>1
    <3>3. server'.whole => bar' = i'
      BY <2>3, <2>4, <3>1
    <3>4. BarTellsWhatIsStored'
      BY <2>4, <2>5, <3>1, <3>2 DEF BarTellsWhatIsStored
    <3> QED BY <2>4, <2>7, <3>1, <3>2, <3>3, <3>4, <1>3 DEF Progress
  <2> QED BY <2>8, <2>9
<1>11. CASE Clunk \/ ClunkFails
  <2>1. /\ lpc = "clunk" /\ lpc' \in {"done", "failed"} /\ dev \in Devices
        /\ UNCHANGED <<load, tried, dev, i, bar, size, server, stored>>
        /\ running' = running \/ running' = [running EXCEPT ![dev] = stored[dev]]
    BY <1>11 DEF Clunk, ClunkFails, Finish
  <2>2. P9TypeOK'
    BY <2>1 DEF Behind
  <2>3. BarTellsWhatIsStored'
    BY <2>1, BarStays
  <2>4. RunsWholePrograms'
    <3> SUFFICES ASSUME server.whole, NEW d \in Devices, running'[d] # Blank
                 PROVE  \E k \in 1..load' : Whole(running[d], k)'
      BY <2>1 DEF RunsWholePrograms
    <3>1. CASE running'[d] = running[d]
      BY <2>1, <3>1 DEF RunsWholePrograms, Whole
    <3>2. CASE running'[d] # running[d]
      <4>1. running'[d] = stored[dev]
        BY <2>1, <3>2 DEF Behind
      <4>2. Whole(stored[dev], load)
        BY <2>1 DEF Progress, Reached, Whole, Total
      <4>3. load \in 1..load'
        BY <2>1 DEF Runs
      <4> QED BY <2>1, <4>1, <4>2, <4>3 DEF Whole
    <3> QED BY <3>1, <3>2
  <2> QED BY <2>1, <2>2, <2>3, <2>4 DEF Progress
<1> QED
  BY <1>4, <1>5, <1>6, <1>7, <1>8, <1>9, <1>10, <1>11 DEF P9Next, LoadStep

\* The invariant holds in every state.
LEMMA P9Invariance == P9Spec => []LoadInv
BY P9InitInv, P9StepInv, PTL DEF P9Spec

-----------------------------------------------------------------------------
(***************************************************************************)
(* The loop of load_program keeps its types for programs of every size: it *)
(* never asks for bytes from beyond their end.                             *)
(***************************************************************************)
THEOREM LoadsAreTyped == P9Spec => []P9TypeOK
<1>1. LoadInv => P9TypeOK
  BY DEF LoadInv
<1> QED BY <1>1, P9Invariance, PTL

(***************************************************************************)
(* Whatever loads fail or are killed, and wherever, what runs is all of a  *)
(* program, if servers take all of every write.                            *)
(***************************************************************************)
THEOREM WholeProgramsRun == P9Spec => []RunsWholePrograms
<1>1. LoadInv => RunsWholePrograms
  BY DEF LoadInv
<1> QED BY <1>1, P9Invariance, PTL

(***************************************************************************)
(* However little a server takes of each write, and wherever a load breaks *)
(* off, a bar that has kept up with the offset means that every byte       *)
(* before it is in the server.                                             *)
(***************************************************************************)
THEOREM BarsAreHonest == P9Spec => []BarTellsWhatIsStored
<1>1. LoadInv => BarTellsWhatIsStored
  BY DEF LoadInv
<1> QED BY <1>1, P9Invariance, PTL

(***************************************************************************)
(* With a server that agrees to the msize and answers, no load fails, for  *)
(* a program of any size.                                                  *)
(***************************************************************************)
THEOREM SoundServersAreLoaded == P9Spec => []SoundLoadsSucceed
<1>1. LoadInv => SoundLoadsSucceed
  BY DEF LoadInv
<1> QED BY <1>1, P9Invariance, PTL

-----------------------------------------------------------------------------
(* The steps a load has left at most.                                      *)

\* A device less to look at, or a byte less to write, in every step; and the
\* end of the search, the first write, the clunk.
Others(S) == Cardinality(Devices \ S)
Untried   == Others(tried)
Unwritten == IF i < Total THEN Total - i ELSE 0

LoadLeft ==
  CASE lpc = "find"  -> Untried + Total + 3
    [] lpc = "write" -> Unwritten + 2
    [] lpc = "clunk" -> 1
    [] OTHER         -> 0

\* There are finitely many devices, and one less once one has been tried.
LEMMA UntriedType ==
  ASSUME NEW S \in SUBSET Devices
  PROVE  /\ Others(S) \in 0..Cardinality(Devices)
         /\ Others(S) \in Nat
         /\ Cardinality(Devices) \in Nat
         /\ \A d \in Devices \ S : Others(S \cup {d}) < Others(S)
<1>1. IsFiniteSet(Devices)
  BY P9Assumption
<1> DEFINE T == Devices \ S
<1>2. T \in SUBSET Devices /\ Others(S) = Cardinality(T)
  BY DEF Others
<1>3. \A d \in T : Others(S \cup {d}) = Cardinality(T \ {d})
  <2> SUFFICES ASSUME NEW d \in T
               PROVE  Others(S \cup {d}) = Cardinality(T \ {d})
    OBVIOUS
  <2>1. Devices \ (S \cup {d}) = T \ {d}
    OBVIOUS
  <2> QED BY <2>1, Zenon DEF Others
<1> HIDE DEF T
<1>4. /\ Cardinality(Devices) \in Nat
      /\ IsFiniteSet(T)
      /\ Cardinality(T) <= Cardinality(Devices)
      /\ Cardinality(T) \in Nat
  BY <1>1, <1>2, FS_Subset, FS_CardinalityType
<1>5. \A d \in T : Cardinality(T \ {d}) = Cardinality(T) - 1
  BY <1>4, FS_RemoveElement
<1>6. \A d \in T : Others(S \cup {d}) < Others(S)
  <2> SUFFICES ASSUME NEW d \in T PROVE Others(S \cup {d}) < Others(S)
    OBVIOUS
  <2>1. Cardinality(T) - 1 < Cardinality(T)
    BY <1>4
  <2>2. Others(S \cup {d}) = Cardinality(T) - 1
    BY <1>3, <1>5
  <2> QED BY <1>2, <2>1, <2>2
<1> QED BY <1>2, <1>4, <1>6 DEF T

\* What is left is a number, and no more than there was at the start.
LEMMA LoadLeftType ==
  ASSUME LoadInv
  PROVE  /\ LoadLeft \in Nat
         /\ lpc \in Loading => /\ Total \in Nat /\ Unwritten \in 0..Total
                               /\ LoadLeft <= Cardinality(Devices) + Total + 3
<1>1. P9TypeOK /\ tried \in SUBSET Devices
  BY DEF LoadInv, P9TypeOK
<1>2. Untried \in 0..Cardinality(Devices) /\ Cardinality(Devices) \in Nat
  BY <1>1, UntriedType DEF Untried
<1>3. CASE lpc \in Loading
  <2>1. Total \in Nat /\ i \in Nat
    BY <1>1, <1>3, TotalType DEF P9TypeOK
  <2>2. Unwritten \in 0..Total
    BY <2>1 DEF Unwritten
  <2> QED BY <1>2, <1>3, <2>1, <2>2 DEF LoadLeft, Loading
<1>4. CASE lpc \notin Loading
  <2>1. LoadLeft = 0
    BY <1>4 DEF LoadLeft, Loading
  <2> QED BY <1>4, <2>1
<1> QED BY <1>3, <1>4

\* A step while a load is under way leaves fewer of them.
LoadGoesOn == (lpc \in Loading) => LoadLeft' < LoadLeft

(***************************************************************************)
(* A load takes no more steps than there are devices to look at and bytes  *)
(* to write, and three: however little a server takes of each write, each  *)
(* step brings the load nearer to its end.                                 *)
(***************************************************************************)
THEOREM LoadsAreShort ==
  P9Spec => /\ [](lpc \in Loading => LoadLeft \in 0..(Cardinality(Devices) + Total + 3))
            /\ [][LoadGoesOn]_p9vars
<1>1. LoadInv => (lpc \in Loading => LoadLeft \in 0..(Cardinality(Devices) + Total + 3))
  <2> SUFFICES ASSUME LoadInv, lpc \in Loading
               PROVE  LoadLeft \in 0..(Cardinality(Devices) + Total + 3)
    OBVIOUS
  <2>1. Cardinality(Devices) \in Nat
    BY P9Assumption, FS_CardinalityType
  <2> QED BY <2>1, LoadLeftType
<1>2. LoadInv /\ [P9Next]_p9vars => [LoadGoesOn]_p9vars
  <2> SUFFICES ASSUME LoadInv, P9Next, lpc \in Loading
               PROVE  LoadLeft' < LoadLeft
    BY DEF LoadGoesOn
  <2>1. /\ Total \in Nat /\ Unwritten \in 0..Total /\ LoadLeft \in Nat
        /\ Untried \in Nat /\ i \in Nat
    <3>1. tried \in SUBSET Devices /\ i \in Nat
      BY DEF LoadInv, P9TypeOK
    <3>2. Untried \in Nat
      BY <3>1, UntriedType DEF Untried
    <3> QED BY <3>1, <3>2, LoadLeftType
  <2>2. LoadLeft > 0
    BY <2>1 DEF LoadLeft, Loading
  <2>3. CASE BeginLoad
    BY <2>3 DEF BeginLoad, Loading, LoadEnded
  <2>4. ASSUME NEW d \in Devices, Skip(d)
        PROVE  LoadLeft' < LoadLeft
    <3>1. /\ lpc = "find" /\ lpc' = "find" /\ d \in Devices \ tried
          /\ tried' = tried \cup {d} /\ UNCHANGED <<size, load>>
      BY <2>4 DEF Skip
    <3>2. tried \in SUBSET Devices
      BY DEF LoadInv, P9TypeOK
    <3>3. Untried' < Untried /\ Untried' \in Nat
      <4>1. tried \cup {d} \in SUBSET Devices
        BY <3>2
      <4>2. Others(tried \cup {d}) \in Nat /\ Others(tried \cup {d}) < Others(tried)
        BY <3>1, <3>2, <4>1, UntriedType
      <4> QED BY <3>1, <4>2, Zenon DEF Untried
    <3>4. LoadLeft = Untried + Total + 3 /\ LoadLeft' = Untried' + Total + 3
      BY <3>1 DEF LoadLeft, Total
    <3>5. \A a, b \in Nat : a < b => a + Total + 3 < b + Total + 3
      BY <2>1
    <3> QED BY <2>1, <3>3, <3>4, <3>5
  <2>5. ASSUME NEW d \in Devices, Find(d)
        PROVE  LoadLeft' < LoadLeft
    <3>1. lpc = "find" /\ lpc' = "write" /\ UNCHANGED <<size, load, i>>
      BY <2>5 DEF Find, Opened
    <3>2. LoadLeft = Untried + Total + 3 /\ LoadLeft' = Unwritten + 2
      BY <3>1 DEF LoadLeft, Unwritten, Total
    <3> QED BY <2>1, <3>2
  <2>6. ASSUME NEW count \in 0..STRIDE, Write(count)
        PROVE  LoadLeft' < LoadLeft
    <3>1. /\ lpc = "write" /\ i' = i + STRIDE
          /\ lpc' = IF i + STRIDE >= Total THEN "clunk" ELSE "write"
          /\ UNCHANGED <<size, load>>
      BY <2>6 DEF Write, Advance, GoOn
    <3>2. Total' = Total /\ LoadLeft = Unwritten + 2
      BY <3>1 DEF Total, LoadLeft
    <3>3. CASE i + STRIDE >= Total
      <4>1. LoadLeft' = 1
        BY <3>1, <3>3 DEF LoadLeft
      <4> QED BY <2>1, <3>2, <4>1
    <3>4. CASE ~(i + STRIDE >= Total)
      <4>1. i + STRIDE < Total /\ i < Total /\ i \in Nat /\ STRIDE \in Nat /\ STRIDE > 0
        BY <2>1, <3>4, StrideType
      <4>2. lpc' = "write" /\ Unwritten' = Total - (i + STRIDE)
        BY <2>1, <3>1, <3>2, <3>4, <4>1 DEF Unwritten
      <4>4. LoadLeft' = (Total - (i + STRIDE)) + 2
        BY <4>2 DEF LoadLeft
      <4>3. Unwritten = Total - i
        BY <4>1 DEF Unwritten
      <4> QED BY <2>1, <3>2, <4>1, <4>3, <4>4
    <3> QED BY <3>3, <3>4
  <2>7. CASE FindFails \/ WriteFails \/ Clunk \/ ClunkFails \/ KillLoad
    <3>1. lpc' \in LoadEnded
      BY <2>7 DEF FindFails, WriteFails, Clunk, ClunkFails, KillLoad, Finish, LoadEnded
    <3>2. LoadLeft' = 0
      BY <3>1 DEF LoadLeft, LoadEnded
    <3> QED BY <2>1, <2>2, <3>2
  <2> QED BY <2>3, <2>4, <2>5, <2>6, <2>7 DEF P9Next, LoadStep
<1> QED BY <1>1, <1>2, P9Invariance, PTL DEF P9Spec

=============================================================================
