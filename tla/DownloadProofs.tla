--------------------------- MODULE DownloadProofs ---------------------------
(***************************************************************************)
(* Proofs about the download loops of npuvm, for files of any size.        *)
(***************************************************************************)
EXTENDS Download, SequenceTheorems, TLAPS

\* What is in the file is the beginning of what this attempt receives; and
\* once a download has succeeded, last_error is not set again.
DownloadInv ==
  /\ DownloadTypeOK
  /\ pc = "setup" => file = <<>>
  /\ pc \in {"transfer", "code"} =>
       /\ got <= Len(Body(code))
       /\ Len(file) = got
       /\ \A i \in 1..got : file[i] = Body(code)[i]
  /\ pc = "code" => got = Len(Body(code))
  /\ (pc = "done" /\ ~lastError) \/ pc = "ok" => file = Body(OK)

\* The file, and an error page.
LEMMA BodyType ==
  ASSUME NEW c \in Codes
  PROVE  /\ Body(c) \in Seq(Codes \X Nat)
         /\ Len(Body(c)) \in 0..Size + 1
         /\ \A i \in 1..Len(Body(c)) : Body(c)[i] = <<c, i>>
<1> DEFINE n == IF c = OK THEN Size ELSE 1
<1>1. n \in Nat /\ n <= Size + 1 /\ n \in 0..Size + 1
  BY DownloadAssumption
<1>2. Body(c) = [i \in 1..n |-> <<c, i>>]
  BY DEF Body
<1> HIDE DEF n
<1>3. Body(c) \in [1..n -> Codes \X Nat]
  BY <1>1, <1>2
<1>4. Body(c) \in Seq(Codes \X Nat) /\ Len(Body(c)) = n
  BY <1>1, <1>3, SeqDef
<1> QED BY <1>1, <1>2, <1>4

\* The loop begins with no error and no file.
LEMMA DownloadInitInv == DownloadInit => DownloadInv
<1> SUFFICES ASSUME DownloadInit PROVE DownloadInv
  OBVIOUS
<1>1. attempt \in 1..MAX_ATTEMPTS /\ got \in 0..Size + 1
  BY DownloadAssumption DEF DownloadInit, MAX_ATTEMPTS
<1>2. code \in Codes
  BY DEF DownloadInit, Codes
<1>3. lastError \in BOOLEAN
  BY DEF DownloadInit
<1>4. file \in Seq(Codes \X Nat)
  BY DEF DownloadInit
<1> QED BY <1>1, <1>2, <1>3, <1>4 DEF DownloadInit, DownloadInv, DownloadTypeOK, Ended

\* An attempt that fails leaves the types, and the error.
LEMMA RetryType ==
  ASSUME DownloadTypeOK, Retry \/ GiveUp
  PROVE  /\ attempt' \in 1..MAX_ATTEMPTS
         /\ lastError' \in BOOLEAN
         /\ \/ pc' = "create"
            \/ pc' = "done" /\ lastError' = TRUE
            \/ pc' = "failed"
<1>1. CASE Retry
  BY <1>1 DEF DownloadTypeOK, Retry, MAX_ATTEMPTS
<1>2. CASE GiveUp
  BY <1>2 DEF DownloadTypeOK, GiveUp
<1> QED BY <1>1, <1>2

\* Every step keeps the invariant.
LEMMA DownloadStepInv ==
  ASSUME DownloadInv, [DownloadNext]_dvars
  PROVE  DownloadInv'
<1> USE DEF DownloadInv, DownloadTypeOK, Ended
<1>1. CASE UNCHANGED dvars
  BY <1>1 DEF dvars, Body
<1>2. CASE Create
  BY <1>2 DEF Create
<1>3. CASE CreateFails \/ SetUpFails \/ CallbackFails \/ BreakOff \/ CodeUnreadable
  <2>1. (Retry \/ GiveUp) /\ UNCHANGED <<code, got, file>>
    BY <1>3 DEF CreateFails, SetUpFails, CallbackFails, BreakOff, CodeUnreadable
  <2> QED BY <2>1, RetryType
<1>4. CASE SetUp
  <2>1. code' \in Codes /\ Len(Body(code')) \in Nat
    BY <1>4, BodyType, DownloadAssumption DEF SetUp
  <2>2. 0 \in 0..Size + 1
    BY DownloadAssumption
  <2> QED BY <1>4, <2>1, <2>2 DEF SetUp
<1>5. CASE Receive
  <2>1. /\ pc = "transfer" /\ got < Len(Body(code)) /\ got' = got + 1
        /\ file' = Append(file, Body(code)[got + 1])
        /\ UNCHANGED <<pc, attempt, lastError, code>>
    BY <1>5 DEF Receive
  <2>2. /\ got \in Nat /\ Len(Body(code)) \in 0..Size + 1 /\ Len(file) = got
        /\ file \in Seq(Codes \X Nat)
        /\ Body(code)[got + 1] \in Codes \X Nat
    <3>1. /\ Len(Body(code)) \in 0..Size + 1
          /\ \A i \in 1..Len(Body(code)) : Body(code)[i] = <<code, i>>
      BY BodyType
    <3>2. got \in Nat /\ got + 1 \in 1..Len(Body(code))
      BY <2>1, <3>1, DownloadAssumption
    <3>3. Body(code)[got + 1] \in Codes \X Nat
      <4>1. Body(code)[got + 1] = <<code, got + 1>> /\ code \in Codes /\ got + 1 \in Nat
        BY <3>1, <3>2
      <4> HIDE DEF DownloadInv, DownloadTypeOK
      <4> QED BY <4>1
    <3>4. Len(file) = got /\ file \in Seq(Codes \X Nat)
      BY <2>1
    <3> QED BY <3>1, <3>2, <3>3, <3>4
  <2>3. /\ file' \in Seq(Codes \X Nat) /\ Len(file') = got + 1
        /\ \A i \in 1..got : file'[i] = file[i]
        /\ file'[got + 1] = Body(code)[got + 1]
    BY <2>1, <2>2
  <2>4. \A i \in 1..got' : file'[i] = Body(code)[i]
    BY <2>1, <2>2, <2>3
  <2>5. got' \in 0..Size + 1 /\ got' <= Len(Body(code))
    BY <2>1, <2>2, DownloadAssumption
  <2> QED BY <2>1, <2>3, <2>4, <2>5 DEF Body
<1>6. CASE Pause \/ Complete
  BY <1>6 DEF Pause, Complete, Body
<1>7. CASE CheckCode
  <2>1. CASE code = OK
    <3>1. Len(file) = Len(Body(OK)) /\ \A i \in 1..Len(file) : file[i] = Body(OK)[i]
      BY <1>7, <2>1 DEF CheckCode
    <3>2. file \in Seq(Codes \X Nat) /\ Body(OK) \in Seq(Codes \X Nat)
      BY <2>1, BodyType
    <3>3. file = Body(OK)
      BY <3>1, <3>2, SeqEqual
    <3> QED BY <1>7, <2>1, <3>3 DEF CheckCode, Body
  <2>2. CASE code # OK
    <3>1. Retry /\ UNCHANGED <<code, got, file>>
      BY <1>7, <2>2 DEF CheckCode
    <3> QED BY <3>1, RetryType
  <2> QED BY <2>1, <2>2
<1>8. CASE Report
  BY <1>8 DEF Report, Body
<1> QED BY <1>1, <1>2, <1>3, <1>4, <1>5, <1>6, <1>7, <1>8 DEF DownloadNext

\* The invariant holds in every state.
LEMMA DownloadInvariance == DownloadSpec => []DownloadInv
BY DownloadInitInv, DownloadStepInv, PTL DEF DownloadSpec

(***************************************************************************)
(* The loop makes MAX_ATTEMPTS attempts and no more, and keeps its types.  *)
(***************************************************************************)
THEOREM DownloadsAreTyped == DownloadSpec => []DownloadTypeOK
<1>1. DownloadInv => DownloadTypeOK
  BY DEF DownloadInv
<1> QED BY <1>1, DownloadInvariance, PTL

(***************************************************************************)
(* For files of any size, a download that is reported done has left the    *)
(* whole file, whatever the attempts before it have written.               *)
(***************************************************************************)
THEOREM DownloadsAreWhole == DownloadSpec => []OkMeansWhole
<1>1. DownloadInv => OkMeansWhole
  BY DEF DownloadInv, OkMeansWhole
<1> QED BY <1>1, DownloadInvariance, PTL

-----------------------------------------------------------------------------
(* The steps a download has left at most.                                  *)

\* Those of an attempt: create, set up, receive, complete, check.
PerAttempt == Size + 6

LeftInAttempt ==
  CASE pc = "create"   -> Size + 5
    [] pc = "setup"    -> Size + 4
    [] pc = "transfer" -> Len(Body(code)) - got + 2
    [] OTHER           -> 1

LeftInLoop == (MAX_ATTEMPTS - attempt) * PerAttempt + LeftInAttempt

\* After the loop there is Report.
StepsLeft ==
  CASE pc \in {"create", "setup", "transfer", "code"} -> LeftInLoop + 1
    [] pc = "done"                                     -> 1
    [] OTHER                                           -> 0

\* One attempt less is PerAttempt less.
LEMMA AttemptsCount ==
  ASSUME NEW a \in 1..MAX_ATTEMPTS
  PROVE  LET rest(b) == (MAX_ATTEMPTS - b) * PerAttempt IN
         /\ PerAttempt \in Nat
         /\ rest(a) \in Nat
         /\ rest(a) <= MAX_ATTEMPTS * PerAttempt - PerAttempt
         /\ a < MAX_ATTEMPTS => rest(a) = rest(a + 1) + PerAttempt
<1>1. PerAttempt \in Nat
  BY DownloadAssumption DEF PerAttempt
<1> DEFINE s == PerAttempt
<1> HIDE DEF s
<1>2. s \in Nat
  BY <1>1 DEF s
<1>3. a \in {1, 2, 3, 4, 5} /\ MAX_ATTEMPTS = 5
  BY DEF MAX_ATTEMPTS
<1>4. /\ (5 - a) * s \in Nat
      /\ (5 - a) * s <= 5 * s - s
      /\ a < 5 => (5 - a) * s = (5 - (a + 1)) * s + s
  <2>1. CASE a = 1
    BY <1>2, <2>1
  <2>2. CASE a = 2
    BY <1>2, <2>2
  <2>3. CASE a = 3
    BY <1>2, <2>3
  <2>4. CASE a = 4
    BY <1>2, <2>4
  <2>5. CASE a = 5
    BY <1>2, <2>5
  <2> QED BY <1>3, <2>1, <2>2, <2>3, <2>4, <2>5
<1> QED BY <1>1, <1>3, <1>4 DEF s

\* An attempt has at least one step left, and no more than it takes.
LEMMA LeftIsLeft ==
  ASSUME DownloadInv
  PROVE  /\ LeftInAttempt \in 1..(PerAttempt - 1)
         /\ LeftInLoop \in Nat
         /\ StepsLeft \in 0..(MAX_ATTEMPTS * PerAttempt)
<1>0. attempt \in 1..MAX_ATTEMPTS /\ code \in Codes /\ got \in Nat
  BY DownloadAssumption DEF DownloadInv, DownloadTypeOK
<1>1. LeftInAttempt \in 1..(PerAttempt - 1)
  <2>1. Len(Body(code)) \in Nat /\ Len(Body(code)) <= Size + 1
    BY <1>0, BodyType, DownloadAssumption
  <2>2. pc = "transfer" => got <= Len(Body(code))
    BY DEF DownloadInv
  <2> QED BY <1>0, <2>1, <2>2, DownloadAssumption DEF LeftInAttempt, PerAttempt
<1> DEFINE rest == (MAX_ATTEMPTS - attempt) * PerAttempt
           all  == MAX_ATTEMPTS * PerAttempt
<1>2. /\ PerAttempt \in Nat /\ rest \in Nat
      /\ rest <= all - PerAttempt
  BY <1>0, AttemptsCount
<1>3. LeftInLoop = rest + LeftInAttempt
  BY DEF LeftInLoop
<1>4. all \in Nat /\ all >= PerAttempt /\ PerAttempt >= 6
  BY DownloadAssumption DEF PerAttempt, MAX_ATTEMPTS
<1> HIDE DEF rest, all
<1>5. LeftInLoop \in Nat /\ LeftInLoop + 1 <= all
  BY <1>1, <1>2, <1>3, <1>4
<1>6. StepsLeft \in 0..all
  BY <1>4, <1>5 DEF StepsLeft
<1> QED BY <1>1, <1>5, <1>6 DEF all

\* A step within an attempt.
LEMMA StepWithin ==
  ASSUME DownloadInv, DownloadInv',
         pc \in {"create", "setup", "transfer", "code"},
         pc' \in {"create", "setup", "transfer", "code"},
         attempt' = attempt, LeftInAttempt' < LeftInAttempt, LeftInAttempt' \in Nat
  PROVE  StepsLeft' < StepsLeft
<1> DEFINE rest == (MAX_ATTEMPTS - attempt) * PerAttempt
<1>1. /\ StepsLeft = (rest + LeftInAttempt) + 1
      /\ StepsLeft' = (rest + LeftInAttempt') + 1
  BY DEF StepsLeft, LeftInLoop, PerAttempt
<1>2. attempt \in 1..MAX_ATTEMPTS
  BY DEF DownloadInv, DownloadTypeOK
<1>3. rest \in Nat /\ PerAttempt \in Nat
  BY <1>2, AttemptsCount
<1>4. LeftInAttempt \in Nat
  BY <1>3, LeftIsLeft
<1>5. \A a, b \in Nat : b < a => (rest + b) + 1 < (rest + a) + 1
  BY <1>3
<1> HIDE DEF rest
<1> QED BY <1>1, <1>4, <1>5

\* The end of an attempt: another one, the end of the loop, or that of all.
LEMMA StepOver ==
  ASSUME DownloadInv, DownloadInv',
         pc \in {"create", "setup", "transfer", "code"},
         \/ Retry
         \/ pc' \in {"done", "failed", "paused"}
  PROVE  StepsLeft' < StepsLeft
<1> DEFINE rest(b) == (MAX_ATTEMPTS - b) * PerAttempt
<1>1. attempt \in 1..MAX_ATTEMPTS
  BY DEF DownloadInv, DownloadTypeOK
<1>2. /\ PerAttempt \in Nat /\ rest(attempt) \in Nat
      /\ attempt < MAX_ATTEMPTS => rest(attempt) = rest(attempt + 1) + PerAttempt
  BY <1>1, AttemptsCount
<1>3. LeftInAttempt \in Nat /\ LeftInAttempt >= 1
  BY <1>2, LeftIsLeft
<1>4. StepsLeft = (rest(attempt) + LeftInAttempt) + 1
  BY DEF StepsLeft, LeftInLoop
<1>5. CASE pc' \in {"done", "failed", "paused"}
  <2>1. StepsLeft' \in {0, 1}
    BY <1>5 DEF StepsLeft
  <2> HIDE DEF rest
  <2> QED BY <1>2, <1>3, <1>4, <2>1
<1>6. CASE pc' = "create" /\ attempt' = attempt + 1 /\ attempt < MAX_ATTEMPTS
  <2>1. StepsLeft' = (rest(attempt + 1) + (Size + 5)) + 1
    BY <1>6 DEF StepsLeft, LeftInLoop, LeftInAttempt, PerAttempt
  <2>2. Size + 5 \in Nat /\ PerAttempt = (Size + 5) + 1
    BY DownloadAssumption DEF PerAttempt
  <2> DEFINE r0 == rest(attempt)
             r1 == rest(attempt + 1)
  <2>3. /\ r0 \in Nat /\ r0 = r1 + PerAttempt
        /\ StepsLeft = (r0 + LeftInAttempt) + 1
        /\ StepsLeft' = (r1 + (Size + 5)) + 1
    BY <1>2, <1>4, <1>6, <2>1
  <2>4. r1 \in Int
    BY <1>1, <1>2 DEF MAX_ATTEMPTS
  <2> HIDE DEF r0, r1
  <2> QED BY <1>3, <2>2, <2>3, <2>4
<1> QED BY <1>5, <1>6 DEF Retry

(***************************************************************************)
(* A download takes no more steps than MAX_ATTEMPTS attempts at a file of  *)
(* this size can have, whatever the server answers: each brings it nearer  *)
(* to its end.                                                             *)
(***************************************************************************)
THEOREM DownloadsAreShort ==
  DownloadSpec => /\ [](StepsLeft \in 0..(MAX_ATTEMPTS * PerAttempt))
                  /\ [][StepsLeft' < StepsLeft]_dvars
<1>1. DownloadInv => StepsLeft \in 0..(MAX_ATTEMPTS * PerAttempt)
  BY LeftIsLeft
<1>2. DownloadInv /\ DownloadInv' /\ [DownloadNext]_dvars
        => [StepsLeft' < StepsLeft]_dvars
  <2> SUFFICES ASSUME DownloadInv, DownloadInv', DownloadNext
               PROVE  StepsLeft' < StepsLeft
    OBVIOUS
  <2>0. Size \in Nat /\ got \in Nat /\ Len(Body(code)) \in Nat
    BY BodyType, DownloadAssumption DEF DownloadInv, DownloadTypeOK
  <2>1. CASE Create
    <3>1. LeftInAttempt' < LeftInAttempt /\ LeftInAttempt' \in Nat
      BY <2>0, <2>1 DEF Create, LeftInAttempt
    <3> QED BY <2>1, <3>1, StepWithin DEF Create
  <2>2. CASE SetUp
    <3>1. Len(Body(code')) \in Nat /\ Len(Body(code')) <= Size + 1
      BY <2>0, <2>2, BodyType DEF SetUp
    <3>2. LeftInAttempt = Size + 4 /\ LeftInAttempt' = Len(Body(code')) - 0 + 2
      BY <2>2 DEF SetUp, LeftInAttempt, Body
    <3>3. LeftInAttempt' < LeftInAttempt /\ LeftInAttempt' \in Nat
      BY <2>0, <3>1, <3>2
    <3> QED BY <2>2, <3>3, StepWithin DEF SetUp
  <2>3. CASE Receive
    <3>1. /\ LeftInAttempt = Len(Body(code)) - got + 2
          /\ LeftInAttempt' = Len(Body(code)) - (got + 1) + 2
      BY <2>3 DEF Receive, LeftInAttempt, Body
    <3>2. LeftInAttempt' < LeftInAttempt /\ LeftInAttempt' \in Nat
      BY <2>0, <2>3, <3>1 DEF Receive
    <3> QED BY <2>3, <3>2, StepWithin DEF Receive
  <2>4. CASE Complete
    <3>1. LeftInAttempt = Len(Body(code)) - got + 2 /\ LeftInAttempt' = 1
      BY <2>4 DEF Complete, LeftInAttempt
    <3>2. LeftInAttempt' < LeftInAttempt /\ LeftInAttempt' \in Nat
      BY <2>0, <2>4, <3>1 DEF Complete
    <3> QED BY <2>4, <3>2, StepWithin DEF Complete
  <2>5. CASE CreateFails \/ SetUpFails \/ CallbackFails \/ BreakOff \/ Pause
               \/ CheckCode \/ CodeUnreadable
    BY <2>5, StepOver
    DEF CreateFails, SetUpFails, CallbackFails, BreakOff, Pause, CheckCode,
        CodeUnreadable, GiveUp
  <2>6. CASE Report
    BY <2>6 DEF Report, StepsLeft
  <2> QED BY <2>1, <2>2, <2>3, <2>4, <2>5, <2>6 DEF DownloadNext
<1> QED BY <1>1, <1>2, DownloadInvariance, PTL DEF DownloadSpec

=============================================================================
