------------------------------ MODULE Download ------------------------------
(***************************************************************************)
(* The download loops of npuvm (client/src/bin/npuvm.rs), that of          *)
(* download_file_with_retry and its copy in fetch_dendrite_image: up to    *)
(* MAX_ATTEMPTS times a file is created and filled with what the server    *)
(* answers.  The model is of both: they differ in what becomes of a        *)
(* response code that cannot be read.                                      *)
(*                                                                         *)
(* External: libcurl and the server, which answers with the file or with   *)
(* an error page, may break off anywhere, and may answer every attempt in  *)
(* another way.                                                            *)
(***************************************************************************)
EXTENDS Integers, Sequences

CONSTANT Size  \* the pieces a file comes in

MAX_ATTEMPTS == 5
OK           == 200

ASSUME DownloadAssumption == Size \in Nat

VARIABLES
  pc,        \* a step of the loop, "done" after it, or how it ended
  attempt,
  lastError, \* whether last_error is set
  code,      \* the response code of the server
  got,       \* the pieces received in this attempt
  file       \* the pieces in the file: the code and the number of each

dvars == <<pc, attempt, lastError, code, got, file>>

Codes   == {OK, 404}
Ended   == {"ok", "failed"}

\* An error page is one piece.
Body(c) == [i \in 1..(IF c = OK THEN Size ELSE 1) |-> <<c, i>>]

DownloadInit ==
  /\ pc = "create"
  /\ attempt = 1
  /\ lastError = FALSE
  /\ code = OK
  /\ got = 0
  /\ file = <<>>

\* Slip: the loop goes on until the download succeeds.
RetryForEver ==
  /\ lastError' = TRUE
  /\ pc' = "create"
  /\ UNCHANGED attempt

\* Slip: attempt <= MAX_ATTEMPTS.
RetryOnceMore ==
  /\ lastError' = TRUE
  /\ IF attempt <= MAX_ATTEMPTS
     THEN attempt' = attempt + 1 /\ pc' = "create"
     ELSE UNCHANGED attempt /\ pc' = "done"

\* The attempt has failed: the loop goes round, or has come to its end.
Retry ==
  /\ lastError' = TRUE
  /\ IF attempt < MAX_ATTEMPTS
     THEN attempt' = attempt + 1 /\ pc' = "create"
     ELSE UNCHANGED attempt /\ pc' = "done"

\* The function returns an error from within the loop.
GiveUp ==
  /\ pc' = "failed"
  /\ UNCHANGED <<attempt, lastError>>

\* Slip: the file is opened for appending.
CreateAppending ==
  /\ pc = "create"
  /\ pc' = "setup"
  /\ UNCHANGED <<attempt, lastError, code, got, file>>

\* File::create truncates what an earlier attempt has left.
Create ==
  /\ pc = "create"
  /\ file' = <<>>
  /\ pc' = "setup"
  /\ UNCHANGED <<attempt, lastError, code, got>>

CreateFails == pc = "create" /\ Retry /\ UNCHANGED <<code, got, file>>

\* The options are set, and the transfer begins.
SetUp ==
  /\ pc = "setup"
  /\ code' \in Codes
  /\ got' = 0
  /\ pc' = "transfer"
  /\ UNCHANGED <<attempt, lastError, file>>

SetUpFails == pc = "setup" /\ Retry /\ UNCHANGED <<code, got, file>>

\* A callback cannot be installed.
CallbackFails == pc = "setup" /\ GiveUp /\ UNCHANGED <<code, got, file>>

Receive ==
  /\ pc = "transfer"
  /\ got < Len(Body(code))
  /\ got'  = got + 1
  /\ file' = Append(file, Body(code)[got + 1])
  /\ UNCHANGED <<pc, attempt, lastError, code>>

\* An error of the network, or a transfer too slow.
BreakOff == pc = "transfer" /\ Retry /\ UNCHANGED <<code, got, file>>

\* The file cannot be written: the transfer is paused.
Pause ==
  /\ pc = "transfer"
  /\ got < Len(Body(code))
  /\ pc' = "paused"
  /\ UNCHANGED <<attempt, lastError, code, got, file>>

Complete ==
  /\ pc = "transfer"
  /\ got = Len(Body(code))
  /\ pc' = "code"
  /\ UNCHANGED <<attempt, lastError, code, got, file>>

CheckCode ==
  /\ pc = "code"
  /\ IF code = OK
     THEN pc' = "done" /\ lastError' = FALSE /\ UNCHANGED attempt
     ELSE Retry
  /\ UNCHANGED <<code, got, file>>

\* The response code cannot be read: download_file_with_retry tries again,
\* fetch_dendrite_image gives up.
CodeUnreadable ==
  /\ pc = "code"
  /\ Retry \/ GiveUp
  /\ UNCHANGED <<code, got, file>>

\* After the loop last_error decides.
Report ==
  /\ pc = "done"
  /\ pc' = IF lastError THEN "failed" ELSE "ok"
  /\ UNCHANGED <<attempt, lastError, code, got, file>>

DownloadNext ==
  \/ Create \/ CreateFails
  \/ SetUp \/ SetUpFails \/ CallbackFails
  \/ Receive \/ BreakOff \/ Pause \/ Complete
  \/ CheckCode \/ CodeUnreadable \/ Report

\* The loop runs in one thread, and curl ends a transfer that makes no
\* progress.
DownloadSpec == DownloadInit /\ [][DownloadNext]_dvars /\ WF_dvars(DownloadNext)

-----------------------------------------------------------------------------
DownloadTypeOK ==
  /\ pc \in {"create", "setup", "transfer", "code", "paused", "done"} \cup Ended
  /\ attempt \in 1..MAX_ATTEMPTS
  /\ lastError \in BOOLEAN
  /\ code \in Codes
  /\ got \in 0..Size + 1
  /\ file \in Seq(Codes \X Nat)

(***************************************************************************)
(* A download that is reported done has left the whole file and nothing    *)
(* else, whatever earlier attempts have written: no error page, no piece   *)
(* of an attempt that broke off.                                           *)
(***************************************************************************)
OkMeansWhole == pc = "ok" => file = Body(OK)

(***************************************************************************)
(* The loop ends, after five attempts at most, unless a write error pauses *)
(* the transfer, which nothing resumes.                                    *)
(***************************************************************************)
DownloadEnds == <>(pc \in Ended \cup {"paused"})

=============================================================================
