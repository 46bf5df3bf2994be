---------------------------- MODULE ControlPlane ----------------------------
(***************************************************************************)
(* What the management interface promises its clients: the requests are    *)
(* served one at a time, in the order they were sent; an update changes    *)
(* the tables in one step; a query is answered from the tables of one      *)
(* moment, those that all requests before it and none after it have made;  *)
(* and the answers come in the order of the queries.  It may stop, and     *)
(* then it serves nothing any more.                                        *)
(***************************************************************************)
EXTENDS Integers, Sequences

CONSTANTS
  Keys,     \* the keysets of table entries
  Radix,    \* the answer to a radix request
  Request   \* what a client may send

VARIABLES
  queue,    \* the requests that wait to be served
  tables,   \* the keysets that have an entry
  answers,  \* the answers on their way to the client
  alive     \* whether requests are served

cpVars == <<queue, tables, answers, alive>>

CPInit ==
  /\ queue   = <<>>
  /\ tables  = {}
  /\ answers = <<>>
  /\ alive   = TRUE

\* A request that comes when nobody serves any more is lost.
Submit(r) ==
  /\ alive
  /\ queue' = Append(queue, r)
  /\ UNCHANGED <<tables, answers, alive>>

Updated(r) ==
  CASE r.type = "add"    -> tables \cup {r.key}
    [] r.type = "remove" -> tables \ {r.key}
    [] OTHER             -> tables

Answers(r) ==
  CASE r.type = "radix" -> <<[type |-> "radix", radix |-> Radix]>>
    [] r.type = "dump"  -> <<[type |-> "dump", entries |-> tables]>>
    [] OTHER            -> <<>>

Serve ==
  /\ alive
  /\ queue # <<>>
  /\ queue'   = Tail(queue)
  /\ tables'  = Updated(Head(queue))
  /\ answers' = answers \o Answers(Head(queue))
  /\ UNCHANGED alive

TakeAnswer ==
  /\ answers # <<>>
  /\ answers' = Tail(answers)
  /\ UNCHANGED <<queue, tables, alive>>

\* The answers that have reached the client go with it; one that has not may
\* yet reach the next client.
ClientLeaves ==
  /\ \/ answers' = <<>>
     \/ answers # <<>> /\ answers' = <<answers[Len(answers)]>>
  /\ UNCHANGED <<queue, tables, alive>>

\* The answer in hand may be lost.
Stop ==
  /\ alive
  /\ alive'   = FALSE
  /\ queue'   = <<>>
  /\ answers' \in {answers, SubSeq(answers, 1, Len(answers) - 1)}
  /\ UNCHANGED tables

CPNext ==
  \/ \E r \in Request : Submit(r)
  \/ Serve
  \/ TakeAnswer
  \/ ClientLeaves
  \/ Stop

ControlPlaneSpec == CPInit /\ [][CPNext]_cpVars

=============================================================================
