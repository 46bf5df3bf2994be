--------------------------- MODULE SharedPipeline ---------------------------
(***************************************************************************)
(* The state every task of the softnpu process shares: the P4 pipeline,    *)
(* an Arc<Mutex<Box<dyn Pipeline>>> (client/src/bin/softnpu.rs:353), and   *)
(* whether the process is still running.                                   *)
(*                                                                         *)
(* The mutex is a std::sync::Mutex.  Every task takes it with              *)
(* lock().unwrap(), so a task that panics while it holds the guard poisons *)
(* the mutex, and from then on every task that locks it panics too.        *)
(***************************************************************************)
EXTENDS Integers, Sequences

CONSTANTS
  NumPorts,   \* config.ports.len()
  Keys        \* the keysets a table entry can have

\* run() refuses a configuration whose ports.len() + 1 is no u16.
ASSUME PortsAssumption == NumPorts \in Nat /\ NumPorts + 1 < 65536

VARIABLES
  up,         \* the process has not exited
  holder,     \* the task that holds the guard of the mutex, or NoTask
  poisoned,   \* a task panicked while it held the guard
  tables      \* the keysets that have an entry in the pipeline's tables

shared == <<up, holder, poisoned, tables>>

Ports == 1..NumPorts
U16   == {n \in Nat : n < 65536}

\* Two tasks per port, and the management loop, which is the main task.
Handlers == {"ingress", "egress"} \X Ports
Main     == <<"main", 0>>
Tasks    == Handlers \cup {Main}
NoTask   == <<"none", 0>>

SharedTypeOK ==
  /\ up       \in BOOLEAN
  /\ holder   \in Tasks \cup {NoTask}
  /\ poisoned \in BOOLEAN
  /\ tables   \subseteq Keys

SharedInit ==
  /\ up       = TRUE
  /\ holder   = NoTask
  /\ poisoned = FALSE
  /\ tables   = {}

-----------------------------------------------------------------------------
\* Slip: into_inner() on the PoisonError, which lets a task in after a panic.
LockIgnoringPoison(t) ==
  /\ holder  = NoTask
  /\ holder' = t
  /\ UNCHANGED <<up, poisoned, tables>>

\* lock().unwrap() returns the guard.
Lock(t) ==
  /\ holder = NoTask
  /\ ~poisoned
  /\ holder' = t
  /\ UNCHANGED <<up, poisoned, tables>>

\* lock().unwrap() panics: the lock is free, and poisoned.
LockPanics ==
  /\ holder = NoTask
  /\ poisoned
  /\ UNCHANGED shared

\* The guard is dropped at the end of its block.
Unlock(t) ==
  /\ holder  = t
  /\ holder' = NoTask
  /\ UNCHANGED <<up, poisoned>>

\* A task leaves a block: a guard that lives as long as the block is dropped.
LeaveBlock(t) ==
  /\ holder' = IF holder = t THEN NoTask ELSE holder
  /\ UNCHANGED <<up, poisoned, tables>>

\* A panic unwinds the task: it drops the guard if the task holds it, which
\* poisons the mutex.
Unwind(t) ==
  /\ holder'   = IF holder = t THEN NoTask ELSE holder
  /\ poisoned' = (poisoned \/ holder = t)
  /\ UNCHANGED <<up, tables>>

(***************************************************************************)
(* A call into the pipeline panics.  The pipeline is a shared library: the *)
(* panic unwinds the task as any other, or, if the library brought a       *)
(* runtime of its own, ends the whole process.  What the call had done to  *)
(* the tables is of no consequence: no task can read them any more.        *)
(***************************************************************************)
CallPanics(t) ==
  /\ holder = t
  /\ \/ Unwind(t)
     \/ /\ holder' = NoTask
        /\ up'     = FALSE
        /\ UNCHANGED <<poisoned, tables>>

-----------------------------------------------------------------------------
(***************************************************************************)
(* Poison is final: once lock().unwrap() has met a poisoned mutex, nobody  *)
(* gets at the pipeline again, so no task goes on with tables that a call  *)
(* left half changed.                                                      *)
(***************************************************************************)
PoisonFreezesTables == [][poisoned => UNCHANGED <<tables, poisoned, holder>>]_shared

=============================================================================
