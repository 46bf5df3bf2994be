----------------------------- MODULE Lifecycle -----------------------------
(***************************************************************************)
(* npu start and npu stop, the script npuzone puts into a softnpu zone, and *)
(* the start of a softnpu process, as processes and the socket file they   *)
(* share.  A process that is started is a copy of the shell at first,      *)
(* which pkill does not know for a softnpu.                                *)
(***************************************************************************)
CONSTANTS
  Procs,  \* processes
  NoProc  \* none of them

ASSUME LifecycleAssumption == NoProc \notin Procs

VARIABLES
  ppc,   \* where each process is, or how it ended
  path,  \* the process whose socket is at <uds_path>/server, alive or not
  raced  \* history: those that came up while another did

lvars == <<ppc, path, raced>>

ComingUp == {"forked", "main", "forwards", "removed"}
Named    == {"main", "forwards", "removed", "serves"}
Forwards == {"forwards", "removed", "serves"}
Over     == {"unfit", "failed", "refused", "crashed", "killed"}

LifecycleInit ==
  /\ ppc = [p \in Procs |-> "none"]
  /\ path = NoProc
  /\ raced = {}

Go(p, to) == ppc' = [ppc EXCEPT ![p] = to]

\* npu start returns at once.
Start(p) ==
  /\ ppc[p] = "none"
  /\ LET others == {q \in Procs : ppc[q] \in ComingUp}
     IN raced' = raced \cup others \cup (IF others = {} THEN {} ELSE {p})
  /\ Go(p, "forked")
  /\ UNCHANGED path

Exec(p) == ppc[p] = "forked" /\ Go(p, "main") /\ UNCHANGED <<path, raced>>

\* The links are open, the program is loaded, the handlers are spawned.
Spawn(p) == ppc[p] = "main" /\ Go(p, "forwards") /\ UNCHANGED <<path, raced>>

\* The executable, or the program, is not one.
Unfit(p, at) == ppc[p] = at /\ Go(p, "unfit") /\ UNCHANGED <<path, raced>>

\* run() returns an error: the configuration, or a link.
SetUpFails(p) == ppc[p] = "main" /\ Go(p, "failed") /\ UNCHANGED <<path, raced>>

\* Slip: a socket that is there is left there.
RemoveNothing(p) ==
  /\ ppc[p] = "forwards"
  /\ Go(p, "removed")
  /\ UNCHANGED <<path, raced>>

RemoveSocket(p) ==
  /\ ppc[p] = "forwards"
  /\ path' = NoProc
  /\ Go(p, "removed")
  /\ UNCHANGED raced

Bind(p) ==
  /\ ppc[p] = "removed"
  /\ path = NoProc
  /\ path' = p
  /\ Go(p, "serves")
  /\ UNCHANGED raced

\* Slip: it removes the socket on its way out.
BindFailsRemoving(p) ==
  /\ ppc[p] = "removed"
  /\ path # NoProc
  /\ path' = NoProc
  /\ Go(p, "refused")
  /\ UNCHANGED raced

\* The process exits, and the handlers with it.
BindFails(p) ==
  /\ ppc[p] = "removed"
  /\ path # NoProc
  /\ Go(p, "refused")
  /\ UNCHANGED <<path, raced>>

\* A panic of the main task, or an abort out of the pipeline.
Crash(p) == ppc[p] \in Forwards /\ Go(p, "crashed") /\ UNCHANGED <<path, raced>>

\* pkill -9 softnpu: no one is left to remove the socket.
Stop ==
  /\ \E p \in Procs : ppc[p] \in Named
  /\ ppc' = [p \in Procs |-> IF ppc[p] \in Named THEN "killed" ELSE ppc[p]]
  /\ UNCHANGED <<path, raced>>

ProcStep(p) == SetUpFails(p) \/ RemoveSocket(p) \/ Bind(p) \/ BindFails(p) \/ Crash(p)

-----------------------------------------------------------------------------
LifecycleTypeOK ==
  /\ ppc \in [Procs -> ComingUp \cup Named \cup Over \cup {"none"}]
  /\ path \in Procs \cup {NoProc}
  /\ raced \subseteq Procs
  /\ path # NoProc => ppc[path] \in {"serves", "crashed", "killed"}

(***************************************************************************)
(* Whatever socket a stop, a crash or a softnpu that still runs has left,  *)
(* the next process binds its own: bind fails, after the handlers have     *)
(* been forwarding for a while, only if two processes came up at once.     *)
(***************************************************************************)
BindFailsOnlyInARace == \A p \in Procs : ppc[p] = "refused" => p \in raced

(***************************************************************************)
(* Of processes that run side by side one has the path, even after a race  *)
(* for it: once none is between the removal and its bind, requests reach a *)
(* live one, unless the one that has the path has crashed, or one that had *)
(* removed the socket and not yet bound its own.                           *)
(***************************************************************************)
SomebodyAnswers ==
  (/\ \A p \in Procs : ppc[p] # "removed"
   /\ \E p \in Procs : ppc[p] = "serves")
  => IF path = NoProc THEN \E p \in Procs : ppc[p] = "crashed"
                      ELSE ppc[path] \in {"serves", "crashed"}

=============================================================================
