------------------------------ MODULE Runtime ------------------------------
(***************************************************************************)
(* One runtime directory and those who use it: runs of npuzone create that *)
(* fetch the artifacts into it, and the processes in the softnpu zone,     *)
(* which are started from it.                                              *)
(***************************************************************************)
EXTENDS Artifacts, Lifecycle, FiniteSets

\* Bounds: how many runs, processes and moves of heads there are at most, in
\* several combinations, so that many of the one go with few of the other.
CONSTANT Workloads

ASSUME RuntimeAssumption ==
  Workloads \subseteq [creates : Nat, starts : Nat, moves : Nat]

VARIABLES
  work,    \* the workload; never changes
  image,   \* image[p]: what process p has loaded of each file
  current  \* history: the processes started since the last run ended

rvars == <<avars, lvars, work, image, current>>

Loaded == {"softnpu", "asic_program.so"}

RuntimeInit ==
  /\ ArtifactsInit
  /\ LifecycleInit
  /\ work \in Workloads
  /\ image = [p \in Procs |-> [f \in Loaded |-> <<>>]]
  /\ current = {}

BeginCreate(c) ==
  /\ Cardinality({d \in Creates : apc[d] # "idle"}) < work.creates
  /\ Begin(c)
  /\ current' = {}
  /\ UNCHANGED <<lvars, work, image>>

Fetch(c) ==
  /\ FetchStep(c) \/ Break(c)
  /\ UNCHANGED <<lvars, work, image, current>>

Outside ==
  /\ \E r \in Repos : \/ heads["softnpu"] + heads["sidecar-lite"] - 2 < work.moves /\ Push(r)
                     \/ Publish(r)
  /\ UNCHANGED <<lvars, work, image, current>>

NpuStart(p) ==
  /\ Cardinality({q \in Procs : ppc[q] # "none"}) < work.starts
  /\ Start(p)
  /\ current' = IF AtRest THEN current \cup {p} ELSE current
  /\ UNCHANGED <<avars, work, image>>

IsWhole(f) == \E k \in Commits : disk[f] = Whole(k)

Load(p, f) ==
  /\ image' = [image EXCEPT ![p][f] = disk[f]]
  /\ UNCHANGED <<avars, work, current>>

\* What is in the file decides; the first part of it may do or not.
Loadable(f) == disk[f] # <<>> /\ disk[f][1] \notin {Hole, <<Page, 1>>}

ExecSoftnpu(p) == Loadable("softnpu") /\ Exec(p) /\ Load(p, "softnpu")

LoadProgram(p) ==
  Loadable("asic_program.so") /\ Spawn(p) /\ Load(p, "asic_program.so")

LoadFails(p) ==
  /\ \/ ~IsWhole("softnpu") /\ Unfit(p, "forked")
     \/ ~IsWhole("asic_program.so") /\ Unfit(p, "main")
  /\ UNCHANGED <<avars, work, image, current>>

Process(p) == ProcStep(p) /\ UNCHANGED <<avars, work, image, current>>

NpuStop == Stop /\ UNCHANGED <<avars, work, image, current>>

RuntimeNext ==
  \/ \E c \in Creates : BeginCreate(c) \/ Fetch(c)
  \/ Outside
  \/ \E p \in Procs :
       NpuStart(p) \/ ExecSoftnpu(p) \/ LoadProgram(p) \/ LoadFails(p) \/ Process(p)
  \/ NpuStop

RuntimeSpec == RuntimeInit /\ [][RuntimeNext]_rvars

-----------------------------------------------------------------------------
RuntimeTypeOK ==
  /\ ArtifactsTypeOK
  /\ LifecycleTypeOK
  /\ image \in [Procs -> [Loaded -> Seq(Pieces)]]
  /\ current \subseteq Procs

(***************************************************************************)
(* After runs that wanted the same and have fetched it, what is started    *)
(* runs that: none fails for what is in its files, and each has loaded the *)
(* executable and the program of the commits that were wanted, until the   *)
(* next run begins.                                                        *)
(***************************************************************************)
RunsWhatWasWanted ==
  Done /\ group # {} => \A p \in current :
    /\ (\A r \in Repos : \E k \in Commits : Aimed(r, k)) => ppc[p] # "unfit"
    /\ \A f \in Loaded, k \in Commits :
         Aimed(RepoOf[f], k) => image[p][f] \in {<<>>, Whole(k)}

=============================================================================
