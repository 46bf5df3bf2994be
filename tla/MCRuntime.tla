----------------------------- MODULE MCRuntime -----------------------------
(***************************************************************************)
(* A small instance of Runtime: two commits of each repository, the second *)
(* with shorter files; no commit on the command line, or the first one.    *)
(***************************************************************************)
EXTENDS Runtime, TLC

CONSTANTS c1, c2, p1, p2, p3

MCSize    == <<3, 2>>
MCOptions == {[r \in Repos |-> Main], [r \in Repos |-> 1]}

\* Runs beside each other, processes beside each other, and both.
Work(c, s, m) == [creates |-> c, starts |-> s, moves |-> m]
MCWorkloads   == {Work(2, 0, 1), Work(0, 3, 0), Work(1, 1, 1), Work(1, 2, 0),
                  Work(2, 1, 0)}

Alike == Permutations(Creates) \cup Permutations(Procs)

=============================================================================
