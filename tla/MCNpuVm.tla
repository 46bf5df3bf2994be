------------------------------ MODULE MCNpuVm -------------------------------
(***************************************************************************)
(* Small instances of NpuVm for TLC.                                       *)
(***************************************************************************)
EXTENDS NpuVm, TLC

CONSTANTS v1, v2, a, b

MCVersions == {v1, v2}
MCConfigs  == {a, b}
Alike      == Permutations(MCVersions) \cup Permutations(MCConfigs)

=============================================================================
