----------------------------- MODULE MCDownload -----------------------------
(***************************************************************************)
(* An instance of Download for TLC: a file that can break off before, in   *)
(* and after the middle.                                                   *)
(***************************************************************************)
EXTENDS Download

MCSize == 3

=============================================================================
