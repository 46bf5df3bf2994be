------------------------------ MODULE MCP9Load ------------------------------
(***************************************************************************)
(* A small instance of P9Load for TLC: a disk, a 9P share and the device   *)
(* of the ASIC emulator, with servers of four sorts.                       *)
(***************************************************************************)
EXTENDS P9Load

CONSTANTS disk, share, asic

MCKind == [d \in Devices |->
             [virtio9p |-> d # disk, address |-> TRUE, p4 |-> d = asic]]

Sort(w, f, s, m) == [whole |-> w, fresh |-> f, sound |-> s, msize |-> m]

\* One that does all it should; one that keeps what it has stored, and may
\* fail; one that may take less of a write; one whose msize is shorter.
MCServers == {Sort(TRUE, TRUE, TRUE, MSIZE),
              Sort(TRUE, FALSE, FALSE, MSIZE),
              Sort(FALSE, TRUE, TRUE, MSIZE),
              Sort(TRUE, FALSE, TRUE, MSIZE - 1)}

=============================================================================
