------------------------------ MODULE MCSoftNpu ------------------------------
(***************************************************************************)
(* Small instances of SoftNpu for TLC: one MTU for every port, or one of   *)
(* its own for each, and the frame lengths and verdicts the handlers tell  *)
(* apart.                                                                  *)
(***************************************************************************)
EXTENDS SoftNpu

MCMtu    == [p \in Ports |-> 100]
TwoMtus  == [p \in Ports |-> 100 * p]

\* An egress handler can add the sidecar header to 96 bytes and no more; 114
\* is a full MTU with its Ethernet header, and 130 does not fit msg either.
FitLens  == {96}
HostLens == {96, 114}
AllLens  == {96, 130}

ToPort(p)    == [port |-> p, hlen |-> 38, sc |-> 0]
ToCpu(sc, n) == [port |-> 0, hlen |-> n, sc |-> sc]

\* Forwarded to the first port, to the host behind it, to no port there is.
FewVerdicts == {ToPort(1), ToCpu(1, 38)}
WholeVerdicts == {ToPort(1), ToPort(NumPorts + 1),
                  ToCpu(0, 38), ToCpu(1, 38), ToCpu(NumPorts + 1, 38)}
\* The P4 program may also leave the sidecar header out, or cut it short.
AllVerdicts == WholeVerdicts \cup {ToCpu(1, 16), ToCpu(1, 30)}

=============================================================================
