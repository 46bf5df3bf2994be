------------------------------ MODULE MCNpuZone ------------------------------
(***************************************************************************)
(* Small instances of NpuZone for TLC: command lines that make different   *)
(* links under one name.                                                   *)
(***************************************************************************)
EXTENDS NpuZone, TLC

Line(verb, count, list, withHost) ==
  [verb |-> verb, count |-> count, list |-> list, withHost |-> withHost]

NoList == <<>>
Listed == <<[sys |-> "igb0", host |-> "tap0"]>>

\* One port by count, one that is listed with a host zone, and a list with an
\* error; to undo them, one that covers the count, one that covers the list,
\* and one that forgets the host zone and has an error.
ZoneArgs ==
  {Line("create", 1, NoList, FALSE),
   Line("create", 0, Listed, TRUE),
   Line("create", 0, Listed \o <<BadEntry>>, FALSE),
   Line("destroy", 1, NoList, FALSE),
   Line("destroy", 0, Listed, TRUE),
   Line("destroy", 0, <<BadEntry>> \o Listed, FALSE)}

HostArgs == {Line("create", 1, NoList, TRUE), Line("create", 2, NoList, TRUE)}

AnyCommand == Permutations(Commands)

=============================================================================
