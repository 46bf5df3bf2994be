---------------------------- MODULE NpuZoneProofs ----------------------------
(***************************************************************************)
(* Proofs about npuzone, for any number of runs at once, with any command  *)
(* lines, each of which may fail or be killed at any step.                 *)
(***************************************************************************)
EXTENDS NpuZone, FiniteSetTheorems, SequenceTheorems, TLAPS

-----------------------------------------------------------------------------
(* The invariants.                                                         *)

Standing == Stages \cup {"ok"}

\* The links of a destroy's command line are all gone through.
FullPlan(a) == ValidSpec(a) /\ Cardinality(Reached(a)) = NumLinks(a)

\* What a run can be doing, by its command line.
RunInv ==
  /\ ZoneTypeOK
  /\ \A c \in Commands :
       /\ pc[c] \in Stages \cup {"drop"} => args[c].verb = "create"
       /\ pc[c] = "delete" => args[c].verb = "destroy"
       /\ (args[c].verb = "create" /\ pc[c] \in Standing) => ValidSpec(args[c])
       /\ (args[c].verb = "create" /\ pc[c] = "ok") => made[c] = NumLinks(args[c])
       /\ pc[c] = "host" => args[c].withHost
       /\ (args[c].verb = "destroy" \/ pc[c] \in {"idle", "drop"}) => made[c] = 0
       /\ pc[c] \notin {"drop", "delete"} => todo[c] = <<>>
       /\ (args[c].verb = "destroy" /\ pc[c] = "ok") => FullPlan(args[c])

\* What is a create's to keep or to drop: links, the dataset, the softnpu zone.
HasLink(c, l) ==
  \/ pc[c] \in Standing /\ \E k \in 1..made[c] : l \in Ends(args[c], k)
  \/ pc[c] = "drop" /\ \E i \in DOMAIN todo[c] : /\ todo[c][i].kind = "link"
                                                 /\ l \in todo[c][i].ends
HasZfs(c) ==
  \/ pc[c] \in {"softnpu", "start", "host", "ok"}
  \/ pc[c] = "drop" /\ \E i \in DOMAIN todo[c] : todo[c][i].kind = "zfs"
HasZone(c) ==
  \/ pc[c] \in {"start", "host", "ok"}
  \/ pc[c] = "drop" /\ \E i \in DOMAIN todo[c] : todo[c][i].kind = "zone"

\* A create makes each of its links once, and drops each thing once.
Once(c) ==
  /\ pc[c] \in Standing => \A j, k \in 1..made[c] :
                             j # k => Ends(args[c], j) \cap Ends(args[c], k) = {}
  /\ pc[c] = "drop" => \A i, j \in DOMAIN todo[c] :
                         (i # j /\ todo[c][i].kind = todo[c][j].kind) =>
                           /\ todo[c][i].kind = "link"
                           /\ todo[c][i].ends \cap todo[c][j].ends = {}
  /\ pc[c] = "drop" => \A i \in DOMAIN todo[c] :
                         todo[c][i].kind = "zone" => todo[c][i].name = "softnpu"

\* What a create has is there, and it is nobody else's.
Holds(c) ==
  /\ \A l \in LinkNames : HasLink(c, l) => l \in links
  /\ HasZfs(c) => dataset
  /\ HasZone(c) => "softnpu" \in DOMAIN zones
Apart(c, d) ==
  /\ \A l \in LinkNames : ~(HasLink(c, l) /\ HasLink(d, l))
  /\ ~(HasZfs(c) /\ HasZfs(d))
  /\ ~(HasZone(c) /\ HasZone(d))

\* The zone and the configuration of a create are of its own links.
Own(c) ==
  /\ pc[c] \in {"start", "host", "ok"} => zones["softnpu"] = SoftnpuPhys(args[c])
  /\ pc[c] \in {"zfs", "softnpu", "start", "host", "ok"} => toml = PortsOf(args[c])
  /\ (pc[c] = "ok" /\ args[c].withHost) => "host" \in DOMAIN zones

\* All this as long as there is no destroy.
HoldInv ==
  Begun \cap Destroys = {} =>
    /\ \A c \in Commands : Once(c) /\ Holds(c) /\ Own(c)
    /\ \A c, d \in Commands : c # d => Apart(c, d)

\* Links a create can have made.
MadeOf(a) == UNION {Ends(a, k) : k \in {j \in 1..NumLinks(a) : WellFormed(a, j)}}

\* The links a user brings along are not named like those npuzone makes.
NamesApart == \A a, b \in Args : UserLinks(a) \cap MadeOf(b) = {}

\* Creates only, none of them killed, and none with a host zone where links in
\* zones stay: what is there is somebody's, and he will get rid of it.
Orderly ==
  \A c \in Begun : c \in Creates /\ pc[c] # "killed" /\ (forced \/ ~args[c].withHost)

\* Where links in zones stay, a create that drops has its zone first, and it
\* is of the create's own links.
ZoneFirst(c) ==
  ~forced =>
    /\ HasZone(c) =>
         \A l \in zones["softnpu"] : HasLink(c, l) \/ l \in UserLinks(args[c])
    /\ pc[c] = "drop" =>
         \A i \in DOMAIN todo[c] : todo[c][i].kind = "zone" => i = 1

CleanInv ==
  Orderly =>
    /\ \A l \in links : \E c \in Commands : HasLink(c, l)
    /\ dataset => \E c \in Commands : HasZfs(c)
    /\ "softnpu" \in DOMAIN zones => \E c \in Commands : HasZone(c)
    /\ "host" \in DOMAIN zones => \E c \in Commands : pc[c] = "ok" /\ args[c].withHost
    /\ \A c \in Commands : ZoneFirst(c)
    /\ \A c \in Commands, l \in LinkNames : HasLink(c, l) => l \in MadeOf(args[c])

\* What is there has been made for some create.
MadeInv ==
  /\ \A l \in links : \E c \in Creates \cap Begun : l \in LinksOf(args[c])
  /\ "host" \in DOMAIN zones => \E c \in Creates \cap Begun : args[c].withHost
  /\ \A d \in Commands : \A c \in earlier[d] : pc[c] \in Ended

\* A destroy that names all that any create has made, and all are at an end.
LastWord(d) ==
  /\ d \in Destroys /\ pc[d] \in {"delete", "ok"}
  /\ FullPlan(args[d])
  /\ \A c \in Creates \cap Begun : c \in earlier[d] /\ Covers(args[d], args[c])

\* What is left it has before it, the links last, or has failed to delete.
Remaining(d) ==
  /\ dataset => \/ \E i \in DOMAIN todo[d] : todo[d][i].kind = "zfs"
                \/ Zfs \in missed[d]
  /\ \A z \in DOMAIN zones : \/ \E i \in DOMAIN todo[d] : todo[d][i] = Zone(z)
                             \/ Zone(z) \in missed[d]
  /\ \A l \in links : \/ \E i \in DOMAIN todo[d] : /\ todo[d][i].kind = "link"
                                                   /\ l \in todo[d][i].ends
                      \/ \E m \in missed[d] : m.kind = "link" /\ l \in m.ends
                      \/ ~forced /\ \E z \in ZoneNames : Zone(z) \in missed[d]
  /\ \A i, j \in DOMAIN todo[d] : (i <= j /\ todo[d][i].kind = "link")
                                    => todo[d][j].kind = "link"

LastInv == \A d \in Commands : LastWord(d) => Remaining(d)

-----------------------------------------------------------------------------
(* Command lines, and what they come down to.                              *)

LEMMA ArgTypes ==
  ASSUME NEW a \in Args
  PROVE  /\ a.verb \in {"create", "destroy"}
         /\ a.count \in Nat
         /\ a.list \in Seq(Entry)
         /\ a.withHost \in BOOLEAN
         /\ NumLinks(a) \in Nat
         /\ ValidSpec(a) => NumLinks(a) >= 1
<1>1. a \in [verb: {"create", "destroy"}, count: Nat,
             list: Seq(Entry), withHost: BOOLEAN]
  BY NpuZoneAssumption
<1>2. Len(a.list) \in Nat /\ (a.list # <<>> => Len(a.list) >= 1)
  BY <1>1
<1> QED BY <1>1, <1>2 DEF NumLinks, ValidSpec

\* Links have names.
LEMMA Named ==
  ASSUME NEW a \in Args
  PROVE  /\ \A k \in 1..NumLinks(a) : Ends(a, k) \subseteq LinkNames
         /\ LinksOf(a) \subseteq LinkNames
         /\ UserLinks(a) \subseteq LinkNames
         /\ SoftnpuPhys(a) \subseteq LinkNames
         /\ HostPhys(a) \subseteq LinkNames
<1>0. NumLinks(a) \in Nat /\ NumLinks(a) \div 2 <= NumLinks(a)
  BY ArgTypes
<1>1. LinksOf(a) \subseteq LinkNames /\ UserLinks(a) \subseteq LinkNames
  BY DEF LinkNames
<1>2. \A k \in 1..NumLinks(a) : Ends(a, k) \subseteq LinkNames
  BY <1>1 DEF LinksOf
<1>3. SoftnpuPhys(a) \subseteq LinkNames
  BY <1>1, <1>2 DEF SoftnpuPhys, Ends
<1>4. HostPhys(a) \subseteq LinkNames
  BY <1>0, <1>2 DEF HostPhys, Ends
<1> QED BY <1>1, <1>2, <1>3, <1>4

\* The ports of softnpu.toml are links of the softnpu zone.
LEMMA PortLinks ==
  ASSUME NEW a \in Args
  PROVE  /\ PortsOf(a) \subseteq [sidecar: LinkNames, scrimlet: LinkNames]
         /\ \A p \in PortsOf(a) : {p.sidecar, p.scrimlet} \subseteq SoftnpuPhys(a)
<1>1. \A p \in PortsOf(a) : {p.sidecar, p.scrimlet} \subseteq SoftnpuPhys(a)
  <2>1. CASE a.count # 0
    <3>1. ASSUME NEW i \in 0..(a.count - 1)
          PROVE  <<"spi", i>> \in SoftnpuPhys(a) /\ <<"shi", i>> \in SoftnpuPhys(a)
      <4>1. a.count \in Nat /\ i \in Nat /\ i < a.count
        BY ArgTypes
      <4>2. 2 * i + 2 \in 1..NumLinks(a) /\ 2 * i + 1 \in 1..NumLinks(a)
        BY <2>1, <4>1 DEF NumLinks
      <4>3. /\ (2 * i + 2) % 2 # 1 /\ ((2 * i + 2) - 1) \div 2 = i
            /\ (2 * i + 1) % 2 = 1 /\ ((2 * i + 1) - 1) \div 2 = i
        BY <4>1
      <4>4. LinkPair(a, 2 * i + 2).b = <<"spi", i>> /\ LinkPair(a, 2 * i + 1).b = <<"shi", i>>
        BY <2>1, <4>3 DEF LinkPair
      <4> QED BY <4>2, <4>4 DEF SoftnpuPhys
    <3> QED BY <2>1, <3>1 DEF PortsOf
  <2>2. CASE a.count = 0
    <3>1. ASSUME NEW k \in DOMAIN a.list
          PROVE  <<a.list[k].sys, 0>> \in SoftnpuPhys(a) /\ <<"shi", k - 1>> \in SoftnpuPhys(a)
      <4>1. k \in 1..NumLinks(a)
        BY <2>2, ArgTypes DEF NumLinks
      <4>2. LinkPair(a, k).b = <<"shi", k - 1>>
        BY <2>2 DEF LinkPair
      <4>3. <<a.list[k].sys, 0>> \in UserLinks(a)
        BY <2>2 DEF UserLinks
      <4> QED BY <4>1, <4>2, <4>3 DEF SoftnpuPhys
    <3> QED BY <2>2, <3>1 DEF PortsOf
  <2> QED BY <2>1, <2>2
<1>2. SoftnpuPhys(a) \subseteq LinkNames
  BY Named
<1>3. ASSUME NEW p \in PortsOf(a)
      PROVE  p \in [sidecar: LinkNames, scrimlet: LinkNames]
  <2>1. p.sidecar \in LinkNames /\ p.scrimlet \in LinkNames
    BY <1>1, <1>2
  <2>2. p = [sidecar |-> p.sidecar, scrimlet |-> p.scrimlet]
    BY DEF PortsOf
  <2> QED BY <2>1, <2>2
<1> QED BY <1>1, <1>3

LEMMA Resources ==
  /\ Zfs \in Resource /\ Zfs.kind = "zfs"
  /\ \A z \in ZoneNames : Zone(z) \in Resource
  /\ \A z : Zone(z).kind = "zone" /\ Zone(z).name = z
  /\ \A p \in SUBSET LinkNames : Link(p) \in Resource
  /\ \A p : Link(p).kind = "link" /\ Link(p).ends = p
BY DEF Zfs, Zone, Link, Resource

\* One sequence after another.
LEMMA Joined ==
  ASSUME NEW S, NEW s \in Seq(S), NEW t \in Seq(S)
  PROVE  /\ s \o t \in Seq(S)
         /\ Len(s) \in Nat /\ Len(t) \in Nat
         /\ Len(s \o t) = Len(s) + Len(t)
         /\ \A k \in 1..Len(s) : (s \o t)[k] = s[k]
         /\ \A k \in 1..Len(t) : (s \o t)[Len(s) + k] = t[k]
<1>1. /\ s \o t \in Seq(S)
      /\ Len(s) \in Nat /\ Len(t) \in Nat
      /\ Len(s \o t) = Len(s) + Len(t)
  OBVIOUS
<1>2. \A k \in 1..Len(s) + Len(t) :
        (s \o t)[k] = IF k <= Len(s) THEN s[k] ELSE t[k - Len(s)]
  OBVIOUS
<1>3. ASSUME NEW k \in 1..Len(t) PROVE (s \o t)[Len(s) + k] = t[k]
  <2>1. Len(s) + k \in 1..Len(s) + Len(t) /\ ~(Len(s) + k <= Len(s)) /\ (Len(s) + k) - Len(s) = k
    BY <1>1
  <2> QED BY <1>2, <2>1
<1> QED BY <1>1, <1>2, <1>3

\* What a destroy deletes: the dataset, the zones, then the links.
LEMMA PlanShape ==
  ASSUME NEW a \in Args
  PROVE  LET n == Cardinality(Reached(a))
             h == IF a.withHost THEN 3 ELSE 2
         IN  /\ n \in 0..NumLinks(a)
             /\ Plan(a) \in Seq(Resource)
             /\ Len(Plan(a)) = h + n
             /\ Plan(a)[1] = Zfs
             /\ Plan(a)[2] = Zone("softnpu")
             /\ a.withHost => Plan(a)[3] = Zone("host")
             /\ \A k \in 1..n : Plan(a)[h + k] = Link(Ends(a, k))
<1> DEFINE n == Cardinality(Reached(a))
           L == [k \in 1..n |-> Link(Ends(a, k))]
           H == IF a.withHost THEN <<Zone("host")>> ELSE <<>>
           Z == <<Zfs, Zone("softnpu")>>
<1>1. n \in Nat /\ n <= NumLinks(a)
  <2>1. NumLinks(a) \in Nat
    BY ArgTypes
  <2>2. IsFiniteSet(1..NumLinks(a)) /\ Cardinality(1..NumLinks(a)) = NumLinks(a)
    BY <2>1, FS_Interval
  <2>3. Reached(a) \subseteq 1..NumLinks(a)
    BY DEF Reached
  <2>4. IsFiniteSet(Reached(a)) /\ n <= Cardinality(1..NumLinks(a))
    BY <2>2, <2>3, FS_Subset
  <2> QED BY <2>2, <2>4, FS_CardinalityType
<1>2. L \in Seq(Resource) /\ Len(L) = n /\ \A k \in 1..n : L[k] = Link(Ends(a, k))
  <2>1. \A k \in 1..n : Ends(a, k) \subseteq LinkNames
    BY <1>1, ArgTypes, Named
  <2>2. \A k \in 1..n : Link(Ends(a, k)) \in Resource
    BY <2>1, Resources
  <2>3. L \in [1..n -> Resource]
    BY <2>2
  <2> QED BY <1>1, <2>3, SeqDef
<1>3. Z \in Seq(Resource) /\ Len(Z) = 2 /\ Z[1] = Zfs /\ Z[2] = Zone("softnpu")
  BY Resources DEF ZoneNames
<1>4. H \in Seq(Resource) /\ Len(H) = (IF a.withHost THEN 1 ELSE 0)
        /\ (a.withHost => H[1] = Zone("host"))
  BY Resources DEF ZoneNames
<1>5. Plan(a) = (Z \o H) \o L
  BY DEF Plan
<1> HIDE DEF n, L, H, Z
<1>6. (Z \o H) \in Seq(Resource) /\ Len(Z \o H) = 2 + Len(H)
        /\ (Z \o H)[1] = Zfs /\ (Z \o H)[2] = Zone("softnpu")
        /\ (a.withHost => (Z \o H)[3] = Zone("host"))
  <2>1. /\ Z \o H \in Seq(Resource) /\ Len(Z \o H) = 2 + Len(H)
        /\ \A k \in 1..2 : (Z \o H)[k] = Z[k]
        /\ \A k \in 1..Len(H) : (Z \o H)[2 + k] = H[k]
    BY <1>3, <1>4, Joined
  <2>2. 1 \in 1..2 /\ 2 \in 1..2 /\ (a.withHost => 1 \in 1..Len(H) /\ 2 + 1 = 3)
    BY <1>4
  <2>3. a.withHost => (Z \o H)[2 + 1] = H[1]
    BY <2>1, <2>2
  <2> QED BY <1>3, <1>4, <2>1, <2>2, <2>3
<1> DEFINE ZH == Z \o H
<1> HIDE DEF ZH
<1>7. ZH \in Seq(Resource) /\ Len(ZH) = (IF a.withHost THEN 3 ELSE 2)
        /\ ZH[1] = Zfs /\ ZH[2] = Zone("softnpu") /\ (a.withHost => ZH[3] = Zone("host"))
        /\ Plan(a) = ZH \o L
  BY <1>4, <1>5, <1>6 DEF ZH
<1>8. /\ ZH \o L \in Seq(Resource) /\ Len(ZH \o L) = Len(ZH) + n
      /\ \A k \in 1..Len(ZH) : (ZH \o L)[k] = ZH[k]
      /\ \A k \in 1..n : (ZH \o L)[Len(ZH) + k] = L[k]
  <2>1. /\ ZH \o L \in Seq(Resource) /\ Len(ZH \o L) = Len(ZH) + Len(L)
        /\ \A k \in 1..Len(ZH) : (ZH \o L)[k] = ZH[k]
        /\ \A k \in 1..Len(L) : (ZH \o L)[Len(ZH) + k] = L[k]
    <3>1. ZH \in Seq(Resource) /\ L \in Seq(Resource)
      BY <1>2, <1>7
    <3> QED BY <3>1, Joined
  <2> QED BY <1>2, <2>1
<1>9. \A k \in 1..n : Plan(a)[(IF a.withHost THEN 3 ELSE 2) + k] = Link(Ends(a, k))
  BY <1>2, <1>7, <1>8
<1>10. \A k \in 1..Len(ZH) : Plan(a)[k] = ZH[k]
  BY <1>7, <1>8
<1>11. Plan(a)[1] = Zfs /\ Plan(a)[2] = Zone("softnpu") /\ (a.withHost => Plan(a)[3] = Zone("host"))
  <2>1. 1 \in 1..Len(ZH) /\ 2 \in 1..Len(ZH) /\ (a.withHost => 3 \in 1..Len(ZH))
    BY <1>7
  <2> QED BY <1>7, <1>10, <2>1
<1>12. n \in 0..NumLinks(a)
  BY <1>1, ArgTypes
<1>13. Plan(a) \in Seq(Resource) /\ Len(Plan(a)) = (IF a.withHost THEN 3 ELSE 2) + n
  BY <1>7, <1>8
<1> QED BY <1>9, <1>11, <1>12, <1>13 DEF n

\* How much a create drops before its links.
Ahead(c) == CASE pc[c] \in {"ports", "zfs"}    -> 0
              [] pc[c] \in {"softnpu", "host"} -> 1
              [] pc[c] = "start"               -> 2

LEMMA AheadType ==
  ASSUME NEW c \in Commands, pc[c] \in Stages
  PROVE  /\ Ahead(c) \in 0..2
         /\ pc[c] \in {"ports", "zfs"} => Ahead(c) = 0
         /\ pc[c] \in {"softnpu", "host"} => Ahead(c) = 1
         /\ pc[c] = "start" => Ahead(c) = 2
BY DEF Ahead, Stages

\* The links a create holds.
LEMMA HeldShape ==
  ASSUME ZoneTypeOK, NEW c \in Commands
  PROVE  /\ made[c] \in Nat
         /\ HeldLinks(c) \in Seq(Resource) /\ Len(HeldLinks(c)) = made[c]
         /\ \A k \in 1..made[c] : /\ HeldLinks(c)[k] = Link(Ends(args[c], k))
                                  /\ Ends(args[c], k) \subseteq LinkNames
<1>1. made[c] \in Nat /\ made[c] <= NumLinks(args[c]) /\ args[c] \in Args
  BY DEF ZoneTypeOK
<1>2. \A k \in 1..made[c] : Ends(args[c], k) \subseteq LinkNames
  BY <1>1, ArgTypes, Named
<1>3. \A k \in 1..made[c] : Link(Ends(args[c], k)) \in Resource
  BY <1>2, Resources
<1>4. HeldLinks(c) \in [1..made[c] -> Resource]
  BY <1>3 DEF HeldLinks
<1> QED BY <1>1, <1>2, <1>4, SeqDef DEF HeldLinks

\* What a create drops, and in which order.
LEMMA DropsShape ==
  ASSUME ZoneTypeOK, NEW c \in Commands, pc[c] \in Stages
  PROVE  /\ Drops(c) \in Seq(Resource)
         /\ Len(Drops(c)) = Ahead(c) + made[c] + (IF pc[c] = "host" THEN 1 ELSE 0)
         /\ \A k \in 1..made[c] : Drops(c)[Ahead(c) + k] = Link(Ends(args[c], k))
         /\ pc[c] \in {"softnpu", "host"} => Drops(c)[1] = Zfs
         /\ pc[c] = "start" => Drops(c)[1] = Zone("softnpu") /\ Drops(c)[2] = Zfs
         /\ pc[c] = "host" => Drops(c)[made[c] + 2] = Zone("softnpu")
<1> DEFINE H == HeldLinks(c)
           n == made[c]
           z == Zone("softnpu")
<1>0. /\ n \in Nat /\ H \in Seq(Resource) /\ Len(H) = n
      /\ \A k \in 1..n : H[k] = Link(Ends(args[c], k))
  BY HeldShape
<1>z. <<z>> \in Seq(Resource) /\ <<Zfs>> \in Seq(Resource) /\ <<>> \in Seq(Resource)
  BY Resources DEF ZoneNames
<1> USE AheadType
<1>1. CASE pc[c] \in {"ports", "zfs"}
  <2>1. Drops(c) = ((<<>> \o <<>>) \o H) \o <<>>
    BY <1>1 DEF Drops
  <2> HIDE DEF H, z
  <2>2. Drops(c) = H
    BY <1>0, <2>1
  <2> QED BY <1>0, <1>1, <2>2
<1>2. CASE pc[c] = "softnpu"
  <2>1. Drops(c) = ((<<>> \o <<Zfs>>) \o H) \o <<>>
    BY <1>2 DEF Drops
  <2> HIDE DEF H, n, z
  <2>2. Drops(c) = <<Zfs>> \o H
    BY <1>0, <1>z, <2>1
  <2>3. /\ Drops(c) \in Seq(Resource) /\ Len(Drops(c)) = 1 + n
        /\ Drops(c)[1] = Zfs
        /\ \A k \in 1..n : Drops(c)[1 + k] = H[k]
    BY <1>0, <1>z, <2>2
  <2> QED BY <1>0, <1>2, <2>3 DEF n
<1>3. CASE pc[c] = "start"
  <2>1. Drops(c) = ((<<z>> \o <<Zfs>>) \o H) \o <<>>
    BY <1>3 DEF Drops
  <2> HIDE DEF H, n, z
  <2>2. Drops(c) = <<z, Zfs>> \o H
    BY <1>0, <1>z, <2>1
  <2>3. /\ Drops(c) \in Seq(Resource) /\ Len(Drops(c)) = 2 + n
        /\ Drops(c)[1] = z /\ Drops(c)[2] = Zfs
        /\ \A k \in 1..n : Drops(c)[2 + k] = H[k]
    BY <1>0, <1>z, <2>2
  <2> QED BY <1>0, <1>3, <2>3 DEF n, z
<1>4. CASE pc[c] = "host"
  <2>1. Drops(c) = ((<<>> \o <<Zfs>>) \o H) \o <<z>>
    BY <1>4 DEF Drops
  <2> HIDE DEF H, n, z
  <2> DEFINE F == <<Zfs>> \o H
  <2>2. Drops(c) = F \o <<z>>
    BY <1>0, <1>z, <2>1
  <2>3. /\ F \in Seq(Resource) /\ Len(F) = 1 + n
        /\ F[1] = Zfs
        /\ \A k \in 1..n : F[1 + k] = H[k]
    BY <1>0, <1>z
  <2> HIDE DEF F
  <2>4. /\ Drops(c) \in Seq(Resource) /\ Len(Drops(c)) = 1 + n + 1
        /\ \A k \in 1..(1 + n) : Drops(c)[k] = F[k]
        /\ Drops(c)[(1 + n) + 1] = z
    BY <1>0, <1>z, <2>2, <2>3
  <2>5. (1 + n) + 1 = n + 2 /\ 1 \in 1..(1 + n) /\ \A k \in 1..n : 1 + k \in 1..(1 + n)
    BY <1>0
  <2>6. Drops(c)[n + 2] = z /\ Drops(c)[1] = Zfs /\ \A k \in 1..n : Drops(c)[1 + k] = H[k]
    BY <2>3, <2>4, <2>5
  <2> QED BY <1>0, <1>4, <2>4, <2>6 DEF n, z
<1> QED BY <1>1, <1>2, <1>3, <1>4 DEF Stages

\* What a create drops is what it has.
LEMMA DropsContents ==
  ASSUME ZoneTypeOK, NEW c \in Commands, pc[c] \in Stages
  PROVE  LET D == Drops(c) IN
         /\ \A i \in DOMAIN D :
              \/ \E k \in 1..made[c] : i = Ahead(c) + k /\ D[i] = Link(Ends(args[c], k))
              \/ /\ D[i] = Zfs /\ pc[c] \in {"softnpu", "start", "host"}
                 /\ i = IF pc[c] = "start" THEN 2 ELSE 1
              \/ /\ D[i] = Zone("softnpu") /\ pc[c] \in {"start", "host"}
                 /\ i = IF pc[c] = "start" THEN 1 ELSE made[c] + 2
         /\ \A k \in 1..made[c] : \E i \in DOMAIN D : D[i] = Link(Ends(args[c], k))
         /\ pc[c] \in {"softnpu", "start", "host"} => \E i \in DOMAIN D : D[i] = Zfs
         /\ pc[c] \in {"start", "host"} => \E i \in DOMAIN D : D[i] = Zone("softnpu")
<1> DEFINE D == Drops(c)
           n == made[c]
           a == Ahead(c)
<1>1. n \in Nat /\ a \in Nat
  BY HeldShape, AheadType
<1>2. /\ DOMAIN D = 1..(a + n + (IF pc[c] = "host" THEN 1 ELSE 0))
      /\ \A k \in 1..n : D[a + k] = Link(Ends(args[c], k))
      /\ pc[c] \in {"softnpu", "host"} => D[1] = Zfs
      /\ pc[c] = "start" => D[1] = Zone("softnpu") /\ D[2] = Zfs
      /\ pc[c] = "host" => D[n + 2] = Zone("softnpu")
  BY DropsShape
<1>3. /\ pc[c] \in {"ports", "zfs"} => a = 0
      /\ pc[c] \in {"softnpu", "host"} => a = 1
      /\ pc[c] = "start" => a = 2
      /\ pc[c] \in {"ports", "zfs", "softnpu", "start", "host"}
  BY AheadType DEF Stages
<1> HIDE DEF D, n, a
<1>4. ASSUME NEW i \in DOMAIN D
      PROVE  \/ \E k \in 1..n : i = a + k /\ D[i] = Link(Ends(args[c], k))
             \/ /\ D[i] = Zfs /\ pc[c] \in {"softnpu", "start", "host"}
                /\ i = IF pc[c] = "start" THEN 2 ELSE 1
             \/ /\ D[i] = Zone("softnpu") /\ pc[c] \in {"start", "host"}
                /\ i = IF pc[c] = "start" THEN 1 ELSE n + 2
  <2>1. CASE i <= a
    <3>1. i \in Nat /\ i >= 1
      BY <1>1, <1>2
    <3> QED BY <1>1, <1>2, <1>3, <2>1, <3>1
  <2>2. CASE i > a /\ i <= a + n
    <3>1. i - a \in 1..n /\ i = a + (i - a)
      BY <1>1, <1>2, <2>2
    <3> QED BY <1>2, <3>1
  <2>3. CASE i > a + n
    <3>1. pc[c] = "host" /\ i = n + 2
      BY <1>1, <1>2, <1>3, <2>3
    <3> QED BY <1>2, <3>1
  <2> QED BY <1>1, <1>2, <2>1, <2>2, <2>3
<1>5. \A k \in 1..n : a + k \in DOMAIN D
  BY <1>1, <1>2
<1>6. /\ pc[c] \in {"softnpu", "host"} => 1 \in DOMAIN D
      /\ pc[c] = "start" => 1 \in DOMAIN D /\ 2 \in DOMAIN D
      /\ pc[c] = "host" => n + 2 \in DOMAIN D
  BY <1>1, <1>2, <1>3
<1>7. /\ \A k \in 1..n : \E i \in DOMAIN D : D[i] = Link(Ends(args[c], k))
      /\ pc[c] \in {"softnpu", "start", "host"} => \E i \in DOMAIN D : D[i] = Zfs
      /\ pc[c] \in {"start", "host"} => \E i \in DOMAIN D : D[i] = Zone("softnpu")
  BY <1>2, <1>5, <1>6
<1> QED BY <1>4, <1>7 DEF D, n, a

\* What is left when the first is gone.
LEMMA Rest ==
  ASSUME NEW S, NEW s \in Seq(S), s # <<>>
  PROVE  /\ Head(s) = s[1] /\ 1 \in DOMAIN s
         /\ Tail(s) \in Seq(S)
         /\ \A i \in DOMAIN Tail(s) : i + 1 \in DOMAIN s /\ i \in Nat /\ i >= 1
                                      /\ Tail(s)[i] = s[i + 1]
         /\ \A i \in DOMAIN s : i # 1 => i - 1 \in DOMAIN Tail(s) /\ Tail(s)[i - 1] = s[i]
<1>1. Len(s) \in Nat /\ Len(s) >= 1 /\ DOMAIN s = 1..Len(s)
  OBVIOUS
<1>2. Tail(s) \in Seq(S) /\ DOMAIN Tail(s) = 1..(Len(s) - 1)
  BY <1>1
<1>3. \A i \in 1..(Len(s) - 1) : Tail(s)[i] = s[i + 1]
  BY <1>1
<1>4. \A i \in 2..Len(s) : i - 1 \in 1..(Len(s) - 1) /\ (i - 1) + 1 = i
  BY <1>1
<1> QED BY <1>1, <1>2, <1>3, <1>4

-----------------------------------------------------------------------------
(* The runs.                                                               *)

\* The name of the zone is free.
LEMMA InitRuns == ZoneInit => RunInv
<1> SUFFICES ASSUME ZoneInit PROVE RunInv
  OBVIOUS
<1>1. args \in [Commands -> Args] /\ forced \in BOOLEAN
  BY DEF ZoneInit
<1>2. \A c \in Commands : NumLinks(args[c]) \in Nat
  BY <1>1, ArgTypes
<1>3. ZoneTypeOK
  <2>1. <<>> \in Seq(Resource)
    BY EmptySeq
  <2>2. /\ pc \in [Commands -> {"idle"}] /\ made \in [Commands -> {0}]
        /\ todo \in [Commands -> Seq(Resource)]
        /\ earlier \in [Commands -> SUBSET Commands]
        /\ missed \in [Commands -> SUBSET Resource]
    BY <2>1 DEF ZoneInit
  <2>3. /\ links \subseteq LinkNames
        /\ {dataset, forced} \subseteq BOOLEAN
        /\ DOMAIN zones = {}
        /\ toml \subseteq [sidecar: LinkNames, scrimlet: LinkNames]
    BY DEF ZoneInit
  <2>4. \A c \in Commands : pc[c] = "idle" /\ made[c] = 0
    BY DEF ZoneInit
  <2> QED BY <1>1, <1>2, <2>2, <2>3, <2>4 DEF ZoneTypeOK, Stages
<1> QED BY <1>3 DEF ZoneInit, RunInv, Stages, Ended, Standing

\* A resource that goes leaves the rest as it was typed.
LEMMA DeleteType ==
  ASSUME ZoneTypeOK, NEW r \in Resource, Delete(r)
  PROVE  /\ links' \subseteq links
         /\ dataset' \in BOOLEAN /\ (dataset' => dataset)
         /\ DOMAIN zones' \subseteq DOMAIN zones
         /\ \A z \in DOMAIN zones' : zones'[z] = zones[z]
         /\ toml' = toml
<1>0. dataset \in BOOLEAN
  BY DEF ZoneTypeOK
<1>1. CASE r.kind = "link"
  BY <1>0, <1>1 DEF Delete
<1>2. CASE r.kind = "zone"
  BY <1>0, <1>2 DEF Delete
<1>3. CASE r.kind = "zfs"
  BY <1>0, <1>3 DEF Delete
<1> QED BY <1>1, <1>2, <1>3 DEF Resource

\* A deletion that fails takes no more than part of the resource, and no run
\* of create has one.
LEMMA Miss ==
  ASSUME RunInv, NEW c \in Commands, DeleteFails(c)
  PROVE  LET r == todo[c][1] IN
         /\ args[c].verb = "destroy" /\ pc[c] = "delete"
         /\ todo[c] \in Seq(Resource) /\ todo[c] # <<>> /\ todo'[c] = Tail(todo[c])
         /\ r \in Resource
         /\ missed' = [missed EXCEPT ![c] = @ \cup {r}]
         /\ \A d \in Commands \ {c} : todo'[d] = todo[d] /\ missed'[d] = missed[d]
         /\ missed'[c] = missed[c] \cup {r}
         /\ links' \subseteq links
         /\ DOMAIN zones' = DOMAIN zones
         /\ \A z \in DOMAIN zones : zones'[z] \subseteq zones[z]
         /\ UNCHANGED <<args, pc, made, dataset, toml, earlier>>
         /\ todo' = [todo EXCEPT ![c] = Tail(@)]
<1>1. /\ pc[c] = "delete" /\ todo[c] \in Seq(Resource) /\ todo[c] # <<>>
      /\ todo \in [Commands -> Seq(Resource)] /\ missed \in [Commands -> SUBSET Resource]
      /\ args[c].verb = "destroy"
  BY DEF DeleteFails, At, RunInv, ZoneTypeOK
<1>2. Head(todo[c]) = todo[c][1] /\ todo[c][1] \in Resource
  BY <1>1
<1>3. /\ missed' = [missed EXCEPT ![c] = @ \cup {todo[c][1]}]
      /\ todo' = [todo EXCEPT ![c] = Tail(@)]
      /\ UNCHANGED <<args, pc, made, dataset, toml, earlier>>
  BY <1>2 DEF DeleteFails
<1>4. /\ links' \subseteq links /\ DOMAIN zones' = DOMAIN zones
      /\ \A z \in DOMAIN zones : zones'[z] \subseteq zones[z]
  BY <1>2 DEF DeleteFails
<1> QED BY <1>1, <1>2, <1>3, <1>4

\* Every step keeps the types, and what its command line says of a run.
LEMMA StepRuns ==
  ASSUME RunInv, ZoneNext
  PROVE  RunInv'
<1> PICK c \in Commands : Run(c)
  BY DEF ZoneNext
<1> USE DEF RunInv
<1>0. /\ args[c] \in Args /\ \A d \in Commands : NumLinks(args[d]) \in Nat
      /\ forced' = forced
      /\ args[c].verb \in {"create", "destroy"}
  BY ArgTypes DEF ZoneTypeOK, ZoneNext
<1> DEFINE Others == /\ args' = args
                     /\ \A d \in Commands : d # c => /\ pc'[d] = pc[d] /\ made'[d] = made[d]
                                                     /\ todo'[d] = todo[d]
<1> USE DEF Go, At, Standing, Stages, Ended, history
<1>1. CASE BeginCreate(c)
  <2>1. ZoneTypeOK'
    BY <1>0, <1>1 DEF BeginCreate, ZoneTypeOK, machine
  <2> QED BY <1>0, <1>1, <2>1 DEF BeginCreate, ZoneTypeOK
<1>2. CASE MakeLink(c)
  <2>1. made[c] + 1 \in 1..NumLinks(args[c]) /\ made[c] \in Nat
    BY <1>0, <1>2 DEF MakeLink, ZoneTypeOK
  <2>2. links' \subseteq LinkNames
    BY <1>0, <1>2, <2>1, Named DEF MakeLink, ZoneTypeOK
  <2>3. ZoneTypeOK'
    BY <1>0, <1>2, <2>1, <2>2 DEF MakeLink, ZoneTypeOK
  <2> QED BY <1>0, <1>2, <2>3 DEF MakeLink, ZoneTypeOK
<1>3. CASE WriteToml(c)
  <2>1. ZoneTypeOK'
    BY <1>0, <1>3, PortLinks DEF WriteToml, ZoneTypeOK
  <2> QED BY <1>0, <1>3, <2>1 DEF WriteToml, ZoneTypeOK
<1>4. CASE MakeDataset(c)
  <2>1. ZoneTypeOK'
    BY <1>0, <1>4 DEF MakeDataset, ZoneTypeOK
  <2> QED BY <1>0, <1>4, <2>1 DEF MakeDataset, ZoneTypeOK
<1>5. CASE MakeSoftnpuZone(c)
  <2>1. SoftnpuPhys(args[c]) \subseteq LinkNames
    BY <1>0, Named
  <2>2. ZoneTypeOK'
    BY <1>0, <1>5, <2>1 DEF MakeSoftnpuZone, MakeZone, ZoneTypeOK, ZoneNames
  <2> QED BY <1>0, <1>5, <2>2 DEF MakeSoftnpuZone, MakeZone, ZoneTypeOK
<1>6. CASE StartSoftnpu(c)
  <2>1. ZoneTypeOK'
    BY <1>0, <1>6 DEF StartSoftnpu, ZoneTypeOK, machine
  <2> QED BY <1>0, <1>6, <2>1 DEF StartSoftnpu, ZoneTypeOK
<1>7. CASE MakeHostZone(c)
  <2>1. HostPhys(args[c]) \subseteq LinkNames
    BY <1>0, Named
  <2>2. ZoneTypeOK'
    BY <1>0, <1>7, <2>1 DEF MakeHostZone, MakeZone, ZoneTypeOK, ZoneNames
  <2> QED BY <1>0, <1>7, <2>2 DEF MakeHostZone, MakeZone, ZoneTypeOK
<1>8. CASE Fail(c)
  <2>1. Drops(c) \in Seq(Resource)
    BY <1>8, DropsShape DEF Fail
  <2>2. toml' \subseteq [sidecar: LinkNames, scrimlet: LinkNames]
    BY <1>8 DEF Fail, ZoneTypeOK
  <2>3. ZoneTypeOK'
    BY <1>0, <1>8, <2>1, <2>2 DEF Fail, ZoneTypeOK
  <2> QED BY <1>0, <1>8, <2>3 DEF Fail, ZoneTypeOK
<1>9. CASE BeginDestroy(c)
  <2>1. Plan(args[c]) \in Seq(Resource)
    BY <1>0, PlanShape
  <2>2. ZoneTypeOK'
    BY <1>0, <1>9, <2>1 DEF BeginDestroy, ZoneTypeOK, machine
  <2> QED BY <1>0, <1>9, <2>2 DEF BeginDestroy, ZoneTypeOK
<1>10. CASE DeleteNext(c)
  <2>1. todo[c] \in Seq(Resource) /\ todo[c] # <<>>
    BY <1>10 DEF DeleteNext, ZoneTypeOK
  <2>2. Head(todo[c]) \in Resource /\ Tail(todo[c]) \in Seq(Resource)
    BY <2>1
  <2>3. Delete(Head(todo[c]))
    BY <1>10 DEF DeleteNext
  <2>4. ZoneTypeOK'
    BY <1>0, <1>10, <2>2, <2>3, DeleteType DEF DeleteNext, ZoneTypeOK
  <2> QED BY <1>0, <1>10, <2>4 DEF DeleteNext, ZoneTypeOK
<1>11. CASE End(c)
  <2>0. /\ pc' \in [Commands -> {"idle", "drop", "delete"} \cup Stages \cup Ended]
        /\ pc'[c] \in {"ok", "failed"} /\ \A d \in Commands \ {c} : pc'[d] = pc[d]
        /\ UNCHANGED <<args, made, todo, links, dataset, zones, toml, earlier, missed>>
    BY <1>11 DEF End, ZoneTypeOK, machine
  <2>1. ZoneTypeOK'
    BY <1>0, <2>0 DEF ZoneTypeOK
  <2> QED BY <1>0, <1>11, <2>1 DEF End, ZoneTypeOK, FullPlan
<1>12. CASE Kill(c)
  <2>1. ZoneTypeOK'
    BY <1>0, <1>12 DEF Kill, ZoneTypeOK, machine
  <2> QED BY <1>0, <1>12, <2>1 DEF Kill, ZoneTypeOK
<1>13. CASE DeleteFails(c)
  <2>1. todo[c] \in Seq(Resource) /\ todo[c] # <<>> /\ Tail(todo[c]) \in Seq(Resource)
    BY <1>13, Miss
  <2>2. /\ links' \subseteq LinkNames /\ DOMAIN zones' \subseteq ZoneNames
        /\ \A z \in DOMAIN zones' : zones'[z] \subseteq LinkNames
    BY <1>13, Miss DEF ZoneTypeOK
  <2>3. missed' \in [Commands -> SUBSET Resource] /\ todo' \in [Commands -> Seq(Resource)]
    <3>1. /\ todo[c][1] \in Resource
          /\ missed' = [missed EXCEPT ![c] = @ \cup {todo[c][1]}]
          /\ todo' = [todo EXCEPT ![c] = Tail(@)]
      BY <1>13, Miss
    <3>2. missed \in [Commands -> SUBSET Resource] /\ todo \in [Commands -> Seq(Resource)]
      BY DEF ZoneTypeOK
    <3>3. missed[c] \cup {todo[c][1]} \in SUBSET Resource
      BY <3>1, <3>2
    <3>4. missed' \in [Commands -> SUBSET Resource]
      BY <3>1, <3>2, <3>3
    <3>5. todo' \in [Commands -> Seq(Resource)]
      BY <2>1, <3>1, <3>2
    <3> QED BY <3>4, <3>5
  <2>4. UNCHANGED <<args, pc, made, dataset, toml, earlier>>
    BY <1>13, Miss
  <2>5. ZoneTypeOK'
    BY <1>0, <2>2, <2>3, <2>4 DEF ZoneTypeOK
  <2>6. pc[c] = "delete" /\ \A d \in Commands \ {c} : todo'[d] = todo[d]
    BY <1>13, Miss
  <2> QED BY <1>0, <2>4, <2>5, <2>6
<1> QED BY <1>1, <1>2, <1>3, <1>4, <1>5, <1>6, <1>7, <1>8, <1>9, <1>10, <1>11, <1>12, <1>13
        DEF Run

-----------------------------------------------------------------------------
(* What a create has, and what its steps do with it.                       *)

\* A step of one run leaves the others where they are.
LEMMA Bystanders ==
  ASSUME RunInv, NEW c \in Commands, Run(c)
  PROVE  /\ args' = args
         /\ \A d \in Commands \ {c} : /\ pc'[d] = pc[d]
                                      /\ made'[d] = made[d]
                                      /\ todo'[d] = todo[d]
                                      /\ earlier'[d] = earlier[d]
                                      /\ missed'[d] = missed[d]
<1> USE DEF RunInv, ZoneTypeOK, Go, history
<1>1. CASE BeginCreate(c) \/ MakeLink(c) \/ WriteToml(c) \/ MakeDataset(c)
  BY <1>1 DEF BeginCreate, MakeLink, WriteToml, MakeDataset
<1>2. CASE MakeSoftnpuZone(c) \/ StartSoftnpu(c) \/ MakeHostZone(c)
  BY <1>2 DEF MakeSoftnpuZone, StartSoftnpu, MakeHostZone, MakeZone
<1>3. CASE Fail(c) \/ BeginDestroy(c) \/ DeleteNext(c)
  BY <1>3 DEF Fail, BeginDestroy, DeleteNext
<1>4. CASE End(c) \/ Kill(c)
  BY <1>4 DEF End, Kill
<1>5. CASE DeleteFails(c)
  BY <1>5, Miss
<1> QED BY <1>1, <1>2, <1>3, <1>4, <1>5 DEF Run

\* So the others have what they had.
LEMMA OthersHave ==
  ASSUME RunInv, NEW c \in Commands, Run(c), NEW d \in Commands, d # c
  PROVE  /\ \A l : HasLink(d, l)' <=> HasLink(d, l)
         /\ HasZfs(d)' <=> HasZfs(d)
         /\ HasZone(d)' <=> HasZone(d)
         /\ Once(d)' <=> Once(d)
<1>1. args' = args /\ pc'[d] = pc[d] /\ made'[d] = made[d] /\ todo'[d] = todo[d]
  BY Bystanders
<1> QED BY <1>1 DEF HasLink, HasZfs, HasZone, Once

\* The run of create c has only what it had or has just made, has all of that
\* still if it has not just deleted it, and no other of it has gone.
Deeds(c) ==
  /\ \A l \in LinkNames :
       /\ HasLink(c, l)' => HasLink(c, l) \/ (l \notin links /\ l \in links')
       /\ l \in links => l \in links' \/ (HasLink(c, l) /\ ~HasLink(c, l)')
  /\ HasZfs(c)' => HasZfs(c) \/ (~dataset /\ dataset')
  /\ dataset => dataset' \/ (HasZfs(c) /\ ~HasZfs(c)')
  /\ HasZone(c)' => HasZone(c) \/ (/\ "softnpu" \notin DOMAIN zones
                                   /\ "softnpu" \in DOMAIN zones')
  /\ \A z \in DOMAIN zones : \/ z \in DOMAIN zones' /\ zones'[z] = zones[z]
                             \/ z = "softnpu" /\ HasZone(c) /\ ~HasZone(c)'

\* A create that fails has to drop what it had.
LEMMA FailHas ==
  ASSUME RunInv, NEW c \in Commands, Once(c), Fail(c)
  PROVE  /\ \A l : HasLink(c, l)' <=> HasLink(c, l)
         /\ HasZfs(c)' <=> HasZfs(c)
         /\ HasZone(c)' <=> HasZone(c)
         /\ Once(c)'
<1> DEFINE D == Drops(c)
<1>1. /\ ZoneTypeOK /\ pc[c] \in Stages /\ made[c] \in Nat /\ Ahead(c) \in Nat
      /\ pc[c] \in Standing /\ pc[c] \notin {"drop", "ok"}
  BY HeldShape, AheadType DEF Fail, RunInv, Stages, Standing
<1>2. pc'[c] = "drop" /\ todo'[c] = D /\ args' = args
  BY <1>1 DEF Fail, Go, ZoneTypeOK
<1>3. /\ \A i \in DOMAIN D :
           \/ \E k \in 1..made[c] : i = Ahead(c) + k /\ D[i] = Link(Ends(args[c], k))
           \/ /\ D[i] = Zfs /\ pc[c] \in {"softnpu", "start", "host"}
              /\ i = IF pc[c] = "start" THEN 2 ELSE 1
           \/ /\ D[i] = Zone("softnpu") /\ pc[c] \in {"start", "host"}
              /\ i = IF pc[c] = "start" THEN 1 ELSE made[c] + 2
      /\ \A k \in 1..made[c] : \E i \in DOMAIN D : D[i] = Link(Ends(args[c], k))
      /\ pc[c] \in {"softnpu", "start", "host"} => \E i \in DOMAIN D : D[i] = Zfs
      /\ pc[c] \in {"start", "host"} => \E i \in DOMAIN D : D[i] = Zone("softnpu")
  BY <1>1, DropsContents
<1> HIDE DEF D
<1>4. /\ \A i \in DOMAIN D : D[i].kind = "link" =>
           \E k \in 1..made[c] : i = Ahead(c) + k /\ D[i].ends = Ends(args[c], k)
      /\ \A i \in DOMAIN D : D[i].kind = "zfs" =>
           pc[c] \in {"softnpu", "start", "host"} /\ i = IF pc[c] = "start" THEN 2 ELSE 1
      /\ \A i \in DOMAIN D : D[i].kind = "zone" =>
           /\ D[i].name = "softnpu" /\ pc[c] \in {"start", "host"}
           /\ i = IF pc[c] = "start" THEN 1 ELSE made[c] + 2
      /\ \A i \in DOMAIN D : D[i].kind \in {"link", "zfs", "zone"}
  BY <1>3, Resources
<1>5. \A l : HasLink(c, l)' <=> HasLink(c, l)
  <2>1. \A k \in 1..made[c] : \E i \in DOMAIN D : D[i].kind = "link" /\ D[i].ends = Ends(args[c], k)
    BY <1>3, Resources
  <2> QED BY <1>1, <1>2, <1>4, <2>1 DEF HasLink, Standing, Stages
<1>6. HasZfs(c)' <=> HasZfs(c)
  <2>1. pc[c] \in {"softnpu", "start", "host"} => \E i \in DOMAIN D : D[i].kind = "zfs"
    BY <1>3, Resources
  <2> QED BY <1>1, <1>2, <1>4, <2>1 DEF HasZfs
<1>7. HasZone(c)' <=> HasZone(c)
  <2>1. pc[c] \in {"start", "host"} => \E i \in DOMAIN D : D[i].kind = "zone"
    BY <1>3, Resources
  <2> QED BY <1>1, <1>2, <1>4, <2>1 DEF HasZone
<1>8. Once(c)'
  <2>1. ASSUME NEW i \in DOMAIN D, NEW j \in DOMAIN D, i # j, D[i].kind = D[j].kind
        PROVE  D[i].kind = "link" /\ D[i].ends \cap D[j].ends = {}
    <3>1. D[i].kind = "link"
      BY <1>4, <2>1
    <3>2. PICK k \in 1..made[c] : i = Ahead(c) + k /\ D[i].ends = Ends(args[c], k)
      BY <1>4, <3>1
    <3>3. PICK n \in 1..made[c] : j = Ahead(c) + n /\ D[j].ends = Ends(args[c], n)
      BY <1>4, <2>1, <3>1
    <3>4. k # n
      BY <2>1, <3>2, <3>3
    <3>5. Ends(args[c], k) \cap Ends(args[c], n) = {}
      BY <1>1, <3>4 DEF Once
    <3> QED BY <3>1, <3>2, <3>3, <3>5
  <2>2. \A i \in DOMAIN D : D[i].kind = "zone" => D[i].name = "softnpu"
    BY <1>4
  <2> QED BY <1>2, <2>1, <2>2 DEF Once, Standing, Stages
<1> QED BY <1>5, <1>6, <1>7, <1>8

\* A create that drops something has had it, and has all else still.
LEMMA DropHas ==
  ASSUME RunInv, NEW c \in Commands, Once(c), pc[c] = "drop", DeleteNext(c)
  PROVE  LET r == todo[c][1] IN
         /\ r \in Resource /\ Delete(r)
         /\ \A l : HasLink(c, l)' <=> (HasLink(c, l) /\ ~(r.kind = "link" /\ l \in r.ends))
         /\ HasZfs(c)' <=> (HasZfs(c) /\ r.kind # "zfs")
         /\ HasZone(c)' <=> (HasZone(c) /\ r.kind # "zone")
         /\ r.kind = "link" => \A l \in r.ends : HasLink(c, l)
         /\ r.kind = "zfs" => HasZfs(c)
         /\ r.kind = "zone" => HasZone(c) /\ r.name = "softnpu"
         /\ Once(c)'
         /\ \A i \in DOMAIN todo'[c] : /\ i + 1 \in DOMAIN todo[c] /\ i + 1 # 1
                                       /\ todo'[c][i] = todo[c][i + 1]
<1> DEFINE s == todo[c]
           t == Tail(todo[c])
           r == todo[c][1]
<1>1. /\ s \in Seq(Resource) /\ s # <<>> /\ pc[c] \notin Standing
      /\ Delete(Head(s)) /\ pc'[c] = "drop" /\ todo'[c] = t
  BY DEF RunInv, ZoneTypeOK, DeleteNext, Standing, Stages
<1>2. /\ Head(s) = r /\ 1 \in DOMAIN s /\ t \in Seq(Resource)
      /\ \A i \in DOMAIN t : /\ i + 1 \in DOMAIN s /\ i \in Nat /\ i >= 1
                             /\ t[i] = s[i + 1]
      /\ \A i \in DOMAIN s : i # 1 => i - 1 \in DOMAIN t /\ t[i - 1] = s[i]
  BY <1>1, Rest
<1>3. DOMAIN s \subseteq Nat /\ r \in Resource
  BY <1>1, <1>2
<1> HIDE DEF s, t, r
<1>4. /\ \A i, j \in DOMAIN s : (i # j /\ s[i].kind = s[j].kind) =>
           s[i].kind = "link" /\ s[i].ends \cap s[j].ends = {}
      /\ \A i \in DOMAIN s : s[i].kind = "zone" => s[i].name = "softnpu"
  BY DEF Once, s
<1>5. r = s[1]
  BY DEF r, s
<1>6. \A i \in DOMAIN t : i + 1 # 1
  BY <1>2
<1>7. \A l : HasLink(c, l)' <=> (HasLink(c, l) /\ ~(r.kind = "link" /\ l \in r.ends))
  <2>1. ASSUME NEW l
        PROVE  (\E i \in DOMAIN t : t[i].kind = "link" /\ l \in t[i].ends)
               <=> /\ \E i \in DOMAIN s : s[i].kind = "link" /\ l \in s[i].ends
                   /\ ~(r.kind = "link" /\ l \in r.ends)
    <3>1. ASSUME NEW i \in DOMAIN t, t[i].kind = "link", l \in t[i].ends
          PROVE  /\ \E j \in DOMAIN s : s[j].kind = "link" /\ l \in s[j].ends
                 /\ ~(r.kind = "link" /\ l \in r.ends)
      <4>1. i + 1 \in DOMAIN s /\ s[i + 1].kind = "link" /\ l \in s[i + 1].ends /\ i + 1 # 1
        BY <1>2, <1>6, <3>1
      <4>2. r.kind = "link" => s[1].ends \cap s[i + 1].ends = {}
        BY <1>2, <1>4, <1>5, <4>1
      <4> QED BY <1>5, <4>1, <4>2
    <3>2. ASSUME NEW j \in DOMAIN s, s[j].kind = "link", l \in s[j].ends,
                 ~(r.kind = "link" /\ l \in r.ends)
          PROVE  \E i \in DOMAIN t : t[i].kind = "link" /\ l \in t[i].ends
      <4>1. j # 1
        BY <1>5, <3>2
      <4> QED BY <1>2, <3>2, <4>1
    <3> QED BY <3>1, <3>2
  <2> QED BY <1>1, <2>1 DEF HasLink, s
<1>8. HasZfs(c)' <=> (HasZfs(c) /\ r.kind # "zfs")
  <2>1. ASSUME NEW i \in DOMAIN t, t[i].kind = "zfs"
        PROVE  (\E j \in DOMAIN s : s[j].kind = "zfs") /\ r.kind # "zfs"
    <3>1. i + 1 \in DOMAIN s /\ s[i + 1].kind = "zfs" /\ i + 1 # 1
      BY <1>2, <1>6, <2>1
    <3>2. s[1].kind # "zfs"
      BY <1>2, <1>4, <3>1
    <3> QED BY <1>5, <3>1, <3>2
  <2>2. ASSUME NEW j \in DOMAIN s, s[j].kind = "zfs", r.kind # "zfs"
        PROVE  \E i \in DOMAIN t : t[i].kind = "zfs"
    <3>1. j # 1
      BY <1>5, <2>2
    <3> QED BY <1>2, <2>2, <3>1
  <2> QED BY <1>1, <2>1, <2>2 DEF HasZfs, s
<1>9. HasZone(c)' <=> (HasZone(c) /\ r.kind # "zone")
  <2>1. ASSUME NEW i \in DOMAIN t, t[i].kind = "zone"
        PROVE  (\E j \in DOMAIN s : s[j].kind = "zone") /\ r.kind # "zone"
    <3>1. i + 1 \in DOMAIN s /\ s[i + 1].kind = "zone" /\ i + 1 # 1
      BY <1>2, <1>6, <2>1
    <3>2. s[1].kind # "zone"
      BY <1>2, <1>4, <3>1
    <3> QED BY <1>5, <3>1, <3>2
  <2>2. ASSUME NEW j \in DOMAIN s, s[j].kind = "zone", r.kind # "zone"
        PROVE  \E i \in DOMAIN t : t[i].kind = "zone"
    <3>1. j # 1
      BY <1>5, <2>2
    <3> QED BY <1>2, <2>2, <3>1
  <2> QED BY <1>1, <2>1, <2>2 DEF HasZone, s
<1>10. /\ r.kind = "link" => \A l \in r.ends : HasLink(c, l)
       /\ r.kind = "zfs" => HasZfs(c)
       /\ r.kind = "zone" => HasZone(c) /\ r.name = "softnpu"
  BY <1>2, <1>4, <1>5 DEF HasLink, HasZfs, HasZone, s
<1>11. Once(c)'
  <2>1. ASSUME NEW i \in DOMAIN t, NEW j \in DOMAIN t, i # j, t[i].kind = t[j].kind
        PROVE  t[i].kind = "link" /\ t[i].ends \cap t[j].ends = {}
    <3>1. i + 1 # j + 1
      BY <1>2, <2>1
    <3> QED BY <1>2, <1>4, <2>1, <3>1
  <2>2. \A i \in DOMAIN t : t[i].kind = "zone" => t[i].name = "softnpu"
    BY <1>2, <1>4
  <2> QED BY <1>1, <2>1, <2>2 DEF Once, Standing, Stages
<1>12. r \in Resource /\ Delete(r)
  BY <1>1, <1>2, <1>3
<1> QED BY <1>1, <1>2, <1>6, <1>7, <1>8, <1>9, <1>10, <1>11, <1>12 DEF s, r

\* The run of a create that is not killed has what it makes, and lets go of
\* what it has only when it has deleted it, or cannot.
Keeps(c) ==
  /\ \A l \in LinkNames :
       /\ l \in links' => l \in links \/ HasLink(c, l)'
       /\ HasLink(c, l) => \/ HasLink(c, l)'
                           \/ l \notin links'
                           \/ /\ pc[c] = "drop" /\ todo[c] # <<>>
                              /\ todo[c][1].kind = "link" /\ l \in Undeletable
  /\ dataset' => dataset \/ HasZfs(c)'
  /\ HasZfs(c) => HasZfs(c)' \/ ~dataset'
  /\ "softnpu" \in DOMAIN zones' => "softnpu" \in DOMAIN zones \/ HasZone(c)'
  /\ HasZone(c) => HasZone(c)' \/ "softnpu" \notin DOMAIN zones'
  /\ "host" \in DOMAIN zones' => "host" \in DOMAIN zones \/ (pc'[c] = "ok" /\ args[c].withHost)

\* Every step of a create is of that kind.
LEMMA CreateSteps ==
  ASSUME RunInv, NEW c \in Commands, args[c].verb = "create",
         Once(c), Holds(c), Run(c)
  PROVE  /\ Deeds(c)
         /\ Once(c)'
         /\ pc'[c] # "killed" => Keeps(c)
<1>0. /\ ZoneTypeOK /\ args' = args /\ made[c] \in Nat /\ args[c] \in Args
      /\ pc \in [Commands -> {"idle", "drop", "delete"} \cup Stages \cup Ended]
      /\ made \in [Commands -> Nat]
      /\ todo \in [Commands -> Seq(Resource)]
  BY Bystanders DEF RunInv, ZoneTypeOK
<1> USE DEF At, Go
<1>1. CASE BeginCreate(c)
  <2>0. pc[c] = "idle" /\ pc'[c] = "ports" /\ made[c] = 0 /\ made' = made
        /\ UNCHANGED <<links, dataset, zones>>
    BY <1>0, <1>1 DEF BeginCreate, machine, RunInv
  <2>1. /\ \A l : HasLink(c, l)' <=> HasLink(c, l)
        /\ HasZfs(c)' <=> HasZfs(c)
        /\ HasZone(c)' <=> HasZone(c)
    BY <1>0, <2>0 DEF HasLink, HasZfs, HasZone, Standing, Stages
  <2>2. Once(c)'
    BY <1>0, <2>0 DEF Once, Standing, Stages
  <2> QED BY <2>0, <2>1, <2>2 DEF Deeds, Keeps
<1>2. CASE WriteToml(c)
  <2>0. pc[c] = "ports" /\ pc'[c] = "zfs" /\ made' = made
        /\ UNCHANGED <<links, dataset, zones>>
    BY <1>0, <1>2 DEF WriteToml
  <2>1. /\ \A l : HasLink(c, l)' <=> HasLink(c, l)
        /\ HasZfs(c)' <=> HasZfs(c)
        /\ HasZone(c)' <=> HasZone(c)
    BY <1>0, <2>0 DEF HasLink, HasZfs, HasZone, Standing, Stages
  <2>2. Once(c)'
    BY <1>0, <2>0 DEF Once, Standing, Stages
  <2> QED BY <2>0, <2>1, <2>2 DEF Deeds, Keeps
<1>3. CASE MakeDataset(c)
  <2>0. pc[c] = "zfs" /\ pc'[c] = "softnpu" /\ made' = made
        /\ ~dataset /\ dataset' /\ UNCHANGED <<links, zones>>
    BY <1>0, <1>3 DEF MakeDataset
  <2>1. /\ \A l : HasLink(c, l)' <=> HasLink(c, l)
        /\ HasZfs(c)'
        /\ HasZone(c)' <=> HasZone(c)
    BY <1>0, <2>0 DEF HasLink, HasZfs, HasZone, Standing, Stages
  <2>2. Once(c)'
    BY <1>0, <2>0 DEF Once, Standing, Stages
  <2> QED BY <2>0, <2>1, <2>2 DEF Deeds, Keeps
<1>4. CASE MakeSoftnpuZone(c)
  <2>0. /\ pc[c] = "softnpu" /\ pc'[c] = "start" /\ made' = made
        /\ "softnpu" \notin DOMAIN zones
        /\ DOMAIN zones' = DOMAIN zones \cup {"softnpu"}
        /\ \A z \in DOMAIN zones : zones'[z] = zones[z]
        /\ UNCHANGED <<links, dataset>>
    BY <1>0, <1>4 DEF MakeSoftnpuZone, MakeZone
  <2>1. /\ \A l : HasLink(c, l)' <=> HasLink(c, l)
        /\ HasZfs(c)' <=> HasZfs(c)
        /\ HasZone(c)'
    BY <1>0, <2>0 DEF HasLink, HasZfs, HasZone, Standing, Stages
  <2>2. Once(c)'
    BY <1>0, <2>0 DEF Once, Standing, Stages
  <2> QED BY <2>0, <2>1, <2>2 DEF Deeds, Keeps
<1>5. CASE StartSoftnpu(c)
  <2>0. pc[c] = "start" /\ pc'[c] \in {"host", "ok"} /\ made' = made
        /\ UNCHANGED <<links, dataset, zones>>
    BY <1>0, <1>5 DEF StartSoftnpu, machine
  <2>1. /\ \A l : HasLink(c, l)' <=> HasLink(c, l)
        /\ HasZfs(c)' <=> HasZfs(c)
        /\ HasZone(c)' <=> HasZone(c)
    BY <1>0, <2>0 DEF HasLink, HasZfs, HasZone, Standing, Stages
  <2>2. Once(c)'
    BY <1>0, <2>0 DEF Once, Standing, Stages
  <2> QED BY <2>0, <2>1, <2>2 DEF Deeds, Keeps
<1>6. CASE MakeHostZone(c)
  <2>0. /\ pc[c] = "host" /\ pc'[c] = "ok" /\ made' = made /\ args[c].withHost
        /\ "host" \notin DOMAIN zones
        /\ DOMAIN zones' = DOMAIN zones \cup {"host"}
        /\ \A z \in DOMAIN zones : zones'[z] = zones[z]
        /\ UNCHANGED <<links, dataset>>
    BY <1>0, <1>6 DEF MakeHostZone, MakeZone, RunInv
  <2>1. /\ \A l : HasLink(c, l)' <=> HasLink(c, l)
        /\ HasZfs(c)' <=> HasZfs(c)
        /\ HasZone(c)' <=> HasZone(c)
    BY <1>0, <2>0 DEF HasLink, HasZfs, HasZone, Standing, Stages
  <2>2. Once(c)'
    BY <1>0, <2>0 DEF Once, Standing, Stages
  <2> QED BY <2>0, <2>1, <2>2 DEF Deeds, Keeps
<1>7. CASE MakeLink(c)
  <2> DEFINE k == made[c] + 1
  <2>1. /\ pc[c] = "ports" /\ pc'[c] = "ports" /\ made'[c] = k
        /\ k \in 1..NumLinks(args[c])
        /\ Ends(args[c], k) \cap links = {} /\ links' = links \cup Ends(args[c], k)
        /\ UNCHANGED <<dataset, zones>>
    BY <1>0, <1>7, ArgTypes DEF MakeLink
  <2>2. Ends(args[c], k) \subseteq LinkNames
    BY <1>0, <2>1, Named
  <2>3. 1..k = 1..made[c] \cup {k} /\ k \notin 1..made[c]
    BY <1>0
  <2> HIDE DEF k
  <2>4. \A l : HasLink(c, l)' <=> HasLink(c, l) \/ l \in Ends(args[c], k)
    BY <1>0, <2>1, <2>3 DEF HasLink, Standing, Stages
  <2>5. (HasZfs(c)' <=> HasZfs(c)) /\ (HasZone(c)' <=> HasZone(c))
    BY <1>0, <2>1 DEF HasZfs, HasZone
  <2>6. \A j \in 1..made[c] : Ends(args[c], j) \subseteq links
    <3>1. ASSUME NEW j \in 1..made[c], NEW l \in Ends(args[c], j)
          PROVE  l \in links
      <4>1. HasLink(c, l)
        BY <2>1, <3>1 DEF HasLink, Standing, Stages
      <4>2. l \in LinkNames
        BY <1>0, <3>1, HeldShape
      <4> QED BY <4>1, <4>2 DEF Holds
    <3> QED BY <3>1
  <2>7. Once(c)'
    <3>1. \A i, j \in 1..k : i # j => Ends(args[c], i) \cap Ends(args[c], j) = {}
      BY <2>1, <2>3, <2>6 DEF Once, Standing, Stages
    <3> QED BY <1>0, <2>1, <3>1 DEF Once
  <2>8. Deeds(c) /\ Keeps(c)
    BY <2>1, <2>2, <2>4, <2>5 DEF Deeds, Keeps
  <2> QED BY <2>7, <2>8
<1>8. CASE Fail(c)
  <2>1. UNCHANGED <<links, dataset, zones>>
    BY <1>8 DEF Fail
  <2>2. /\ \A l : HasLink(c, l)' <=> HasLink(c, l)
        /\ HasZfs(c)' <=> HasZfs(c)
        /\ HasZone(c)' <=> HasZone(c)
        /\ Once(c)'
    BY <1>8, FailHas
  <2> QED BY <2>1, <2>2 DEF Deeds, Keeps
<1>9. CASE BeginDestroy(c)
  BY <1>9 DEF BeginDestroy
<1>10. CASE DeleteNext(c)
  <2> DEFINE r == todo[c][1]
  <2>1. pc[c] = "drop" /\ todo[c] # <<>>
    BY <1>10 DEF DeleteNext, RunInv
  <2>2. /\ r \in Resource /\ Delete(r)
        /\ \A l : HasLink(c, l)' <=> (HasLink(c, l) /\ ~(r.kind = "link" /\ l \in r.ends))
        /\ HasZfs(c)' <=> (HasZfs(c) /\ r.kind # "zfs")
        /\ HasZone(c)' <=> (HasZone(c) /\ r.kind # "zone")
        /\ r.kind = "link" => \A l \in r.ends : HasLink(c, l)
        /\ r.kind = "zfs" => HasZfs(c)
        /\ r.kind = "zone" => HasZone(c) /\ r.name = "softnpu"
        /\ Once(c)'
    BY <1>10, <2>1, DropHas
  <2>3. r.kind \in {"link", "zone", "zfs"}
    BY <2>2 DEF Resource
  <2>4. CASE r.kind = "link"
    <3>1. links' = links \ (r.ends \ Undeletable) /\ UNCHANGED <<dataset, zones>>
      BY <2>2, <2>4 DEF Delete
    <3>2. Deeds(c)
      BY <2>2, <2>4, <3>1 DEF Deeds
    <3>3. Keeps(c)
      BY <2>1, <2>2, <2>4, <3>1 DEF Keeps
    <3> QED BY <2>2, <3>2, <3>3
  <2>5. CASE r.kind = "zone"
    <3>1. /\ DOMAIN zones' = DOMAIN zones \ {"softnpu"}
          /\ \A z \in DOMAIN zones' : zones'[z] = zones[z]
          /\ UNCHANGED <<links, dataset>>
      BY <2>2, <2>5 DEF Delete
    <3>2. Deeds(c) /\ Keeps(c)
      BY <2>2, <2>5, <3>1 DEF Deeds, Keeps
    <3> QED BY <2>2, <3>2
  <2>6. CASE r.kind = "zfs"
    <3>1. ~dataset' /\ UNCHANGED <<links, zones>>
      BY <2>2, <2>6 DEF Delete
    <3>2. Deeds(c) /\ Keeps(c)
      BY <2>2, <2>6, <3>1 DEF Deeds, Keeps
    <3> QED BY <2>2, <3>2
  <2> QED BY <2>3, <2>4, <2>5, <2>6
<1>11. CASE End(c)
  <2>1. /\ pc[c] = "drop" /\ pc'[c] = "failed" /\ todo[c] = <<>>
        /\ UNCHANGED <<links, dataset, zones>>
    BY <1>0, <1>11 DEF End, RunInv, machine
  <2>2. DOMAIN todo[c] = {}
    BY <2>1
  <2>3. \A l : ~HasLink(c, l) /\ ~HasLink(c, l)'
    BY <2>1, <2>2 DEF HasLink, Standing, Stages
  <2>4. ~HasZfs(c) /\ ~HasZfs(c)' /\ ~HasZone(c) /\ ~HasZone(c)'
    BY <2>1, <2>2 DEF HasZfs, HasZone
  <2>5. Once(c)'
    BY <2>1 DEF Once, Standing, Stages
  <2> QED BY <2>1, <2>3, <2>4, <2>5 DEF Deeds, Keeps
<1>12. CASE Kill(c)
  <2>1. pc'[c] = "killed" /\ UNCHANGED <<links, dataset, zones>>
    BY <1>0, <1>12 DEF Kill, machine
  <2>2. (\A l : ~HasLink(c, l)') /\ ~HasZfs(c)' /\ ~HasZone(c)'
    BY <2>1 DEF HasLink, HasZfs, HasZone, Standing, Stages
  <2>3. Once(c)'
    BY <2>1 DEF Once, Standing, Stages
  <2> QED BY <2>1, <2>2, <2>3 DEF Deeds
<1>13. ~DeleteFails(c)
  BY <1>0, Miss
<1> QED BY <1>1, <1>2, <1>3, <1>4, <1>5, <1>6, <1>7, <1>8, <1>9, <1>10, <1>11, <1>12, <1>13
        DEF Run

-----------------------------------------------------------------------------
(* Creates without a destroy.                                              *)

\* A run with a step to take has not ended; once begun, it stays so.
LEMMA RunsOn ==
  ASSUME RunInv, NEW c \in Commands, Run(c)
  PROVE  pc'[c] # "idle" /\ pc[c] \notin Ended
<1> USE DEF RunInv, ZoneTypeOK, At, Go, Ended
<1>1. CASE BeginCreate(c) \/ MakeLink(c) \/ WriteToml(c) \/ MakeDataset(c)
  BY <1>1 DEF BeginCreate, MakeLink, WriteToml, MakeDataset
<1>2. CASE MakeSoftnpuZone(c) \/ StartSoftnpu(c) \/ MakeHostZone(c)
  BY <1>2 DEF MakeSoftnpuZone, StartSoftnpu, MakeHostZone, MakeZone
<1>3. CASE Fail(c) \/ BeginDestroy(c) \/ DeleteNext(c)
  BY <1>3 DEF Fail, BeginDestroy, DeleteNext, Stages
<1>4. CASE End(c) \/ Kill(c)
  BY <1>4 DEF End, Kill
<1>5. CASE DeleteFails(c)
  BY <1>5, Miss
<1> QED BY <1>1, <1>2, <1>3, <1>4, <1>5 DEF Run

\* What is known of creates has been known as long as they run.
LEMMA BegunBefore ==
  ASSUME RunInv, NEW c \in Commands, Run(c)
  PROVE  /\ Begun \subseteq Begun' /\ c \in Begun'
         /\ Creates' = Creates /\ Destroys' = Destroys
<1>1. args' = args /\ \A d \in Commands \ {c} : pc'[d] = pc[d]
  BY Bystanders
<1>2. pc'[c] # "idle"
  BY RunsOn
<1> QED BY <1>1, <1>2 DEF Begun, Creates, Destroys

\* The first link of every create is shi0.
LEMMA FirstLink ==
  ASSUME RunInv, NEW c \in Commands, args[c].verb = "create",
         pc[c] \in Standing, made[c] = NumLinks(args[c])
  PROVE  HasLink(c, <<"shi", 0>>) /\ <<"shi", 0>> \in LinkNames
<1>1. args[c] \in Args /\ ValidSpec(args[c])
  BY DEF RunInv, ZoneTypeOK
<1>2. 1 \in 1..made[c] /\ 1 \in 1..NumLinks(args[c])
  BY <1>1, ArgTypes
<1>3. LinkPair(args[c], 1).b = <<"shi", 0>>
  <2>1. (1 - 1) \div 2 = 0 /\ 1 % 2 = 1 /\ 1 - 1 = 0
    OBVIOUS
  <2> QED BY <2>1 DEF LinkPair
<1>4. <<"shi", 0>> \in Ends(args[c], 1)
  BY <1>3 DEF Ends
<1> QED BY <1>1, <1>2, <1>4, Named DEF HasLink

\* Nobody else touches the zone and the configuration of a create.
LEMMA StepOwn ==
  ASSUME RunInv, HoldInv, Begun \cap Destroys = {},
         NEW c \in Commands, args[c].verb = "create", Run(c), Deeds(c),
         NEW d \in Commands, d \in Begun' => args[d].verb = "create"
  PROVE  Own(d)'
<1> USE DEF Standing, Stages
<1>0. /\ Own(d) /\ (d # c => Apart(d, c)) /\ args' = args
      /\ pc \in [Commands -> {"idle", "drop", "delete"} \cup Stages \cup Ended]
      /\ d # c => pc'[d] = pc[d]
  BY Bystanders DEF HoldInv, RunInv, ZoneTypeOK
<1>m. ~DeleteFails(c)
  BY Miss
<1>1. pc'[d] \in {"start", "host", "ok"} => zones'["softnpu"] = SoftnpuPhys(args[d])
  <2>1. CASE d # c
    <3>1. HasZone(d) => ~HasZone(c)
      BY <1>0, <2>1 DEF Apart
    <3>2. pc[d] \in {"start", "host", "ok"} => HasZone(d) /\ "softnpu" \in DOMAIN zones
      BY DEF HasZone, HoldInv, Holds
    <3>3. pc[d] \in {"start", "host", "ok"} => zones'["softnpu"] = zones["softnpu"]
      BY <3>1, <3>2 DEF Deeds
    <3> QED BY <1>0, <2>1, <3>3 DEF Own
  <2>2. CASE d = c /\ MakeSoftnpuZone(c)
    BY <1>0, <2>2 DEF MakeSoftnpuZone, MakeZone
  <2>3. CASE d = c /\ ~MakeSoftnpuZone(c)
    <3> SUFFICES ASSUME pc'[c] \in {"start", "host", "ok"}
                 PROVE  zones'["softnpu"] = SoftnpuPhys(args[d])
      BY <2>3
    <3>1. \/ StartSoftnpu(c) \/ MakeHostZone(c)
      <4>1. ~(BeginCreate(c) \/ MakeLink(c) \/ WriteToml(c) \/ MakeDataset(c))
        BY <1>0 DEF BeginCreate, MakeLink, WriteToml, MakeDataset, At, Go
      <4>2. ~(Fail(c) \/ BeginDestroy(c) \/ DeleteNext(c) \/ Kill(c))
        BY <1>0 DEF Fail, BeginDestroy, DeleteNext, Kill, At, Go
      <4>3. ~End(c)
        BY <1>0 DEF End, At, Go, RunInv
      <4> QED BY <1>m, <2>3, <4>1, <4>2, <4>3 DEF Run
    <3>2. /\ pc[c] \in {"start", "host"}
          /\ "softnpu" \in DOMAIN zones => zones'["softnpu"] = zones["softnpu"]
      BY <3>1 DEF StartSoftnpu, MakeHostZone, MakeZone, At, machine
    <3>3. "softnpu" \in DOMAIN zones
      BY <3>2 DEF HoldInv, Holds, HasZone
    <3> QED BY <1>0, <2>3, <3>2, <3>3 DEF Own
  <2> QED BY <2>1, <2>2, <2>3
<1>2. pc'[d] \in {"zfs", "softnpu", "start", "host", "ok"} => toml' = PortsOf(args[d])
  <2> SUFFICES ASSUME pc'[d] \in {"zfs", "softnpu", "start", "host", "ok"}
               PROVE  toml' = PortsOf(args[d])
    OBVIOUS
  <2>1. args[d].verb = "create"
    BY DEF Begun
  <2>2. CASE toml' = toml
    <3>1. ~WriteToml(c) \/ d # c \/ toml = PortsOf(args[d])
      BY <2>2 DEF WriteToml
    <3>2. CASE d = c
      <4>1. ~(BeginCreate(c) \/ MakeLink(c))
        BY <1>0, <3>2 DEF BeginCreate, MakeLink, At, Go
      <4>2. ~(Fail(c) \/ BeginDestroy(c) \/ DeleteNext(c) \/ Kill(c))
        BY <1>0, <3>2 DEF Fail, BeginDestroy, DeleteNext, Kill, At, Go
      <4>3. ~End(c)
        BY <1>0, <3>2 DEF End, At, Go, RunInv
      <4>4. CASE WriteToml(c)
        BY <3>1, <2>2, <3>2, <4>4
      <4>5. CASE MakeDataset(c) \/ MakeSoftnpuZone(c) \/ StartSoftnpu(c) \/ MakeHostZone(c)
        <5>1. pc[c] \in {"zfs", "softnpu", "start", "host"}
          BY <4>5 DEF MakeDataset, MakeSoftnpuZone, StartSoftnpu, MakeHostZone, MakeZone, At
        <5> QED BY <1>0, <2>2, <3>2, <5>1 DEF Own
      <4> QED BY <1>m, <4>1, <4>2, <4>3, <4>4, <4>5 DEF Run
    <3> QED BY <1>0, <2>2, <3>2 DEF Own
  <2>3. CASE toml' # toml
    <3>1. WriteToml(c) \/ (Fail(c) /\ At(c, "ports") /\ made[c] = NumLinks(args[c]))
      <4>1. ~(BeginCreate(c) \/ MakeLink(c) \/ MakeDataset(c) \/ MakeSoftnpuZone(c))
        BY <2>3 DEF BeginCreate, MakeLink, MakeDataset, MakeSoftnpuZone, MakeZone, machine
      <4>2. ~(StartSoftnpu(c) \/ MakeHostZone(c) \/ BeginDestroy(c) \/ End(c) \/ Kill(c))
        BY <2>3 DEF StartSoftnpu, MakeHostZone, MakeZone, BeginDestroy, End, Kill, machine
      <4>3. ~DeleteNext(c)
        <5>1. ASSUME DeleteNext(c) PROVE FALSE
          <6>1. todo[c] \in Seq(Resource) /\ todo[c] # <<>> /\ Delete(Head(todo[c])) /\ ZoneTypeOK
            BY <5>1 DEF DeleteNext, RunInv, ZoneTypeOK
          <6>2. Head(todo[c]) \in Resource
            BY <6>1
          <6> QED BY <2>3, <6>1, <6>2, DeleteType
        <5> QED BY <5>1
      <4> QED BY <1>m, <2>3, <4>1, <4>2, <4>3 DEF Run, Fail
    <3>2. pc[c] = "ports" /\ made[c] = NumLinks(args[c])
      BY <3>1 DEF WriteToml, At
    <3>3. CASE d = c
      <4>1. WriteToml(c)
        BY <1>0, <2>3, <3>1, <3>3 DEF Fail, Go
      <4> QED BY <3>3, <4>1 DEF WriteToml
    <3>4. CASE d # c
      <4>1. pc[d] \in {"zfs", "softnpu", "start", "host", "ok"}
        BY <1>0, <3>4
      <4>2. made[d] = NumLinks(args[d])
        BY <2>1, <4>1 DEF RunInv, ZoneTypeOK
      <4>3. HasLink(c, <<"shi", 0>>) /\ <<"shi", 0>> \in LinkNames
        BY <3>2, FirstLink
      <4>4. HasLink(d, <<"shi", 0>>)
        BY <2>1, <4>1, <4>2, FirstLink
      <4> QED BY <1>0, <3>4, <4>3, <4>4 DEF Apart
    <3> QED BY <3>3, <3>4
  <2> QED BY <2>2, <2>3
<1>3. (pc'[d] = "ok" /\ args[d].withHost) => "host" \in DOMAIN zones'
  <2>1. "host" \in DOMAIN zones => "host" \in DOMAIN zones'
    BY DEF Deeds
  <2>2. CASE pc[d] = "ok"
    BY <1>0, <2>1, <2>2 DEF Own
  <2>3. CASE pc[d] # "ok" /\ pc'[d] = "ok"
    <3>1. d = c
      BY <1>0, <2>3
    <3>2. ~(BeginCreate(c) \/ MakeLink(c) \/ WriteToml(c) \/ MakeDataset(c) \/ MakeSoftnpuZone(c))
      BY <1>0, <2>3, <3>1
      DEF BeginCreate, MakeLink, WriteToml, MakeDataset, MakeSoftnpuZone, MakeZone, At, Go
    <3>3. ~(Fail(c) \/ BeginDestroy(c) \/ DeleteNext(c) \/ Kill(c))
      BY <1>0, <2>3, <3>1 DEF Fail, BeginDestroy, DeleteNext, Kill, At, Go
    <3>4. ~End(c)
      BY <1>0, <2>3, <3>1 DEF End, At, Go, RunInv
    <3>5. CASE StartSoftnpu(c)
      BY <1>0, <2>3, <3>1, <3>5 DEF StartSoftnpu, Go
    <3>6. CASE MakeHostZone(c)
      BY <3>6 DEF MakeHostZone, MakeZone
    <3> QED BY <1>m, <3>2, <3>3, <3>4, <3>5, <3>6 DEF Run
  <2> QED BY <2>2, <2>3
<1> QED BY <1>0, <1>1, <1>2, <1>3 DEF Own

\* As long as there is no destroy, nobody takes anything from a create.
LEMMA StepHold ==
  ASSUME RunInv, HoldInv, ZoneNext
  PROVE  HoldInv'
<1> SUFFICES ASSUME (Begun \cap Destroys = {})'
             PROVE  /\ \A d \in Commands : Once(d)' /\ Holds(d)' /\ Own(d)'
                    /\ \A d, e \in Commands : d # e => Apart(d, e)'
  BY DEF HoldInv
<1> PICK c \in Commands : Run(c)
  BY DEF ZoneNext
<1>1. /\ Begun \cap Destroys = {}
      /\ args[c].verb = "create"
      /\ \A d \in Commands : d \in Begun' => args[d].verb = "create"
  <2>1. Begun \subseteq Begun' /\ c \in Begun' /\ Destroys' = Destroys
    BY BegunBefore
  <2>2. \A d \in Commands : args[d].verb \in {"create", "destroy"}
    BY ArgTypes DEF RunInv, ZoneTypeOK
  <2> QED BY <2>1, <2>2 DEF Destroys
<1>2. /\ \A d \in Commands : Once(d) /\ Holds(d) /\ Own(d)
      /\ \A d, e \in Commands : d # e => Apart(d, e)
  BY <1>1 DEF HoldInv
<1>3. Deeds(c) /\ Once(c)'
  BY <1>1, <1>2, CreateSteps
<1>4. \A d \in Commands : d # c => /\ \A l : HasLink(d, l)' <=> HasLink(d, l)
                                   /\ HasZfs(d)' <=> HasZfs(d)
                                   /\ HasZone(d)' <=> HasZone(d)
                                   /\ Once(d)' <=> Once(d)
  BY OthersHave
<1>5. \A d \in Commands : Once(d)'
  BY <1>2, <1>3, <1>4
<1>6. \A d \in Commands : Own(d)'
  BY <1>1, <1>3, StepOwn
<1>7. ASSUME NEW d \in Commands PROVE Holds(d)'
  <2>1. CASE d = c
    BY <1>2, <1>3, <2>1 DEF Holds, Deeds
  <2>2. CASE d # c
    <3>1. Holds(d) /\ Apart(d, c)
      BY <1>2, <2>2
    <3> QED BY <1>3, <1>4, <2>2, <3>1 DEF Holds, Deeds, Apart
  <2> QED BY <2>1, <2>2
<1>8. ASSUME NEW d \in Commands, NEW e \in Commands, d # e PROVE Apart(d, e)'
  <2>1. Apart(d, e) /\ Holds(d) /\ Holds(e)
    BY <1>2, <1>8
  <2>2. CASE d # c /\ e # c
    BY <1>4, <2>1, <2>2 DEF Apart
  <2>3. CASE d = c
    BY <1>3, <1>4, <1>8, <2>1, <2>3 DEF Apart, Holds, Deeds
  <2>4. CASE e = c
    BY <1>3, <1>4, <1>8, <2>1, <2>4 DEF Apart, Holds, Deeds
  <2> QED BY <2>2, <2>3, <2>4
<1> QED BY <1>5, <1>6, <1>7, <1>8

\* Before the first run there is nothing to hold.
LEMMA InitHold == ZoneInit => HoldInv
<1> SUFFICES ASSUME ZoneInit PROVE HoldInv
  OBVIOUS
<1>1. \A c \in Commands : pc[c] = "idle"
  BY DEF ZoneInit
<1>2. \A c \in Commands : (\A l : ~HasLink(c, l)) /\ ~HasZfs(c) /\ ~HasZone(c)
  BY <1>1 DEF HasLink, HasZfs, HasZone, Standing, Stages
<1> QED BY <1>1, <1>2 DEF HoldInv, Once, Holds, Own, Apart, Standing, Stages

\* Both invariants hold in every state.
LEMMA RunInvariance == ZoneSpec => [](RunInv /\ HoldInv)
<1>1. ZoneInit => RunInv /\ HoldInv
  BY InitRuns, InitHold
<1>2. RunInv /\ UNCHANGED zvars => RunInv'
  <2> SUFFICES ASSUME RunInv, UNCHANGED zvars PROVE RunInv'
    OBVIOUS
  <2>1. ZoneTypeOK'
    BY DEF RunInv, ZoneTypeOK, zvars, machine, history
  <2> QED BY <2>1 DEF RunInv, zvars, machine
<1>3. HoldInv /\ UNCHANGED zvars => HoldInv'
  <2> SUFFICES ASSUME HoldInv, UNCHANGED zvars PROVE HoldInv'
    OBVIOUS
  <2>1. /\ args' = args /\ pc' = pc /\ made' = made /\ todo' = todo /\ links' = links
        /\ dataset' = dataset /\ zones' = zones /\ toml' = toml
    BY DEF zvars, machine
  <2>2. Begun' = Begun /\ Destroys' = Destroys
    BY <2>1 DEF Begun, Destroys
  <2>3. \A c \in Commands : /\ \A l : HasLink(c, l)' <=> HasLink(c, l)
                            /\ HasZfs(c)' <=> HasZfs(c)
                            /\ HasZone(c)' <=> HasZone(c)
    BY <2>1 DEF HasLink, HasZfs, HasZone
  <2>4. \A c \in Commands : (Once(c) => Once(c)') /\ (Own(c) => Own(c)')
    BY <2>1 DEF Once, Own
  <2>5. \A c \in Commands : Holds(c) => Holds(c)'
    BY <2>1, <2>3 DEF Holds
  <2>6. \A c, d \in Commands : Apart(c, d) => Apart(c, d)'
    BY <2>3 DEF Apart
  <2> QED BY <2>2, <2>4, <2>5, <2>6 DEF HoldInv
<1>4. RunInv /\ HoldInv /\ [ZoneNext]_zvars => (RunInv /\ HoldInv)'
  BY <1>2, <1>3, StepRuns, StepHold
<1> QED BY <1>1, <1>4, PTL DEF ZoneSpec

(***************************************************************************)
(* The runs, the machine and what is left to undo are typed, and a create  *)
(* that is past its links has made them all.                               *)
(***************************************************************************)
THEOREM ZonesAreTyped == ZoneSpec => []ZoneTypeOK
<1>1. RunInv => ZoneTypeOK
  BY DEF RunInv
<1> QED BY <1>1, RunInvariance, PTL

(***************************************************************************)
(* Whatever other creates do on its name, a zone that has been created     *)
(* stays whole until somebody runs destroy.                                *)
(***************************************************************************)
THEOREM CreatedZonesStay == ZoneSpec => []CreatedStaysWhole
<1>1. RunInv /\ HoldInv => CreatedStaysWhole
  <2> SUFFICES ASSUME RunInv, HoldInv, Begun \cap Destroys = {},
                      NEW c \in Creates, pc[c] = "ok"
               PROVE  Whole(args[c])
    BY DEF CreatedStaysWhole
  <2>1. /\ c \in Commands /\ args[c] \in Args /\ made[c] = NumLinks(args[c])
        /\ pc[c] \in Standing
    BY DEF Creates, RunInv, ZoneTypeOK, Standing
  <2>2. Holds(c) /\ Own(c)
    BY <2>1 DEF HoldInv
  <2>3. LinksOf(args[c]) \subseteq links
    <3>1. \A l \in LinksOf(args[c]) : HasLink(c, l) /\ l \in LinkNames
      BY <2>1, Named DEF HasLink, LinksOf
    <3> QED BY <2>2, <3>1 DEF Holds
  <2>4. HasZfs(c) /\ HasZone(c)
    BY DEF HasZfs, HasZone
  <2>5. zones["softnpu"] = SoftnpuPhys(args[c]) /\ toml = PortsOf(args[c])
    BY <2>2 DEF Own
  <2>6. \A p \in toml : {p.sidecar, p.scrimlet} \subseteq zones["softnpu"]
    BY <2>1, <2>5, PortLinks
  <2> QED BY <2>2, <2>3, <2>4, <2>5, <2>6 DEF Whole, Holds, Own
<1> QED BY <1>1, RunInvariance, PTL

-----------------------------------------------------------------------------
(* Creates that fail.                                                      *)

\* Without a destroy, and a kill, what is there stays somebody's.
LEMMA StepClean ==
  ASSUME NamesApart, RunInv, HoldInv, CleanInv, ZoneNext
  PROVE  CleanInv'
<1> SUFFICES ASSUME Orderly' PROVE CleanInv'
  BY DEF CleanInv
<1> PICK c \in Commands : Run(c)
  BY DEF ZoneNext
<1> USE DEF Standing, Stages
<1>1. /\ Orderly /\ Begun \cap Destroys = {} /\ args[c].verb = "create"
      /\ pc'[c] # "killed" /\ forced' = forced /\ args' = args
      /\ \A d \in Begun' : forced \/ ~args[d].withHost
      /\ c \in Begun'
  <2>1. /\ Begun \subseteq Begun' /\ c \in Begun' /\ Creates' = Creates
        /\ args' = args /\ \A d \in Commands \ {c} : pc'[d] = pc[d]
        /\ forced' = forced
    BY BegunBefore, Bystanders DEF ZoneNext
  <2>2. Begun \subseteq Creates /\ c \in Creates /\ Creates \cap Destroys = {}
    BY <2>1 DEF Orderly, Creates, Destroys
  <2>3. pc[c] # "killed"
    BY RunsOn DEF Ended
  <2>4. \A d \in Begun : d \in Commands /\ pc[d] # "killed"
    BY <2>1, <2>3 DEF Orderly, Begun
  <2> QED BY <2>1, <2>2, <2>4 DEF Orderly, Creates
<1>2. /\ \A d \in Commands : Once(d) /\ Holds(d) /\ Own(d)
      /\ \A d, e \in Commands : d # e => Apart(d, e)
  BY <1>1 DEF HoldInv
<1>3. Deeds(c) /\ Keeps(c)
  BY <1>1, <1>2, CreateSteps
<1>4. \A d \in Commands : d # c => /\ \A l : HasLink(d, l)' <=> HasLink(d, l)
                                   /\ HasZfs(d)' <=> HasZfs(d)
                                   /\ HasZone(d)' <=> HasZone(d)
                                   /\ pc'[d] = pc[d] /\ todo'[d] = todo[d]
  BY OthersHave, Bystanders
<1>5. /\ \A l \in links : l \in LinkNames /\ \E d \in Commands : HasLink(d, l)
      /\ dataset => \E d \in Commands : HasZfs(d)
      /\ "softnpu" \in DOMAIN zones => \E d \in Commands : HasZone(d)
      /\ "host" \in DOMAIN zones => \E d \in Commands : pc[d] = "ok" /\ args[d].withHost
      /\ \A d \in Commands : ZoneFirst(d)
      /\ \A d \in Commands, l \in LinkNames : HasLink(d, l) => l \in MadeOf(args[d])
      /\ \A l \in links' : l \in LinkNames
      /\ args[c] \in Args /\ DOMAIN zones \subseteq {"softnpu", "host"}
  <2>1. RunInv'
    BY StepRuns
  <2> QED BY <1>1, <2>1 DEF CleanInv, RunInv, ZoneTypeOK, ZoneNames
\* Where links in zones stay, those that c can drop are in none.
<1>6. ASSUME NEW l \in LinkNames, HasLink(c, l), pc[c] = "drop", todo[c] # <<>>,
             todo[c][1].kind = "link"
      PROVE  l \notin Undeletable
  <2> SUFFICES ASSUME ~forced, NEW z \in DOMAIN zones, l \in zones[z]
               PROVE  FALSE
    BY DEF Undeletable, InZones
  <2>1. ASSUME NEW d \in Commands, pc[d] # "idle" PROVE ~args[d].withHost
    BY <1>1, <2>1 DEF Orderly, Begun
  <2>2. z = "softnpu"
    BY <1>5, <2>1
  <2>3. PICK d \in Commands : HasZone(d)
    BY <1>5, <2>2
  <2>4. HasLink(d, l) \/ l \in UserLinks(args[d])
    BY <1>5, <2>2, <2>3 DEF ZoneFirst
  <2>5. l \in MadeOf(args[c])
    BY <1>5, <1>6
  <2>6. args[d] \in Args
    BY DEF RunInv, ZoneTypeOK
  <2>7. HasLink(d, l)
    BY <1>5, <2>4, <2>5, <2>6 DEF NamesApart
  <2>8. d = c
    BY <1>2, <1>6, <2>7 DEF Apart
  <2>9. PICK i \in DOMAIN todo[c] : todo[c][i].kind = "zone"
    BY <1>6, <2>3, <2>8 DEF HasZone
  <2>10. i = 1
    BY <1>5, <1>6, <2>9 DEF ZoneFirst
  <2> QED BY <1>6, <2>9, <2>10
<1>7. \A l \in LinkNames : HasLink(c, l) => HasLink(c, l)' \/ l \notin links'
  BY <1>3, <1>6 DEF Keeps
<1>8. ASSUME NEW l \in links' PROVE \E d \in Commands : HasLink(d, l)'
  <2>1. l \in LinkNames
    BY <1>5
  <2>2. CASE l \in links
    <3>1. PICK d \in Commands : HasLink(d, l)
      BY <1>5, <2>2
    <3> QED BY <1>4, <1>7, <1>8, <2>1, <3>1
  <2>3. CASE l \notin links
    BY <1>3, <1>8, <2>1, <2>3 DEF Keeps
  <2> QED BY <2>2, <2>3
<1>9. dataset' => \E d \in Commands : HasZfs(d)'
  BY <1>3, <1>4, <1>5 DEF Keeps
<1>10. "softnpu" \in DOMAIN zones' => \E d \in Commands : HasZone(d)'
  BY <1>3, <1>4, <1>5 DEF Keeps
<1>11. "host" \in DOMAIN zones' => \E d \in Commands : pc'[d] = "ok" /\ args[d].withHost
  <2>1. pc[c] # "ok"
    BY RunsOn DEF Ended
  <2> QED BY <1>3, <1>4, <1>5, <2>1 DEF Keeps
<1>12. ASSUME NEW d \in Commands, NEW l \in LinkNames, HasLink(d, l)'
       PROVE  l \in MadeOf(args[d])
  <2>1. CASE HasLink(d, l)
    BY <1>5, <2>1
  <2>2. CASE ~HasLink(d, l)
    <3>1. d = c /\ l \notin links /\ l \in links'
      BY <1>3, <1>4, <1>12, <2>2 DEF Deeds
    <3>2. MakeLink(c)
      <4>1. ~(BeginCreate(c) \/ WriteToml(c) \/ MakeDataset(c) \/ MakeSoftnpuZone(c))
        BY <3>1 DEF BeginCreate, WriteToml, MakeDataset, MakeSoftnpuZone, MakeZone, machine
      <4>2. ~(StartSoftnpu(c) \/ MakeHostZone(c) \/ Fail(c) \/ BeginDestroy(c) \/ End(c) \/ Kill(c))
        BY <3>1 DEF StartSoftnpu, MakeHostZone, MakeZone, Fail, BeginDestroy, End, Kill, machine
      <4>3. ~DeleteNext(c)
        <5>1. ASSUME DeleteNext(c) PROVE FALSE
          <6>1. todo[c] \in Seq(Resource) /\ todo[c] # <<>> /\ Delete(Head(todo[c])) /\ ZoneTypeOK
            BY <5>1 DEF DeleteNext, RunInv, ZoneTypeOK
          <6>2. Head(todo[c]) \in Resource
            BY <6>1
          <6> QED BY <3>1, <6>1, <6>2, DeleteType
        <5> QED BY <5>1
      <4>4. ~DeleteFails(c)
        BY <1>1, Miss
      <4> QED BY <4>1, <4>2, <4>3, <4>4 DEF Run
    <3>3. /\ l \in Ends(args[c], made[c] + 1) /\ WellFormed(args[c], made[c] + 1)
          /\ made[c] < NumLinks(args[c])
      BY <3>1, <3>2 DEF MakeLink
    <3>4. made[c] + 1 \in 1..NumLinks(args[c])
      BY <1>5, <3>3, ArgTypes DEF RunInv, ZoneTypeOK
    <3> QED BY <3>1, <3>3, <3>4 DEF MadeOf
  <2> QED BY <2>1, <2>2

<1>13. ASSUME NEW d \in Commands, d # c PROVE ZoneFirst(d)'
  <2>1. HasZone(d) => zones'["softnpu"] = zones["softnpu"]
    BY <1>2, <1>3, <1>13 DEF Holds, Apart, Deeds
  <2> QED BY <1>1, <1>4, <1>5, <1>13, <2>1 DEF ZoneFirst
<1>14. ZoneFirst(c)'
  <2> SUFFICES ASSUME ~forced PROVE ZoneFirst(c)'
    BY <1>1 DEF ZoneFirst
  <2>1. RunInv' /\ (Begun \cap Destroys = {})' /\ Own(c)'
    <3>1. (Begun \cap Destroys = {})'
      BY DEF Orderly, Creates, Destroys
    <3> QED BY <3>1, StepRuns, StepHold DEF HoldInv
\* A zone in use is of the create's own links.
  <2>2. ASSUME made[c] = NumLinks(args[c]), pc[c] \in Standing, NEW l \in SoftnpuPhys(args[c])
        PROVE  HasLink(c, l) \/ l \in UserLinks(args[c])
    BY <2>2 DEF SoftnpuPhys, HasLink, Ends
  <2>3. ASSUME made'[c] = NumLinks(args[c]), pc'[c] \in Standing, NEW l \in SoftnpuPhys(args[c])
        PROVE  HasLink(c, l)' \/ l \in UserLinks(args[c])
    BY <1>1, <2>3 DEF SoftnpuPhys, HasLink, Ends
  <2>4. CASE pc'[c] # "drop"
    <3>1. ASSUME HasZone(c)', NEW l \in zones'["softnpu"]
          PROVE  HasLink(c, l)' \/ l \in UserLinks(args[c])
      <4>1. pc'[c] \in {"start", "host", "ok"}
        BY <2>4, <3>1 DEF HasZone
      <4>2. l \in SoftnpuPhys(args[c])
        BY <1>1, <2>1, <3>1, <4>1 DEF Own
      <4>3. made'[c] = NumLinks(args[c])
        BY <1>1, <2>1, <4>1 DEF RunInv, ZoneTypeOK
      <4> QED BY <2>3, <4>1, <4>2, <4>3
    <3> QED BY <1>1, <2>4, <3>1 DEF ZoneFirst
  <2>5. CASE Fail(c)
    <3>1. /\ \A l : HasLink(c, l)' <=> HasLink(c, l)
          /\ HasZone(c)' <=> HasZone(c)
      BY <1>2, <2>5, FailHas
    <3>2. /\ pc[c] \in {"ports", "zfs", "softnpu", "start"} /\ zones' = zones
          /\ pc'[c] = "drop" /\ todo'[c] = Drops(c)
      <4>1. pc[c] = "host" => args[c].withHost /\ c \in Begun
        BY DEF RunInv, Begun
      <4> QED BY <1>1, <2>5, <4>1 DEF Fail, Go, Orderly, RunInv, ZoneTypeOK
    <3>3. ASSUME HasZone(c)', NEW l \in zones'["softnpu"]
          PROVE  HasLink(c, l)' \/ l \in UserLinks(args[c])
      <4>1. pc[c] = "start"
        BY <3>1, <3>2, <3>3 DEF HasZone
      <4>2. l \in SoftnpuPhys(args[c]) /\ made[c] = NumLinks(args[c])
        BY <1>2, <3>2, <3>3, <4>1 DEF Own, RunInv, ZoneTypeOK
      <4> QED BY <2>2, <3>1, <4>1, <4>2
    <3>4. \A i \in DOMAIN Drops(c) : Drops(c)[i].kind = "zone" => i = 1
      <4>1. ZoneTypeOK /\ pc[c] \in Stages
        BY <3>2 DEF RunInv
      <4>2. \A i \in DOMAIN Drops(c) :
              \/ \E k \in 1..made[c] : i = Ahead(c) + k /\ Drops(c)[i] = Link(Ends(args[c], k))
              \/ Drops(c)[i] = Zfs
              \/ Drops(c)[i] = Zone("softnpu") /\ i = IF pc[c] = "start" THEN 1 ELSE made[c] + 2
        BY <4>1, DropsContents
      <4>3. \A i \in DOMAIN Drops(c) : Drops(c)[i] = Zone("softnpu") => pc[c] = "start"
        <5>1. \A i \in DOMAIN Drops(c) :
              \/ \E k \in 1..made[c] : Drops(c)[i] = Link(Ends(args[c], k))
              \/ Drops(c)[i] = Zfs
              \/ pc[c] \in {"start", "host"}
          BY <4>1, DropsContents
        <5>2. /\ \A p : Link(p) # Zone("softnpu")
              /\ Zfs # Zone("softnpu")
          BY Resources
        <5> QED BY <3>2, <5>1, <5>2
      <4> QED BY <4>2, <4>3, Resources
    <3> QED BY <1>1, <3>2, <3>3, <3>4 DEF ZoneFirst
  <2>6. CASE DeleteNext(c)
    <3>1. pc[c] = "drop" /\ pc'[c] = "drop"
      BY <1>1, <2>6 DEF DeleteNext, RunInv
    <3>2. \A i \in DOMAIN todo'[c] : /\ i + 1 \in DOMAIN todo[c] /\ i + 1 # 1
                                     /\ todo'[c][i] = todo[c][i + 1]
      BY <1>2, <2>6, <3>1, DropHas
    <3>3. \A i \in DOMAIN todo'[c] : todo'[c][i].kind # "zone"
      BY <1>5, <3>1, <3>2 DEF ZoneFirst
    <3>4. ~HasZone(c)'
      BY <3>1, <3>3 DEF HasZone
    <3> QED BY <3>3, <3>4 DEF ZoneFirst
  <2>7. CASE pc'[c] = "drop" /\ ~Fail(c) /\ ~DeleteNext(c)
    <3>0. pc \in [Commands -> {"idle", "drop", "delete"} \cup Stages \cup Ended]
      BY DEF RunInv, ZoneTypeOK
    <3>1. ~(BeginCreate(c) \/ MakeLink(c) \/ WriteToml(c) \/ MakeDataset(c))
      BY <2>7, <3>0 DEF BeginCreate, MakeLink, WriteToml, MakeDataset, At, Go
    <3>2. ~(MakeSoftnpuZone(c) \/ StartSoftnpu(c) \/ MakeHostZone(c))
      BY <2>7, <3>0 DEF MakeSoftnpuZone, StartSoftnpu, MakeHostZone, MakeZone, At, Go
    <3>3. ~(BeginDestroy(c) \/ End(c) \/ Kill(c))
      BY <2>7, <3>0 DEF BeginDestroy, End, Kill, At, Go
    <3>4. ~DeleteFails(c)
      BY <1>1, Miss
    <3> QED BY <2>7, <3>1, <3>2, <3>3, <3>4 DEF Run
  <2> QED BY <2>4, <2>5, <2>6, <2>7
<1> QED BY <1>1, <1>5, <1>8, <1>9, <1>10, <1>11, <1>12, <1>13, <1>14 DEF CleanInv

\* Before the first run there is nothing.
LEMMA InitClean == ZoneInit => CleanInv
<1> SUFFICES ASSUME ZoneInit PROVE CleanInv
  OBVIOUS
<1>1. \A c \in Commands : pc[c] = "idle"
  BY DEF ZoneInit
<1>2. \A c \in Commands : (\A l : ~HasLink(c, l)) /\ ~HasZone(c)
  BY <1>1 DEF HasLink, HasZone, Standing, Stages
<1>3. links = {} /\ ~dataset /\ DOMAIN zones = {}
  BY DEF ZoneInit
<1> QED BY <1>1, <1>2, <1>3 DEF CleanInv, ZoneFirst

(***************************************************************************)
(* When every create there has been has failed, wherever it failed and     *)
(* whatever ran beside it, nothing is left of any - provided that no link  *)
(* a user brings along has the name of one that npuzone makes.             *)
(***************************************************************************)
THEOREM FailuresAreClean == NamesApart => (ZoneSpec => []CleanFailure)
<1> SUFFICES ASSUME NamesApart PROVE ZoneSpec => []CleanFailure
  OBVIOUS
<1>1. CleanInv /\ UNCHANGED zvars => CleanInv'
  <2> SUFFICES ASSUME CleanInv, UNCHANGED zvars PROVE CleanInv'
    OBVIOUS
  <2>1. /\ args' = args /\ pc' = pc /\ made' = made /\ todo' = todo /\ links' = links
        /\ dataset' = dataset /\ zones' = zones /\ forced' = forced
    BY DEF zvars, machine
  <2>2. Orderly' <=> Orderly
    BY <2>1 DEF Orderly, Begun, Creates
  <2>3. \A c \in Commands : /\ \A l : HasLink(c, l)' <=> HasLink(c, l)
                            /\ HasZfs(c)' <=> HasZfs(c)
                            /\ HasZone(c)' <=> HasZone(c)
    BY <2>1 DEF HasLink, HasZfs, HasZone
  <2>4. \A c \in Commands : ZoneFirst(c) => ZoneFirst(c)'
    BY <2>1, <2>3 DEF ZoneFirst
  <2> QED BY <2>1, <2>2, <2>3, <2>4 DEF CleanInv
<1>2. RunInv /\ HoldInv /\ CleanInv /\ [ZoneNext]_zvars => CleanInv'
  BY <1>1, StepClean
<1>3. RunInv /\ CleanInv => CleanFailure
  <2> SUFFICES ASSUME RunInv, CleanInv,
                      \A c \in Begun : /\ c \in Creates /\ pc[c] = "failed"
                                       /\ forced \/ ~args[c].withHost
               PROVE  Nothing
    BY DEF CleanFailure
  <2>1. Orderly
    BY DEF Orderly
  <2>2. \A c \in Commands : pc[c] \in {"idle", "failed"}
    BY DEF Begun
  <2>3. \A c \in Commands : (\A l : ~HasLink(c, l)) /\ ~HasZfs(c) /\ ~HasZone(c)
    BY <2>2 DEF HasLink, HasZfs, HasZone, Standing, Stages
  <2>4. DOMAIN zones \subseteq {"softnpu", "host"}
    BY DEF RunInv, ZoneTypeOK, ZoneNames
  <2> QED BY <2>1, <2>2, <2>3, <2>4 DEF CleanInv, Nothing
<1> QED BY <1>2, <1>3, InitClean, RunInvariance, PTL DEF ZoneSpec

-----------------------------------------------------------------------------
(* destroy.                                                                *)

\* What a run can add to the machine: a create its links, and its zones.
LEMMA WhatIsMade ==
  ASSUME RunInv, NEW c \in Commands, Run(c)
  PROVE  /\ \A l \in links' : \/ l \in links
                              \/ args[c].verb = "create" /\ l \in LinksOf(args[c])
         /\ "host" \in DOMAIN zones' => \/ "host" \in DOMAIN zones
                                        \/ args[c].verb = "create" /\ args[c].withHost
         /\ ~(args[c].verb = "create" /\ pc[c] \in Stages) =>
              /\ links' \subseteq links
              /\ dataset' => dataset
              /\ DOMAIN zones' \subseteq DOMAIN zones
<1>0. ZoneTypeOK /\ args[c] \in Args
  BY DEF RunInv, ZoneTypeOK
<1> USE DEF At, Stages
<1>1. CASE MakeLink(c)
  <2>1. pc[c] = "ports" /\ args[c].verb = "create" /\ UNCHANGED <<dataset, zones>>
    BY <1>1 DEF MakeLink, RunInv
  <2>2. made[c] + 1 \in 1..NumLinks(args[c]) /\ links' = links \cup Ends(args[c], made[c] + 1)
    BY <1>0, <1>1, ArgTypes DEF MakeLink, ZoneTypeOK
  <2> QED BY <2>1, <2>2 DEF LinksOf
<1>2. CASE MakeDataset(c)
  <2>1. pc[c] = "zfs" /\ args[c].verb = "create" /\ UNCHANGED <<links, zones>>
    BY <1>2 DEF MakeDataset, RunInv
  <2> QED BY <2>1
<1>3. CASE MakeSoftnpuZone(c)
  <2>1. /\ pc[c] = "softnpu" /\ args[c].verb = "create" /\ links' = links
        /\ DOMAIN zones' = DOMAIN zones \cup {"softnpu"}
    BY <1>3 DEF MakeSoftnpuZone, MakeZone, RunInv
  <2> QED BY <2>1
<1>4. CASE MakeHostZone(c)
  <2>1. /\ pc[c] = "host" /\ args[c].verb = "create" /\ args[c].withHost /\ links' = links
    BY <1>4 DEF MakeHostZone, MakeZone, RunInv
  <2> QED BY <2>1
<1>5. CASE DeleteNext(c)
  <2>1. todo[c] \in Seq(Resource) /\ todo[c] # <<>> /\ Delete(Head(todo[c]))
    BY <1>0, <1>5 DEF DeleteNext, ZoneTypeOK
  <2>2. Head(todo[c]) \in Resource
    BY <2>1
  <2> QED BY <1>0, <2>1, <2>2, DeleteType
<1>6. CASE BeginCreate(c) \/ WriteToml(c) \/ StartSoftnpu(c) \/ Fail(c)
  BY <1>6 DEF BeginCreate, WriteToml, StartSoftnpu, Fail, machine
<1>7. CASE BeginDestroy(c) \/ End(c) \/ Kill(c)
  BY <1>7 DEF BeginDestroy, End, Kill, machine
<1>8. CASE DeleteFails(c)
  BY <1>8, Miss
<1> QED BY <1>1, <1>2, <1>3, <1>4, <1>5, <1>6, <1>7, <1>8 DEF Run

\* What is there has been made for some create.
LEMMA StepMade ==
  ASSUME RunInv, MadeInv, ZoneNext
  PROVE  MadeInv'
<1> PICK c \in Commands : Run(c)
  BY DEF ZoneNext
<1>1. /\ args' = args /\ Begun \subseteq Begun' /\ c \in Begun' /\ Creates' = Creates
      /\ \A d \in Commands \ {c} : pc'[d] = pc[d] /\ earlier'[d] = earlier[d]
      /\ pc[c] \notin Ended
  BY Bystanders, BegunBefore, RunsOn
<1>2. args[c].verb = "create" => c \in Creates
  BY DEF Creates
<1>3. \A l \in links' : \E d \in Creates' \cap Begun' : l \in LinksOf(args'[d])
  BY <1>1, <1>2, WhatIsMade DEF MadeInv
<1>4. "host" \in DOMAIN zones' => \E d \in Creates' \cap Begun' : args'[d].withHost
  BY <1>1, <1>2, WhatIsMade DEF MadeInv
<1>5. \A d \in Commands : earlier'[d] \subseteq {e \in Commands : pc[e] \in Ended}
  <2> USE DEF history
  <2>1. earlier'[c] = earlier[c] \/ earlier'[c] = {e \in Commands : pc[e] \in Ended}
    <3>1. CASE BeginDestroy(c)
      BY <3>1 DEF BeginDestroy, RunInv, ZoneTypeOK
    <3>2. CASE BeginCreate(c) \/ MakeLink(c) \/ WriteToml(c) \/ MakeDataset(c)
      BY <3>2 DEF BeginCreate, MakeLink, WriteToml, MakeDataset
    <3>3. CASE MakeSoftnpuZone(c) \/ StartSoftnpu(c) \/ MakeHostZone(c)
      BY <3>3 DEF MakeSoftnpuZone, StartSoftnpu, MakeHostZone, MakeZone
    <3>4. CASE Fail(c) \/ DeleteNext(c) \/ End(c) \/ Kill(c)
      BY <3>4 DEF Fail, DeleteNext, End, Kill
    <3>5. CASE DeleteFails(c)
      BY <3>5, Miss
    <3> QED BY <3>1, <3>2, <3>3, <3>4, <3>5 DEF Run
  <2>2. \A d \in Commands : earlier[d] \subseteq {e \in Commands : pc[e] \in Ended}
    BY DEF MadeInv, RunInv, ZoneTypeOK
  <2> QED BY <1>1, <2>1, <2>2
<1>6. \A d \in Commands : \A e \in earlier'[d] : pc'[e] \in Ended
  BY <1>1, <1>5
<1> QED BY <1>3, <1>4, <1>6 DEF MadeInv

\* A destroy that gets to everything has it all before it when it begins.
LEMMA PlanIsAll ==
  ASSUME RunInv, MadeInv, NEW d \in Commands, BeginDestroy(d), LastWord(d)'
  PROVE  Remaining(d)'
<1> DEFINE a == args[d]
           n == Cardinality(Reached(a))
           h == IF a.withHost THEN 3 ELSE 2
           P == Plan(a)
<1>1. /\ todo'[d] = P /\ args' = args /\ UNCHANGED <<links, dataset, zones>>
      /\ a \in Args /\ a.verb = "destroy"
      /\ d \notin Creates /\ Creates' \cap Begun' = Creates \cap Begun
  <2>1. /\ args' = args /\ a \in Args /\ a.verb = "destroy" /\ todo'[d] = P
        /\ UNCHANGED <<links, dataset, zones>>
        /\ pc' = [pc EXCEPT ![d] = "delete"] /\ pc \in [Commands -> {"idle", "drop", "delete"} \cup Stages \cup Ended]
    BY DEF BeginDestroy, RunInv, ZoneTypeOK, machine, Go
  <2>2. d \notin Creates /\ Creates' = Creates
    BY <2>1 DEF Creates
  <2>3. Creates \cap Begun' = Creates \cap Begun
    BY <2>1, <2>2 DEF Begun, Creates
  <2> QED BY <2>1, <2>2, <2>3
<1>2. /\ FullPlan(a)
      /\ \A c \in Creates \cap Begun : Covers(a, args[c])
  BY <1>1 DEF LastWord
<1>3. /\ n \in 0..NumLinks(a) /\ n = NumLinks(a) /\ h \in {2, 3}
      /\ P \in Seq(Resource) /\ Len(P) = h + n
      /\ P[1] = Zfs /\ P[2] = Zone("softnpu")
      /\ a.withHost => P[3] = Zone("host")
      /\ \A k \in 1..n : P[h + k] = Link(Ends(a, k))
  BY <1>1, <1>2, PlanShape DEF FullPlan
<1>4. a.withHost => h = 3
  OBVIOUS
<1>5. h = 3 => a.withHost
  OBVIOUS
<1> HIDE DEF n, h, P
<1>6. DOMAIN P = 1..(h + n) /\ n \in Nat
  BY <1>3
<1>7. 1 \in DOMAIN P /\ 2 \in DOMAIN P /\ (a.withHost => 3 \in DOMAIN P)
  BY <1>3, <1>4, <1>6
<1>8. ASSUME NEW z \in DOMAIN zones PROVE \E i \in DOMAIN P : P[i] = Zone(z)
  <2>1. z = "softnpu" \/ z = "host"
    BY DEF RunInv, ZoneTypeOK, ZoneNames
  <2>2. z = "host" => a.withHost
    BY <1>2 DEF MadeInv, Covers
  <2> QED BY <1>3, <1>7, <2>1, <2>2
<1>9. ASSUME NEW l \in links
      PROVE  \E i \in DOMAIN P : P[i].kind = "link" /\ l \in P[i].ends
  <2>1. l \in LinksOf(a)
    BY <1>2 DEF MadeInv, Covers
  <2>2. PICK k \in 1..n : l \in Ends(a, k)
    BY <1>3, <2>1 DEF LinksOf
  <2>3. h + k \in DOMAIN P
    BY <1>3, <1>6
  <2> QED BY <1>3, <2>2, <2>3, Resources
<1>10. \A i \in 1..h : P[i].kind # "link"
  <2>1. \A i \in 1..h : i = 1 \/ i = 2 \/ (i = 3 /\ h = 3)
    BY <1>3
  <2> QED BY <1>3, <1>5, <2>1, Resources
<1>11. \A j \in DOMAIN P : j > h => P[j].kind = "link"
  <2>1. ASSUME NEW j \in DOMAIN P, j > h PROVE P[j].kind = "link"
    <3>1. j - h \in 1..n /\ h + (j - h) = j
      BY <1>3, <1>6, <2>1
    <3> QED BY <1>3, <3>1, Resources
  <2> QED BY <2>1
<1>12. ASSUME NEW i \in DOMAIN P, NEW j \in DOMAIN P, i <= j, P[i].kind = "link"
       PROVE  P[j].kind = "link"
  <2>1. i > h
    BY <1>3, <1>6, <1>10, <1>12
  <2>2. j > h
    BY <1>3, <1>6, <1>12, <2>1
  <2> QED BY <1>11, <2>2
<1>13. \E i \in DOMAIN P : P[i].kind = "zfs"
  BY <1>3, <1>7, Resources
<1> QED BY <1>1, <1>8, <1>9, <1>12, <1>13 DEF Remaining

\* What a destroy deletes is gone: it comes to the links when no zone is left
\* that it has not failed to delete.
LEMMA GoesOn ==
  ASSUME RunInv, NEW d \in Commands, pc[d] = "delete", DeleteNext(d), Remaining(d),
         forced' = forced
  PROVE  Remaining(d)'
<1> DEFINE s == todo[d]
           t == Tail(todo[d])
           r == todo[d][1]
           M == missed[d]
           Stuck == ~forced /\ \E z \in ZoneNames : Zone(z) \in M
<1>1. /\ s \in Seq(Resource) /\ s # <<>> /\ Delete(Head(s)) /\ todo'[d] = t
      /\ dataset \in BOOLEAN /\ missed'[d] = M
      /\ forced' = forced /\ forced \in BOOLEAN
  BY DEF RunInv, ZoneTypeOK, DeleteNext, history
<1>2. /\ Head(s) = r /\ 1 \in DOMAIN s /\ t \in Seq(Resource)
      /\ \A i \in DOMAIN t : /\ i + 1 \in DOMAIN s /\ i \in Nat /\ i >= 1
                             /\ t[i] = s[i + 1]
      /\ \A i \in DOMAIN s : i # 1 => i - 1 \in DOMAIN t /\ t[i - 1] = s[i]
  BY <1>1, Rest
<1>3. r \in Resource /\ Delete(r) /\ DOMAIN s \subseteq Nat /\ \A i \in DOMAIN s : 1 <= i
  BY <1>1, <1>2
<1> HIDE DEF s, t, r, M, Stuck
<1>r. r = s[1]
  BY DEF s, r
<1>4. /\ dataset => (\E i \in DOMAIN s : s[i].kind = "zfs") \/ Zfs \in M
      /\ \A z \in DOMAIN zones : (\E i \in DOMAIN s : s[i] = Zone(z)) \/ Zone(z) \in M
      /\ \A l \in links : \/ \E i \in DOMAIN s : s[i].kind = "link" /\ l \in s[i].ends
                          \/ \E m \in M : m.kind = "link" /\ l \in m.ends
                          \/ Stuck
      /\ \A i, j \in DOMAIN s : (i <= j /\ s[i].kind = "link") => s[j].kind = "link"
  BY DEF Remaining, s, M, Stuck
<1>5. /\ links' \subseteq links /\ (dataset' => dataset) /\ DOMAIN zones' \subseteq DOMAIN zones
      /\ \A z \in DOMAIN zones' : zones'[z] = zones[z]
  BY <1>3, DeleteType DEF RunInv
<1>6. dataset' => (\E i \in DOMAIN t : t[i].kind = "zfs") \/ Zfs \in M
  <2> SUFFICES ASSUME dataset', Zfs \notin M PROVE \E i \in DOMAIN t : t[i].kind = "zfs"
    OBVIOUS
  <2>1. r.kind # "zfs"
    BY <1>3 DEF Delete
  <2>2. PICK i \in DOMAIN s : s[i].kind = "zfs"
    BY <1>4, <1>5
  <2> QED BY <1>2, <1>r, <2>1, <2>2
<1>7. ASSUME NEW z \in DOMAIN zones', Zone(z) \notin M PROVE \E i \in DOMAIN t : t[i] = Zone(z)
  <2>1. r # Zone(z)
    <3>1. ASSUME r = Zone(z) PROVE FALSE
      <4>1. r.kind = "zone" /\ r.name = z
        BY <3>1, Resources
      <4>2. DOMAIN zones' = DOMAIN zones \ {z}
        BY <1>3, <4>1 DEF Delete
      <4> QED BY <1>7, <4>2
    <3> QED BY <3>1
  <2>2. PICK i \in DOMAIN s : s[i] = Zone(z)
    BY <1>4, <1>5, <1>7
  <2> QED BY <1>2, <1>r, <2>1, <2>2
<1>8. ASSUME NEW l \in links', ~(\E m \in M : m.kind = "link" /\ l \in m.ends), ~Stuck
      PROVE  \E i \in DOMAIN t : t[i].kind = "link" /\ l \in t[i].ends
  <2>1. ~(r.kind = "link" /\ l \in r.ends)
    <3>1. ASSUME r.kind = "link", l \in r.ends PROVE FALSE
      <4>1. \A i \in DOMAIN s : s[i].kind = "link"
        BY <1>2, <1>3, <1>4, <1>r, <3>1
      <4>2. \A z \in DOMAIN zones : z \in ZoneNames /\ Zone(z) \in M
        BY <1>4, <4>1, Resources DEF RunInv, ZoneTypeOK
      <4>3. Undeletable = {}
        BY <1>8, <4>2 DEF Undeletable, InZones, Stuck
      <4>4. links' = links \ r.ends
        BY <1>3, <3>1, <4>3 DEF Delete
      <4> QED BY <1>8, <3>1, <4>4
    <3> QED BY <3>1
  <2>2. PICK i \in DOMAIN s : s[i].kind = "link" /\ l \in s[i].ends
    BY <1>4, <1>5, <1>8
  <2> QED BY <1>2, <1>r, <2>1, <2>2
<1>9. ASSUME NEW i \in DOMAIN t, NEW j \in DOMAIN t, i <= j, t[i].kind = "link"
      PROVE  t[j].kind = "link"
  <2>1. i + 1 <= j + 1
    BY <1>2, <1>9
  <2> QED BY <1>2, <1>4, <1>9, <2>1
<1>10. \A l \in links' : \/ \E i \in DOMAIN t : t[i].kind = "link" /\ l \in t[i].ends
                         \/ \E m \in M : m.kind = "link" /\ l \in m.ends
                         \/ ~forced' /\ \E z \in ZoneNames : Zone(z) \in M
  BY <1>1, <1>8 DEF Stuck
<1> QED BY <1>1, <1>6, <1>7, <1>9, <1>10 DEF Remaining

\* What it fails to delete is no longer before it, but missed.
LEMMA MissGoesOn ==
  ASSUME RunInv, NEW d \in Commands, DeleteFails(d), Remaining(d), forced' = forced
  PROVE  Remaining(d)'
<1> DEFINE s == todo[d]
           t == Tail(todo[d])
           r == todo[d][1]
           M == missed[d] \cup {r}
<1>1. /\ s \in Seq(Resource) /\ s # <<>> /\ todo'[d] = t /\ missed'[d] = M
      /\ links' \subseteq links /\ DOMAIN zones' = DOMAIN zones /\ dataset' = dataset
  BY Miss
<1>2. /\ \A i \in DOMAIN t : /\ i + 1 \in DOMAIN s /\ i \in Nat /\ i >= 1
                             /\ t[i] = s[i + 1]
      /\ \A i \in DOMAIN s : i # 1 => i - 1 \in DOMAIN t /\ t[i - 1] = s[i]
  BY <1>1, Rest
<1>3. \A i \in DOMAIN s : s[i] \in M \/ (i - 1 \in DOMAIN t /\ t[i - 1] = s[i])
  BY <1>2
<1>4. r \in Resource /\ (r.kind = "zfs" => r = Zfs)
  BY <1>1, Miss DEF Resource, Zfs
<1> HIDE DEF s, t, r
<1>r. r = s[1]
  BY DEF s, r
<1>5. /\ dataset => (\E i \in DOMAIN s : s[i].kind = "zfs") \/ Zfs \in M
      /\ \A z \in DOMAIN zones : (\E i \in DOMAIN s : s[i] = Zone(z)) \/ Zone(z) \in M
      /\ \A l \in links : \/ \E i \in DOMAIN s : s[i].kind = "link" /\ l \in s[i].ends
                          \/ \E m \in M : m.kind = "link" /\ l \in m.ends
                          \/ ~forced /\ \E z \in ZoneNames : Zone(z) \in M
      /\ \A i, j \in DOMAIN s : (i <= j /\ s[i].kind = "link") => s[j].kind = "link"
  BY DEF Remaining, s
<1>6. dataset => (\E i \in DOMAIN t : t[i].kind = "zfs") \/ Zfs \in M
  BY <1>2, <1>4, <1>5, <1>r
<1> HIDE DEF M
<1>7. \A z \in DOMAIN zones : (\E i \in DOMAIN t : t[i] = Zone(z)) \/ Zone(z) \in M
  BY <1>3, <1>5
<1>8. ASSUME NEW l \in links, ~(\E m \in M : m.kind = "link" /\ l \in m.ends),
             ~(~forced /\ \E z \in ZoneNames : Zone(z) \in M)
      PROVE  \E i \in DOMAIN t : t[i].kind = "link" /\ l \in t[i].ends
  <2>1. PICK i \in DOMAIN s : s[i].kind = "link" /\ l \in s[i].ends
    BY <1>5, <1>8
  <2> QED BY <1>3, <1>8, <2>1
<1>9. ASSUME NEW i \in DOMAIN t, NEW j \in DOMAIN t, i <= j, t[i].kind = "link"
      PROVE  t[j].kind = "link"
  <2>1. i + 1 <= j + 1
    BY <1>2, <1>9
  <2> QED BY <1>2, <1>5, <1>9, <2>1
<1> QED BY <1>1, <1>6, <1>7, <1>8, <1>9 DEF Remaining

\* The last destroy has what is left before it, or has missed it.
LEMMA StepLast ==
  ASSUME RunInv, MadeInv, LastInv, ZoneNext
  PROVE  LastInv'
<1> SUFFICES ASSUME NEW d \in Commands, LastWord(d)' PROVE Remaining(d)'
  BY DEF LastInv
<1> PICK c \in Commands : Run(c)
  BY DEF ZoneNext
<1>1. /\ args' = args /\ Begun \subseteq Begun' /\ c \in Begun'
      /\ Creates' = Creates /\ Destroys' = Destroys
      /\ \A e \in Commands \ {c} : /\ pc'[e] = pc[e] /\ earlier'[e] = earlier[e]
                                   /\ todo'[e] = todo[e] /\ missed'[e] = missed[e]
      /\ forced' = forced
      /\ pc[c] \notin Ended
      /\ ZoneTypeOK
      /\ pc \in [Commands -> {"idle", "drop", "delete"} \cup Stages \cup Ended]
  BY Bystanders, BegunBefore, RunsOn DEF RunInv, ZoneTypeOK, ZoneNext
<1>2. /\ d \in Destroys /\ args[d].verb = "destroy" /\ pc'[d] \in {"delete", "ok"}
      /\ \A e \in Creates \cap Begun' : e \in earlier'[d]
  BY <1>1 DEF LastWord, Destroys
<1>3. CASE BeginDestroy(d)
  BY <1>3, PlanIsAll
<1>4. CASE ~BeginDestroy(d)
  <2>1. earlier'[d] = earlier[d] /\ pc[d] \in {"delete", "ok"}
    <3>1. CASE d # c
      BY <1>1, <1>2, <3>1
    <3>2. CASE d = c
      <4>1. ~(MakeLink(c) \/ WriteToml(c) \/ MakeDataset(c) \/ BeginCreate(c))
        BY <1>2, <3>2 DEF MakeLink, WriteToml, MakeDataset, BeginCreate, RunInv, At, Stages
      <4>2. ~(MakeSoftnpuZone(c) \/ StartSoftnpu(c) \/ MakeHostZone(c) \/ Fail(c))
        BY <1>2, <3>2
        DEF MakeSoftnpuZone, StartSoftnpu, MakeHostZone, MakeZone, Fail, RunInv, At, Stages
      <4>3. ~Kill(c)
        BY <1>1, <1>2, <3>2 DEF Kill, Go
      <4>4. DeleteNext(c) \/ DeleteFails(c) \/ End(c)
        BY <1>4, <3>2, <4>1, <4>2, <4>3 DEF Run
      <4> QED BY <1>2, <3>2, <4>4, Miss DEF DeleteNext, End, RunInv, history
    <3> QED BY <3>1, <3>2
  <2>2. LastWord(d)
    BY <1>1, <1>2, <2>1 DEF LastWord
  <2>3. Remaining(d)
    BY <2>2 DEF LastInv
\* No create is under way, for all of them had ended before d began.
  <2>4. c \notin Creates
    <3>1. ASSUME c \in Creates PROVE FALSE
      <4>1. c \in earlier[d]
        BY <1>1, <1>2, <2>1, <3>1
      <4> QED BY <1>1, <4>1 DEF MadeInv
    <3> QED BY <3>1
  <2>5. links' \subseteq links /\ (dataset' => dataset) /\ DOMAIN zones' \subseteq DOMAIN zones
    BY <2>4, WhatIsMade DEF Creates
  <2>6. CASE d # c
    BY <1>1, <2>3, <2>5, <2>6 DEF Remaining
  <2>7. CASE d = c /\ DeleteNext(c)
    <3>1. pc[d] = "delete"
      BY <1>2, <2>7 DEF DeleteNext, RunInv
    <3> QED BY <1>1, <2>3, <2>7, <3>1, GoesOn
  <2>8. CASE d = c /\ DeleteFails(c)
    BY <1>1, <2>3, <2>8, MissGoesOn
  <2>9. CASE d = c /\ ~DeleteNext(c) /\ ~DeleteFails(c)
    <3>1. todo'[d] = todo[d] /\ missed'[d] = missed[d]
      <4> USE DEF history
      <4>1. pc[d] # "idle" /\ pc[d] \notin Stages /\ pc'[d] # "killed"
        BY <1>2, <2>1 DEF Stages
      <4>2. ~Kill(c) /\ ~Fail(c)
        BY <1>1, <2>9, <4>1 DEF Kill, Go, Fail
      <4>3. CASE BeginCreate(c) \/ MakeLink(c) \/ WriteToml(c) \/ MakeDataset(c)
        BY <2>9, <4>3 DEF BeginCreate, MakeLink, WriteToml, MakeDataset
      <4>4. CASE MakeSoftnpuZone(c) \/ StartSoftnpu(c) \/ MakeHostZone(c) \/ End(c)
        BY <2>9, <4>4 DEF MakeSoftnpuZone, StartSoftnpu, MakeHostZone, MakeZone, End
      <4> QED BY <1>4, <2>9, <4>2, <4>3, <4>4 DEF Run
    <3> QED BY <1>1, <2>3, <2>5, <3>1 DEF Remaining
  <2> QED BY <2>6, <2>7, <2>9, <2>8
<1> QED BY <1>3, <1>4

(***************************************************************************)
(* A destroy that ends well, whatever others did beside it, leaves nothing *)
(* of any create before it, if its command line names as much as theirs,   *)
(* but what it failed to delete, and the links of zones among that.        *)
(***************************************************************************)
THEOREM DestroyedZonesAreGone == ZoneSpec => []DestroyLeavesNothing
<1> DEFINE J == MadeInv /\ LastInv
<1>1. ZoneInit => J
  <2> SUFFICES ASSUME ZoneInit PROVE J
    OBVIOUS
  <2>1. \A d \in Commands : pc[d] = "idle" /\ earlier[d] = {}
    BY DEF ZoneInit
  <2>2. links = {} /\ DOMAIN zones = {}
    BY DEF ZoneInit
  <2> QED BY <2>1, <2>2 DEF MadeInv, LastInv, LastWord, Destroys
<1>2. J /\ UNCHANGED zvars => J'
  <2> SUFFICES ASSUME J, UNCHANGED zvars PROVE J'
    OBVIOUS
  <2>1. /\ args' = args /\ pc' = pc /\ todo' = todo /\ links' = links
        /\ dataset' = dataset /\ zones' = zones /\ forced' = forced
        /\ earlier' = earlier /\ missed' = missed
    BY DEF zvars, machine, history
  <2>2. Creates' = Creates /\ Destroys' = Destroys /\ Begun' = Begun
    BY <2>1 DEF Creates, Destroys, Begun
  <2>3. MadeInv'
    BY <2>1, <2>2 DEF MadeInv
  <2>4. \A d \in Commands : (LastWord(d)' => LastWord(d)) /\ (Remaining(d) => Remaining(d)')
    BY <2>1, <2>2 DEF LastWord, Remaining
  <2> QED BY <2>3, <2>4 DEF LastInv
<1>3. RunInv /\ J /\ [ZoneNext]_zvars => J'
  BY <1>2, StepMade, StepLast
<1>4. RunInv /\ J => DestroyLeavesNothing
  <2> SUFFICES ASSUME RunInv, J, NEW d \in Destroys, pc[d] = "ok",
                      \A c \in Creates \cap Begun :
                        c \in earlier[d] /\ Covers(args[d], args[c])
               PROVE  OnlyMissedIsLeft(d)
    BY DEF DestroyLeavesNothing
  <2>1. d \in Commands /\ todo[d] = <<>> /\ FullPlan(args[d])
    BY DEF RunInv, Destroys
  <2>2. Remaining(d)
    BY <2>1 DEF LastInv, LastWord
  <2>3. DOMAIN todo[d] = {}
    BY <2>1
  <2> QED BY <2>2, <2>3 DEF Remaining, OnlyMissedIsLeft
<1> QED BY <1>1, <1>3, <1>4, RunInvariance, PTL DEF ZoneSpec

=============================================================================
