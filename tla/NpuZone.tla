------------------------------ MODULE NpuZone ------------------------------
(***************************************************************************)
(* npuzone (client/src/bin/npuzone.rs): runs of its two commands on one    *)
(* zone name, one after the other or at once, on one machine.              *)
(*                                                                         *)
(* create makes links, the configuration file, a dataset and one zone or   *)
(* two, in this order.  What it has made it holds as values whose drop     *)
(* undoes it: a step that fails unwinds them, and at the end exit(0)       *)
(* leaves them all.  destroy deletes by name; any deletion may fail, which *)
(* it prints at most, and goes on to the next.                             *)
(*                                                                         *)
(* External, and modelled from how they are used: SimnetLink, Zfs and Zone *)
(* of ztest and the zone and link administration.  Making something fails  *)
(* if it exists, and may fail otherwise.  A link in a zone is not deleted, *)
(* on a system that does not let such links be deleted by force; a dataset *)
(* is destroyed by force, with zones running on it.  The destructors that  *)
(* a failed create runs are taken to delete whatever else they are to.     *)
(***************************************************************************)
EXTENDS Integers, Sequences, FiniteSets

CONSTANTS
  Commands,  \* the runs of npuzone
  Args,      \* the command lines they may have
  MaxMissed  \* bound: resources that some destroy fails to delete

\* An entry of --ports: the links named, or a text without a comma.
Entry    == [sys: STRING, host: STRING]
BadEntry == [sys |-> "", host |-> ""]

ASSUME NpuZoneAssumption ==
  /\ MaxMissed \in Nat
  /\ Args \subseteq [verb: {"create", "destroy"}, count: Nat,
                     list: Seq(Entry), withHost: BOOLEAN]

VARIABLES
  args,     \* the command line of a run
  pc,       \* where a run is
  made,     \* how many links a create has made: resources.ports
  todo,     \* what a run has yet to drop or delete
  links,    \* the simnet links of the machine
  dataset,  \* whether rpool/<name> exists
  zones,    \* the zones there are, with the links in each
  forced,   \* whether a link that a zone uses can be deleted
  toml,     \* the ports in softnpu.toml, as pairs of links
  earlier,  \* history: the runs that had ended when this destroy began
  missed    \* history: what this destroy failed to delete

machine == <<links, dataset, zones, toml>>
history == <<earlier, missed>>
zvars   == <<args, pc, made, todo, machine, forced, history>>

ZoneNames == {"softnpu", "host"}
Stages    == {"ports", "zfs", "softnpu", "start", "host"}
Ended     == {"ok", "failed", "killed"}

-----------------------------------------------------------------------------
(* The links of a command line.                                            *)

\* Exactly one of --port-count and --ports.
ValidSpec(a) == (a.count # 0) # (a.list # <<>>)

\* The ends a and b of the k-th simnet link: shx-shi and spx-spi in turn, or
\* the host's link and shi.
LinkPair(a, k) ==
  IF a.count # 0
  THEN LET i == (k - 1) \div 2 IN
         IF k % 2 = 1 THEN [a |-> <<"shx", i>>, b |-> <<"shi", i>>]
                      ELSE [a |-> <<"spx", i>>, b |-> <<"spi", i>>]
  ELSE [a |-> <<a.list[k].host, 0>>, b |-> <<"shi", k - 1>>]

NumLinks(a)  == IF a.count # 0 THEN 2 * a.count ELSE Len(a.list)
Ends(a, k)   == {LinkPair(a, k).a, LinkPair(a, k).b}
LinksOf(a)   == UNION {Ends(a, k) : k \in 1..NumLinks(a)}
WellFormed(a, k) == a.count = 0 => a.list[k] # BadEntry

\* resources.user_supplied_ports.
UserLinks(a) ==
  IF a.count # 0 THEN {} ELSE {<<a.list[k].sys, 0>> : k \in DOMAIN a.list}

\* cfg.ports: the sidecar and the scrimlet link of each.
PortsOf(a) ==
  IF a.count # 0
  THEN {[sidecar  |-> <<"spi", i>>,
         scrimlet |-> <<"shi", i>>] : i \in 0..(a.count - 1)}
  ELSE {[sidecar  |-> <<a.list[k].sys, 0>>,
         scrimlet |-> <<"shi", k - 1>>] : k \in DOMAIN a.list}

\* What goes into the softnpu zone: end_b of every link, and the user's.
SoftnpuPhys(a) == {LinkPair(a, k).b : k \in 1..NumLinks(a)} \cup UserLinks(a)

\* What goes into the host zone: end_a of the first half of the links.
HostPhys(a) == {LinkPair(a, k).a : k \in 1..(NumLinks(a) \div 2)}

-----------------------------------------------------------------------------
(* Deleting.                                                               *)

Link(p)    == [kind |-> "link", ends |-> p]
Zone(z)    == [kind |-> "zone", name |-> z]
Zfs        == [kind |-> "zfs"]

InZones    == UNION {zones[z] : z \in DOMAIN zones}
Undeletable == IF forced THEN {} ELSE InZones

\* One resource goes, as far as it can be deleted.
Delete(r) ==
  CASE r.kind = "link" ->
         /\ links' = links \ (r.ends \ Undeletable)
         /\ UNCHANGED <<dataset, zones, toml>>
    [] r.kind = "zone" ->
         /\ zones' = [z \in DOMAIN zones \ {r.name} |-> zones[z]]
         /\ UNCHANGED <<links, dataset, toml>>
    [] r.kind = "zfs" ->
         /\ dataset' = FALSE
         /\ UNCHANGED <<links, zones, toml>>

HeldLinks(c) == [k \in 1..made[c] |-> Link(Ends(args[c], k))]

\* Slip: a zone is kept in resources from the moment it exists.
DropsZoneLast(c) ==
  (IF pc[c] \in {"softnpu", "start", "host"} THEN <<Zfs>> ELSE <<>>)
  \o HeldLinks(c)
  \o (IF pc[c] \in {"start", "host"} THEN <<Zone("softnpu")>> ELSE <<>>)

\* Slip: a link is kept in resources before it has been made.
DropsAttempted(c) ==
  IF pc[c] = "ports" /\ made[c] < NumLinks(args[c])
  THEN [k \in 1..(made[c] + 1) |-> Link(Ends(args[c], k))]
  ELSE DropsZoneLast(c)

(***************************************************************************)
(* What the return of an error drops, in order: the locals z and zfs, the  *)
(* inner function's first, then the fields of resources, ports before      *)
(* zones.  The softnpu zone is a local until it has been started.          *)
(***************************************************************************)
Drops(c) ==
  (IF pc[c] = "start" THEN <<Zone("softnpu")>> ELSE <<>>)
  \o (IF pc[c] \in {"softnpu", "start", "host"} THEN <<Zfs>> ELSE <<>>)
  \o HeldLinks(c)
  \o (IF pc[c] = "host" THEN <<Zone("softnpu")>> ELSE <<>>)

\* Slip: the links are deleted before the zones that use them.
PlanLinksFirst(a) ==
  [k \in 1..NumLinks(a) |-> Link(Ends(a, k))]
  \o <<Zfs, Zone("softnpu")>>
  \o (IF a.withHost THEN <<Zone("host")>> ELSE <<>>)

\* How many links destroy gets to: it checks its port arguments only after
\* it has destroyed the zones, and stops at the first text without a comma.
Reached(a) ==
  {k \in 1..NumLinks(a) : ValidSpec(a) /\ \A j \in 1..k : WellFormed(a, j)}

\* What destroy deletes, in order.
Plan(a) ==
  <<Zfs, Zone("softnpu")>>
  \o (IF a.withHost THEN <<Zone("host")>> ELSE <<>>)
  \o [k \in 1..Cardinality(Reached(a)) |-> Link(Ends(a, k))]

-----------------------------------------------------------------------------
(* create.                                                                 *)

At(c, stage) == pc[c] = stage
Go(c, stage) == pc' = [pc EXCEPT ![c] = stage]

\* The artifacts have been fetched and the port arguments are valid; if not,
\* the run ends before it has made anything.
BeginCreate(c) ==
  /\ At(c, "idle")
  /\ args[c].verb = "create"
  /\ ValidSpec(args[c])
  /\ Go(c, "ports")
  /\ UNCHANGED <<args, made, todo, machine, history>>

\* SimnetLink::new for the next link, which resources then holds.
MakeLink(c) ==
  /\ At(c, "ports")
  /\ made[c] < NumLinks(args[c])
  /\ LET k == made[c] + 1 IN
       /\ WellFormed(args[c], k)
       /\ Ends(args[c], k) \cap links = {}
       /\ links' = links \cup Ends(args[c], k)
       /\ made'  = [made EXCEPT ![c] = k]
  /\ UNCHANGED <<args, pc, todo, dataset, zones, toml, history>>

\* Slip: the loop over --ports breaks off at a text without a comma.
WriteTomlEarly(c) ==
  /\ At(c, "ports")
  /\ toml' = PortsOf(args[c])
  /\ Go(c, "zfs")
  /\ UNCHANGED <<args, made, todo, links, dataset, zones, history>>

\* softnpu.toml is written once every link is there.
WriteToml(c) ==
  /\ At(c, "ports")
  /\ made[c] = NumLinks(args[c])
  /\ toml' = PortsOf(args[c])
  /\ Go(c, "zfs")
  /\ UNCHANGED <<args, made, todo, links, dataset, zones, history>>

MakeDataset(c) ==
  /\ At(c, "zfs")
  /\ ~dataset
  /\ dataset' = TRUE
  /\ Go(c, "softnpu")
  /\ UNCHANGED <<args, made, todo, links, zones, toml, history>>

\* Zone::new: the links have to exist, and belong to no other zone.
MakeZone(c, z, phys, next) ==
  /\ At(c, z)
  /\ z \notin DOMAIN zones
  /\ phys \cap InZones = {}
  /\ phys \ UserLinks(args[c]) \subseteq links
  /\ zones' = [y \in DOMAIN zones \cup {z} |-> IF y = z THEN phys ELSE zones[y]]
  /\ Go(c, next)
  /\ UNCHANGED <<args, made, todo, links, dataset, toml, history>>

MakeSoftnpuZone(c) == MakeZone(c, "softnpu", SoftnpuPhys(args[c]), "start")

\* The script is copied in, the network is up and npu start has been run.
StartSoftnpu(c) ==
  /\ At(c, "start")
  /\ Go(c, IF args[c].withHost THEN "host" ELSE "ok")
  /\ UNCHANGED <<args, made, todo, machine, history>>

MakeHostZone(c) == MakeZone(c, "host", HostPhys(args[c]), "ok")

\* A step fails, by itself or because what it makes exists.  Where that is
\* softnpu.toml, the file may have been truncated.
Fail(c) ==
  /\ pc[c] \in Stages
  /\ todo' = [todo EXCEPT ![c] = Drops(c)]
  /\ made' = [made EXCEPT ![c] = 0]
  /\ Go(c, "drop")
  /\ \/ UNCHANGED toml
     \/ /\ At(c, "ports") /\ made[c] = NumLinks(args[c])
        /\ toml' = {}
  /\ UNCHANGED <<args, links, dataset, zones, history>>

-----------------------------------------------------------------------------
(* destroy.                                                                *)

BeginDestroy(c) ==
  /\ At(c, "idle")
  /\ args[c].verb = "destroy"
  /\ todo' = [todo EXCEPT ![c] = Plan(args[c])]
  /\ Go(c, "delete")
  /\ earlier' = [earlier EXCEPT ![c] = {d \in Commands : pc[d] \in Ended}]
  /\ UNCHANGED <<args, made, machine, missed>>

-----------------------------------------------------------------------------
\* The next resource is dropped or deleted.
DeleteNext(c) ==
  /\ pc[c] \in {"drop", "delete"}
  /\ todo[c] # <<>>
  /\ Delete(Head(todo[c]))
  /\ todo' = [todo EXCEPT ![c] = Tail(@)]
  /\ UNCHANGED <<args, pc, made, history>>

\* A deletion of destroy fails, and leaves all of the resource or some: one
\* link of two, a zone that has been halted.  destroy takes no notice.
DeleteFails(c) ==
  /\ At(c, "delete")
  /\ todo[c] # <<>>
  /\ Cardinality(UNION {missed[d] : d \in Commands}) < MaxMissed
  /\ LET r == Head(todo[c]) IN
       /\ missed' = [missed EXCEPT ![c] = @ \cup {r}]
       /\ \/ UNCHANGED <<links, zones>>
          \/ /\ r.kind = "link"
             /\ \E l \in r.ends : links' = links \ ({l} \ Undeletable)
             /\ UNCHANGED zones
          \/ /\ r.kind = "zone"
             /\ r.name \in DOMAIN zones
             /\ zones' = [zones EXCEPT ![r.name] = {}]
             /\ UNCHANGED links
  /\ todo' = [todo EXCEPT ![c] = Tail(@)]
  /\ UNCHANGED <<args, pc, made, dataset, toml, earlier>>

\* create has failed; destroy has, too, if it did not get to all links, and
\* it may after that, when it removes the directory /<name>.
End(c) ==
  /\ pc[c] \in {"drop", "delete"}
  /\ todo[c] = <<>>
  /\ \/ Go(c, "failed")
     \/ /\ At(c, "delete")
        /\ ValidSpec(args[c])
        /\ Cardinality(Reached(args[c])) = NumLinks(args[c])
        /\ Go(c, "ok")
  /\ UNCHANGED <<args, made, todo, machine, history>>

\* The run is interrupted: no destructor runs.
Kill(c) ==
  /\ pc[c] \notin Ended \cup {"idle"}
  /\ Go(c, "killed")
  /\ made' = [made EXCEPT ![c] = 0]
  /\ todo' = [todo EXCEPT ![c] = <<>>]
  /\ UNCHANGED <<args, machine, history>>

-----------------------------------------------------------------------------
ZoneInit ==
  /\ args    \in [Commands -> Args]
  /\ pc      = [c \in Commands |-> "idle"]
  /\ made    = [c \in Commands |-> 0]
  /\ todo    = [c \in Commands |-> <<>>]
  /\ links   = {}
  /\ dataset = FALSE
  /\ zones   = [z \in {} |-> {}]
  /\ toml    = {}
  /\ forced  \in BOOLEAN
  /\ earlier = [c \in Commands |-> {}]
  /\ missed  = [c \in Commands |-> {}]

Run(c) ==
  \/ BeginCreate(c)
  \/ MakeLink(c)
  \/ WriteToml(c)
  \/ MakeDataset(c)
  \/ MakeSoftnpuZone(c)
  \/ StartSoftnpu(c)
  \/ MakeHostZone(c)
  \/ Fail(c)
  \/ BeginDestroy(c)
  \/ DeleteNext(c)
  \/ DeleteFails(c)
  \/ End(c)
  \/ Kill(c)

ZoneNext == (\E c \in Commands : Run(c)) /\ UNCHANGED forced
ZoneSpec == ZoneInit /\ [][ZoneNext]_zvars

-----------------------------------------------------------------------------
LinkNames == UNION {LinksOf(a) \cup UserLinks(a) : a \in Args}
Resource  == [kind: {"link"}, ends: SUBSET LinkNames]
               \cup [kind: {"zone"}, name: ZoneNames] \cup [kind: {"zfs"}]

\* A create that is past its links has made them all.
ZoneTypeOK ==
  /\ args    \in [Commands -> Args]
  /\ pc      \in [Commands -> {"idle", "drop", "delete"} \cup Stages \cup Ended]
  /\ made    \in [Commands -> Nat]
  /\ todo    \in [Commands -> Seq(Resource)]
  /\ links   \subseteq LinkNames
  /\ {dataset, forced} \subseteq BOOLEAN
  /\ DOMAIN zones \subseteq ZoneNames
  /\ \A z \in DOMAIN zones : zones[z] \subseteq LinkNames
  /\ toml    \subseteq [sidecar: LinkNames, scrimlet: LinkNames]
  /\ earlier \in [Commands -> SUBSET Commands]
  /\ missed  \in [Commands -> SUBSET Resource]
  /\ \A c \in Commands :
       /\ made[c] <= NumLinks(args[c])
       /\ pc[c] \in Stages \ {"ports"} => made[c] = NumLinks(args[c])

Creates  == {c \in Commands : args[c].verb = "create"}
Destroys == {c \in Commands : args[c].verb = "destroy"}
Begun    == {c \in Commands : pc[c] # "idle"}
Nothing  == links = {} /\ ~dataset /\ DOMAIN zones = {}

(***************************************************************************)
(* "If we exit due to a question mark, things will be cleaned up": when    *)
(* every create there has been has failed, nothing is left of them, and a  *)
(* create can be tried again.  A create with a host zone drops the links   *)
(* while the softnpu zone is still there: for it this is so only if links  *)
(* in a zone can be deleted.                                               *)
(***************************************************************************)
CleanFailure ==
  (\A c \in Begun : /\ c \in Creates
                    /\ pc[c] = "failed"
                    /\ forced \/ ~args[c].withHost)
    => Nothing

(***************************************************************************)
(* A create that has ended well stays as it was made until somebody runs   *)
(* destroy: a second create on its name fails without a trace, whatever    *)
(* ports it asks for and whenever it runs, and the configuration file that *)
(* the running softnpu shares with it still names the zone's links.        *)
(***************************************************************************)
Whole(a) ==
  /\ LinksOf(a) \subseteq links
  /\ dataset
  /\ "softnpu" \in DOMAIN zones
  /\ zones["softnpu"] = SoftnpuPhys(a)
  /\ a.withHost => "host" \in DOMAIN zones
  /\ toml = PortsOf(a)
  /\ \A p \in toml : {p.sidecar, p.scrimlet} \subseteq zones["softnpu"]

CreatedStaysWhole ==
  Begun \cap Destroys = {} => \A c \in Creates : pc[c] = "ok" => Whole(args[c])

(***************************************************************************)
(* A destroy that has ended well leaves nothing of any create before it,   *)
(* wherever that ended, failed or was killed, provided its command line    *)
(* names at least the links and zones of theirs; nothing, that is, but     *)
(* what it failed to delete itself, and links that a zone it failed to     *)
(* delete would not let go.                                                *)
(***************************************************************************)
Covers(a, b) ==
  /\ LinksOf(b) \subseteq LinksOf(a)
  /\ b.withHost => a.withHost

OnlyMissedIsLeft(d) ==
  /\ dataset => Zfs \in missed[d]
  /\ \A z \in DOMAIN zones : Zone(z) \in missed[d]
  /\ \A l \in links :
       \/ \E r \in missed[d] : r.kind = "link" /\ l \in r.ends
       \/ ~forced /\ \E z \in ZoneNames : Zone(z) \in missed[d]

DestroyLeavesNothing ==
  \A d \in Destroys :
    /\ pc[d] = "ok"
    /\ \A c \in Creates \cap Begun :
         c \in earlier[d] /\ Covers(args[d], args[c])
    => OnlyMissedIsLeft(d)

(***************************************************************************)
(* The host zone gets the host's end of every port, as the diagram at the  *)
(* head of npuzone.rs shows it.  The code takes the first half of the      *)
(* links for them, but has made the host's and the network's link of each  *)
(* port in turn, or, with --ports, the host's links only.                  *)
(***************************************************************************)
HostEnds(a) ==
  IF a.count # 0 THEN {<<"shx", i>> : i \in 0..(a.count - 1)}
                 ELSE {<<a.list[k].host, 0>> : k \in DOMAIN a.list}

HostZoneHasItsPorts ==
  Begun \cap Destroys = {} =>
    \A c \in Creates : pc[c] = "ok" /\ args[c].withHost =>
      zones["host"] = HostEnds(args[c])

=============================================================================
