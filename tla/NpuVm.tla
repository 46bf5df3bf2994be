------------------------------- MODULE NpuVm -------------------------------
(***************************************************************************)
(* npuvm (client/src/bin/npuvm.rs): runs of install and uninstall, one     *)
(* after the other, on one machine.  Every step of a run may fail, which   *)
(* ends it where it is, and a run may be killed: nothing is undone.        *)
(*                                                                         *)
(* External, and modelled from how they are used: the branches artifacts   *)
(* are fetched for, which move; the package manager, which others may have *)
(* locked; and SMF.  A service that SMF knows stays known.  An import may  *)
(* bring back dependencies that were deleted.  A property set on a service *)
(* takes effect with the next refresh.                                     *)
(***************************************************************************)
EXTENDS Integers, Sequences

CONSTANTS
  Configs,   \* front_ports, rear_ports and pkt_source, as one value
  Versions,  \* the commits of a branch
  MaxRuns,   \* bound: runs
  MaxMoves   \* bound: commits to a branch

MAX_ATTEMPTS == 5

\* Nothing there, and a part of something.
None == "none"
Torn == "torn"

ASSUME NpuVmAssumption ==
  /\ None \notin Versions \cup Configs
  /\ Torn \notin Versions
  /\ MaxRuns \in Nat
  /\ MaxMoves \in Nat

VARIABLES
  pc,        \* the step the run is at, or how the last run ended
  k,         \* the round of the loop it is in
  cfg,       \* the arguments of the install
  ver,       \* the commit it has resolved
  opt,       \* /opt/oxide/dendrite: the version that is there
  manifests, \* the services with a manifest in /var/svc/manifest/site
  swadm,     \* whether /usr/bin/swadm is there, a link into opt
  scadm,     \* the version of scadm in the working directory
  lib,       \* the version of libsidecar_lite.so there
  known,     \* the services SMF knows
  deps,      \* the dependencies they have that can not be met here
  conf,      \* the properties set on a service
  snap,      \* the properties in effect
  enabled,   \* the services that are enabled
  driver,    \* whether the tofino package is installed
  head,      \* the commit at the head of each repository's branch
  runs,      \* the number of runs so far
  moves      \* the number of commits so far

run   == <<cfg, ver>>
disk  == <<opt, manifests, swadm, scadm, lib>>
smf   == <<known, deps, conf, snap, enabled>>
env   == <<head, runs, moves>>
vvars == <<pc, k, run, disk, smf, driver, env>>

Services == {"dendrite", "tfport", "uplink"}
Ordered  == <<"dendrite", "tfport", "uplink">>
Repos    == {"dendrite", "sidecar-lite"}

\* "Remove dependencies that don't exist in this environment".
ToRemove == <<[svc |-> "dendrite", dep |-> "zone_network_setup"],
              [svc |-> "tfport",   dep |-> "zone_network_setup"],
              [svc |-> "tfport",   dep |-> "switch_zone_setup"]>>
Unmet(s) == {ToRemove[i] : i \in {j \in DOMAIN ToRemove : ToRemove[j].svc = s}}

Idle  == {"idle", "installed", "uninstalled", "failed"}
InstallSteps ==
  {"fetch", "copy", "unlink", "symlink", "import", "deps", "driver", "set",
   "refresh", "enable", "resolve", "scadm", "lib"}
UninstallSteps == {"disable", "rmopt", "rmmanifest", "rmswadm"}
Steps == InstallSteps \cup UninstallSteps

VmInit ==
  /\ pc = "idle" /\ k = 1 /\ cfg = None /\ ver = None
  /\ opt = None /\ manifests = {} /\ swadm = FALSE
  /\ scadm = None /\ lib = None
  /\ known = {} /\ deps = {} /\ enabled = {}
  /\ conf = [s \in Services |-> None]
  /\ snap = [s \in Services |-> None]
  /\ driver \in BOOLEAN
  /\ head \in [Repos -> Versions]
  /\ runs = 0 /\ moves = 0

Go(step)  == pc' = step /\ k' = 1
Again     == k' = k + 1 /\ UNCHANGED pc

\* The next of n rounds, or the step after the loop.
Loop(n, step) == IF k < n THEN Again ELSE Go(step)

-----------------------------------------------------------------------------
(* install.                                                                *)

BeginInstall(c) ==
  /\ pc \in Idle
  /\ runs < MaxRuns
  /\ runs' = runs + 1
  /\ cfg' = c
  /\ Go("fetch")
  /\ UNCHANGED <<ver, disk, smf, driver, head, moves>>

\* The image goes to a temporary directory, from where it is copied.
FetchImage ==
  /\ pc = "fetch"
  /\ ver' = head["dendrite"]
  /\ Go("copy")
  /\ UNCHANGED <<cfg, disk, smf, driver, env>>

\* The image is copied over what is there.
CopyRoot ==
  /\ pc = "copy"
  /\ opt' = ver
  /\ manifests' = Services
  /\ Go("unlink")
  /\ UNCHANGED <<run, swadm, scadm, lib, smf, driver, env>>

\* The copy breaks off.
CopyFails ==
  /\ pc = "copy"
  /\ opt' = Torn
  /\ manifests' \in {ms \in SUBSET Services : manifests \subseteq ms}
  /\ Go("failed")
  /\ UNCHANGED <<run, swadm, scadm, lib, smf, driver, env>>

\* Slip: the link is made over the one of an earlier install.
UnlinkForgotten ==
  /\ pc = "unlink"
  /\ Go("symlink")
  /\ UNCHANGED <<run, disk, smf, driver, env>>

\* swadm_link.exists() follows the link: one into a missing image is not
\* seen, and not removed.
Unlink ==
  /\ pc = "unlink"
  /\ swadm' = (swadm /\ opt \notin Versions)
  /\ Go("symlink")
  /\ UNCHANGED <<run, opt, manifests, scadm, lib, smf, driver, env>>

Symlink ==
  /\ pc = "symlink"
  /\ ~swadm
  /\ swadm' = TRUE
  /\ Go("import")
  /\ UNCHANGED <<run, opt, manifests, scadm, lib, smf, driver, env>>

\* svccfg import of a manifest.
Import ==
  /\ pc = "import"
  /\ Ordered[k] \in manifests
  /\ known' = known \cup {Ordered[k]}
  /\ deps' \in IF Ordered[k] \in known
               THEN {deps, deps \cup Unmet(Ordered[k])}
               ELSE {deps \cup Unmet(Ordered[k])}
  /\ Loop(3, "deps")
  /\ UNCHANGED <<run, disk, conf, snap, enabled, driver, env>>

\* A dependency that is not there is no error, a service that is not is one.
RemoveDep ==
  /\ pc = "deps"
  /\ ToRemove[k].svc \in known
  /\ deps' = deps \ {ToRemove[k]}
  /\ Loop(Len(ToRemove), "driver")
  /\ UNCHANGED <<run, disk, known, conf, snap, enabled, driver, env>>

\* pkg install ends with 0, or with 4 where there is nothing to do.
InstallDriver ==
  /\ pc = "driver"
  /\ driver' = TRUE
  /\ Go("set")
  /\ UNCHANGED <<run, disk, smf, env>>

\* Slip: attempt <= MAX_ATTEMPTS.
PkgLockedOnceMore ==
  /\ pc = "driver"
  /\ IF k <= MAX_ATTEMPTS THEN Again ELSE Go("failed")
  /\ UNCHANGED <<run, disk, smf, driver, env>>

\* pkg install ends with 7: another pkg is at work.
PkgLocked ==
  /\ pc = "driver"
  /\ IF k < MAX_ATTEMPTS THEN Again ELSE Go("failed")
  /\ UNCHANGED <<run, disk, smf, driver, env>>

\* Slip: a service is enabled before its properties are in effect.
SetEnabling ==
  /\ pc = "set"
  /\ Ordered[k] \in known
  /\ conf' = [conf EXCEPT ![Ordered[k]] = cfg]
  /\ enabled' = enabled \cup {Ordered[k]}
  /\ pc' = "refresh"
  /\ UNCHANGED <<k, run, disk, known, deps, snap, driver, env>>

\* The transaction on the config property group of dendrite and tfport.
SetProperties ==
  /\ pc = "set"
  /\ Ordered[k] \in known
  /\ conf' = [conf EXCEPT ![Ordered[k]] = cfg]
  /\ pc' = "refresh"
  /\ UNCHANGED <<k, run, disk, known, deps, snap, enabled, driver, env>>

Refresh ==
  /\ pc = "refresh"
  /\ snap' = [snap EXCEPT ![Ordered[k]] = conf[Ordered[k]]]
  /\ pc' = "enable"
  /\ UNCHANGED <<k, run, disk, known, deps, conf, enabled, driver, env>>

\* After dendrite comes tfport, and after tfport uplink, without properties.
Enable ==
  /\ pc = "enable"
  /\ Ordered[k] \in known
  /\ enabled' = enabled \cup {Ordered[k]}
  /\ CASE k = 1 -> pc' = "set"    /\ k' = 2
       [] k = 2 -> pc' = "enable" /\ k' = 3
       [] k = 3 -> Go("resolve")
  /\ UNCHANGED <<run, disk, known, deps, conf, snap, driver, env>>

\* One commit for both artifacts of sidecar-lite.
Resolve ==
  /\ pc = "resolve"
  /\ ver' = head["sidecar-lite"]
  /\ Go("scadm")
  /\ UNCHANGED <<cfg, disk, smf, driver, env>>

\* Slip: each artifact is fetched for the head of the branch.
WantedHead == head["sidecar-lite"]

\* The commit both URLs name.
Wanted == ver

\* A download that fails may have left a part of the file, or all of it.
DownloadScadm ==
  /\ pc = "scadm"
  /\ \/ scadm' = Wanted /\ Go("lib")
     \/ scadm' \in {Wanted, Torn} /\ Go("failed")
  /\ UNCHANGED <<run, opt, manifests, swadm, lib, smf, driver, env>>

DownloadLib ==
  /\ pc = "lib"
  /\ \/ lib' = Wanted /\ Go("installed")
     \/ lib' \in {Wanted, Torn} /\ Go("failed")
  /\ UNCHANGED <<run, opt, manifests, swadm, scadm, smf, driver, env>>

-----------------------------------------------------------------------------
(* uninstall.                                                              *)

BeginUninstall ==
  /\ pc \in Idle
  /\ runs < MaxRuns
  /\ runs' = runs + 1
  /\ Go("disable")
  /\ UNCHANGED <<run, disk, smf, driver, head, moves>>

\* Slip: an error of disable is logged and passed over.
DisableIgnoringErrors ==
  /\ pc = "disable"
  /\ enabled' \in {enabled, enabled \ {Ordered[k]}}
  /\ Loop(3, "rmopt")
  /\ UNCHANGED <<run, disk, known, deps, conf, snap, driver, env>>

\* Services are disabled in order; one that SMF does not know is an error.
Disable ==
  /\ pc = "disable"
  /\ IF Ordered[k] \in known
     THEN enabled' = enabled \ {Ordered[k]} /\ Loop(3, "rmopt")
     ELSE UNCHANGED enabled /\ Go("failed")
  /\ UNCHANGED <<run, disk, known, deps, conf, snap, driver, env>>

\* What is not there is skipped.  A removal may fail half way.
RemoveOpt ==
  /\ pc = "rmopt"
  /\ \/ opt' = None /\ Go("rmmanifest")
     \/ opt # None /\ opt' = Torn /\ Go("failed")
  /\ UNCHANGED <<run, manifests, swadm, scadm, lib, smf, driver, env>>

RemoveManifest ==
  /\ pc = "rmmanifest"
  /\ manifests' = manifests \ {Ordered[k]}
  /\ Loop(3, "rmswadm")
  /\ UNCHANGED <<run, opt, swadm, scadm, lib, smf, driver, env>>

RemoveSwadm ==
  /\ pc = "rmswadm"
  /\ swadm' = FALSE
  /\ Go("uninstalled")
  /\ UNCHANGED <<run, opt, manifests, scadm, lib, smf, driver, env>>

-----------------------------------------------------------------------------
\* A step fails with no effect, or the run is killed between two.
Fail ==
  /\ pc \in Steps
  /\ Go("failed")
  /\ UNCHANGED <<run, disk, smf, driver, env>>

\* Somebody commits to a branch.
Move(r, v) ==
  /\ moves < MaxMoves
  /\ moves' = moves + 1
  /\ head' = [head EXCEPT ![r] = v]
  /\ UNCHANGED <<pc, k, run, disk, smf, driver, runs>>

InstallStep ==
  \/ \E c \in Configs : BeginInstall(c)
  \/ FetchImage \/ CopyRoot \/ CopyFails
  \/ Unlink \/ Symlink
  \/ Import \/ RemoveDep
  \/ InstallDriver \/ PkgLocked
  \/ SetProperties \/ Refresh \/ Enable
  \/ Resolve \/ DownloadScadm \/ DownloadLib

UninstallStep ==
  \/ BeginUninstall
  \/ Disable
  \/ RemoveOpt \/ RemoveManifest \/ RemoveSwadm

VmNext ==
  \/ InstallStep
  \/ UninstallStep
  \/ Fail
  \/ \E r \in Repos, v \in Versions : Move(r, v)

VmSpec == VmInit /\ [][VmNext]_vvars

-----------------------------------------------------------------------------
Installed == {None, Torn} \cup Versions

VmTypeOK ==
  /\ pc  \in Idle \cup Steps
  /\ k   \in 1..MAX_ATTEMPTS
  /\ cfg \in {None} \cup Configs
  /\ ver \in {None} \cup Versions
  /\ {opt, scadm, lib} \subseteq Installed
  /\ manifests \subseteq Services
  /\ {swadm, driver} \subseteq BOOLEAN
  /\ known \subseteq Services
  /\ deps \subseteq UNION {Unmet(s) : s \in known}
  /\ {conf, snap} \subseteq [Services -> {None} \cup Configs]
  /\ enabled \subseteq known
  /\ head \in [Repos -> Versions]
  /\ runs \in 0..MaxRuns
  /\ moves \in 0..MaxMoves
  /\ pc \in {"set", "refresh"} => k \in 1..2

(***************************************************************************)
(* Whatever earlier runs have left, complete, failed or killed at any      *)
(* point, an install finds what each of its steps needs: it fails only     *)
(* where a step itself fails, so trying again is worth it.                 *)
(***************************************************************************)
InstallCanGoOn ==
  /\ pc = "symlink"          => ~swadm
  /\ pc = "import"           => Ordered[k] \in manifests
  /\ pc = "deps"             => ToRemove[k].svc \in known
  /\ pc \in {"set", "enable"} => Ordered[k] \in known

(***************************************************************************)
(* "Refresh the instance to pick up the new configuration before           *)
(* enabling": at no moment, between any two steps of any runs, is dendrite *)
(* or tfport enabled without properties in effect, or without the driver.  *)
(***************************************************************************)
NeverUnconfigured ==
  \A s \in enabled :
    /\ driver
    /\ s \in {"dendrite", "tfport"} => snap[s] # None

(***************************************************************************)
(* An install that ends well has installed everything, over whatever there *)
(* was, with the arguments of this run in effect and nothing left that the *)
(* services would wait for; and scadm is of the commit its library is of,  *)
(* though the branch may move at any time.                                 *)
(***************************************************************************)
InstalledIsComplete ==
  pc = "installed" =>
    /\ opt \in Versions
    /\ manifests = Services
    /\ swadm
    /\ deps = {}
    /\ driver
    /\ snap["dendrite"] = cfg
    /\ snap["tfport"] = cfg
    /\ enabled = Services
    /\ scadm = lib
    /\ scadm \in Versions

(***************************************************************************)
(* Uninstall takes the image away only when every service is disabled, and *)
(* one that ends well leaves nothing of the image, whatever it found.      *)
(***************************************************************************)
UninstallIsOrderly ==
  /\ pc \in {"rmopt", "rmmanifest", "rmswadm", "uninstalled"} => enabled = {}
  /\ pc = "uninstalled" => opt = None /\ manifests = {} /\ ~swadm

(***************************************************************************)
(* "Uninstalls dendrite by disabling all services and removing root        *)
(* filesystem image": where there is an image, uninstall gets to remove    *)
(* it.  The code stops at a service that SMF does not know, so an image of *)
(* an install that failed before the imports stays.                        *)
(***************************************************************************)
UninstallCanGoOn == pc = "disable" /\ opt # None => Ordered[k] \in known

=============================================================================
