----------------------------- MODULE NpuVmProofs -----------------------------
(***************************************************************************)
(* Proofs about npuvm, for any number of installs and uninstalls, each of  *)
(* which may fail or be killed at any step, and any commits and arguments. *)
(***************************************************************************)
EXTENDS NpuVm, TLAPS

-----------------------------------------------------------------------------
(* The invariant: what each step of a run has behind it.                   *)

Enabled  == {"resolve", "scadm", "lib", "installed"}
Driven   == {"set", "refresh", "enable"} \cup Enabled
Imported == {"deps", "driver"} \cup Driven
Linked   == {"import"} \cup Imported
Copied   == {"unlink", "symlink"} \cup Linked
Looping  == {"import", "deps", "set", "refresh", "enable", "disable", "rmmanifest"}

\* Files: the image and what goes with it.
FilesInv ==
  /\ pc \in {"copy", "scadm", "lib"} => ver \in Versions
  /\ pc \in Copied => opt \in Versions /\ manifests = Services
  /\ pc = "symlink" => ~swadm
  /\ pc \in Linked => swadm
  /\ pc = "lib" => scadm = ver
  /\ pc = "installed" => scadm \in Versions /\ lib = scadm

\* Services: known, without the dependencies, with properties, enabled.
ServicesInv ==
  /\ pc \in InstallSteps \cup {"installed"} => cfg \in Configs
  /\ pc = "import" => \A i \in 1..(k - 1) : Ordered[i] \in known
  /\ pc \in Imported => known = Services
  /\ pc = "deps" => \A i \in 1..(k - 1) : ToRemove[i] \notin deps
  /\ pc \in {"driver"} \cup Driven => deps = {}
  /\ pc \in Driven => driver
  /\ NeverUnconfigured
  /\ pc = "refresh" => conf[Ordered[k]] = cfg
  /\ (pc = "enable" /\ k \in 1..2) => snap[Ordered[k]] = cfg
  /\ pc \in {"set", "refresh", "enable"} =>
       \A i \in 1..(k - 1) : /\ Ordered[i] \in enabled
                             /\ i \in 1..2 => snap[Ordered[i]] = cfg
  /\ pc \in Enabled => /\ enabled = Services
                       /\ snap["dendrite"] = cfg /\ snap["tfport"] = cfg

\* What an uninstall has taken away.
RemovedInv ==
  /\ pc = "disable" => \A i \in 1..(k - 1) : Ordered[i] \notin enabled
  /\ pc \in {"rmopt", "rmmanifest", "rmswadm", "uninstalled"} => enabled = {}
  /\ pc \in {"rmmanifest", "rmswadm", "uninstalled"} => opt = None
  /\ pc = "rmmanifest" => \A i \in 1..(k - 1) : Ordered[i] \notin manifests
  /\ pc \in {"rmswadm", "uninstalled"} => manifests = {}
  /\ pc = "uninstalled" => ~swadm

VmInv ==
  /\ VmTypeOK
  /\ pc \in Looping => k \in 1..3
  /\ FilesInv
  /\ ServicesInv
  /\ RemovedInv

-----------------------------------------------------------------------------
(* The services, and what they wait for.                                   *)

\* The loops go over every service and every dependency.
LEMMA ServiceFacts ==
  /\ Ordered[1] = "dendrite" /\ Ordered[2] = "tfport" /\ Ordered[3] = "uplink"
  /\ Services = {Ordered[1], Ordered[2], Ordered[3]}
  /\ Len(ToRemove) = 3 /\ DOMAIN ToRemove = 1..3
  /\ \A j \in 1..3 : ToRemove[j].svc \in Services
BY DEF Ordered, Services, ToRemove

\* Every dependency is one of the list.
LEMMA UnmetFacts ==
  /\ Unmet("dendrite") = {ToRemove[1]}
  /\ Unmet("tfport") = {ToRemove[2], ToRemove[3]}
  /\ Unmet("uplink") = {}
  /\ UNION {Unmet(s) : s \in Services} = {ToRemove[1], ToRemove[2], ToRemove[3]}
<1>1. /\ ToRemove[1].svc = "dendrite" /\ ToRemove[2].svc = "tfport"
      /\ ToRemove[3].svc = "tfport" /\ DOMAIN ToRemove = {1, 2, 3}
  BY DEF ToRemove
<1>2. Unmet("dendrite") = {ToRemove[1]}
  BY <1>1 DEF Unmet
<1>3. Unmet("tfport") = {ToRemove[2], ToRemove[3]}
  BY <1>1 DEF Unmet
<1>4. Unmet("uplink") = {}
  BY <1>1 DEF Unmet
<1>5. Services = {"dendrite", "tfport", "uplink"}
  BY DEF Services
<1> QED BY <1>2, <1>3, <1>4, <1>5

\* It holds of a machine on which nothing has been installed.
LEMMA InitVm == VmInit => VmInv
<1> SUFFICES ASSUME VmInit PROVE VmInv
  OBVIOUS
<1> USE DEF VmInit, Looping, Copied, Linked, Imported, Driven, Enabled, InstallSteps
<1>1. VmTypeOK
  <2>1. conf \in [Services -> {None} \cup Configs] /\ snap \in [Services -> {None} \cup Configs]
    OBVIOUS
  <2>2. driver \in BOOLEAN /\ swadm \in BOOLEAN
    OBVIOUS
  <2>3. runs \in 0..MaxRuns /\ moves \in 0..MaxMoves /\ k \in 1..MAX_ATTEMPTS
    BY NpuVmAssumption DEF MAX_ATTEMPTS
  <2> QED BY <2>1, <2>2, <2>3 DEF VmTypeOK, Idle, Installed
<1>2. FilesInv /\ ServicesInv /\ RemovedInv
  BY DEF FilesInv, ServicesInv, RemovedInv, NeverUnconfigured
<1> QED BY <1>1, <1>2 DEF VmInv

\* Every step keeps the invariant.
LEMMA StepVm ==
  ASSUME VmInv, VmNext
  PROVE  VmInv'
<1> USE NpuVmAssumption, ServiceFacts
    DEF VmInv, VmTypeOK, Loop, Again, Go, run, disk, smf, env, Idle, Steps, InstallSteps,
        UninstallSteps, Looping, Copied, Linked, Imported, Driven, Enabled
<1>1. CASE \E c \in Configs : BeginInstall(c)
  <2>1. VmTypeOK'
    BY <1>1 DEF BeginInstall, Installed, MAX_ATTEMPTS
  <2>2. (pc \in Looping => k \in 1..3)'
    BY <1>1 DEF BeginInstall
  <2>3. FilesInv'
    BY <1>1 DEF BeginInstall, FilesInv, ServicesInv
  <2>4. ServicesInv'
    BY <1>1 DEF BeginInstall, FilesInv, ServicesInv, NeverUnconfigured
  <2>5. RemovedInv'
    BY <1>1 DEF BeginInstall, FilesInv, RemovedInv
  <2> QED BY <2>1, <2>2, <2>3, <2>4, <2>5
<1>2. CASE FetchImage
  <2>1. VmTypeOK'
    BY <1>2 DEF FetchImage, Repos, Installed, MAX_ATTEMPTS
  <2>2. (pc \in Looping => k \in 1..3)'
    BY <1>2 DEF FetchImage, Repos
  <2>3. FilesInv'
    BY <1>2 DEF FetchImage, Repos, FilesInv, ServicesInv
  <2>4. ServicesInv'
    BY <1>2 DEF FetchImage, Repos, FilesInv, ServicesInv, NeverUnconfigured
  <2>5. RemovedInv'
    BY <1>2 DEF FetchImage, Repos, FilesInv, RemovedInv
  <2> QED BY <2>1, <2>2, <2>3, <2>4, <2>5
<1>3. CASE CopyRoot
  <2>1. VmTypeOK'
    BY <1>3 DEF CopyRoot, Installed, MAX_ATTEMPTS
  <2>2. (pc \in Looping => k \in 1..3)'
    BY <1>3 DEF CopyRoot
  <2>3. FilesInv'
    BY <1>3 DEF CopyRoot, FilesInv, ServicesInv
  <2>4. ServicesInv'
    BY <1>3 DEF CopyRoot, FilesInv, ServicesInv, NeverUnconfigured
  <2>5. RemovedInv'
    BY <1>3 DEF CopyRoot, FilesInv, RemovedInv
  <2> QED BY <2>1, <2>2, <2>3, <2>4, <2>5
<1>4. CASE CopyFails
  <2>1. VmTypeOK'
    BY <1>4 DEF CopyFails, Installed, MAX_ATTEMPTS
  <2>2. (pc \in Looping => k \in 1..3)'
    BY <1>4 DEF CopyFails
  <2>3. FilesInv'
    BY <1>4 DEF CopyFails, FilesInv, ServicesInv
  <2>4. ServicesInv'
    BY <1>4 DEF CopyFails, FilesInv, ServicesInv, NeverUnconfigured
  <2>5. RemovedInv'
    BY <1>4 DEF CopyFails, FilesInv, RemovedInv
  <2> QED BY <2>1, <2>2, <2>3, <2>4, <2>5
<1>5. CASE Unlink
  <2>1. VmTypeOK'
    BY <1>5 DEF Unlink, Installed, MAX_ATTEMPTS
  <2>2. (pc \in Looping => k \in 1..3)'
    BY <1>5 DEF Unlink
  <2>3. FilesInv'
    BY <1>5 DEF Unlink, FilesInv, ServicesInv
  <2>4. ServicesInv'
    BY <1>5 DEF Unlink, FilesInv, ServicesInv, NeverUnconfigured
  <2>5. RemovedInv'
    BY <1>5 DEF Unlink, FilesInv, RemovedInv
  <2> QED BY <2>1, <2>2, <2>3, <2>4, <2>5
<1>6. CASE Symlink
  <2>1. VmTypeOK'
    BY <1>6 DEF Symlink, Installed, MAX_ATTEMPTS
  <2>2. (pc \in Looping => k \in 1..3)'
    BY <1>6 DEF Symlink
  <2>3. FilesInv'
    BY <1>6 DEF Symlink, FilesInv, ServicesInv
  <2>4. ServicesInv'
    BY <1>6 DEF Symlink, FilesInv, ServicesInv, NeverUnconfigured
  <2>5. RemovedInv'
    BY <1>6 DEF Symlink, FilesInv, RemovedInv
  <2> QED BY <2>1, <2>2, <2>3, <2>4, <2>5
<1>7. CASE Import
  <2>1. VmTypeOK'
    BY <1>7 DEF Import, Installed, MAX_ATTEMPTS
  <2>2. (pc \in Looping => k \in 1..3)'
    BY <1>7 DEF Import
  <2>3. FilesInv'
    BY <1>7 DEF Import, FilesInv, ServicesInv
  <2>4. ServicesInv'
    BY <1>7 DEF Import, FilesInv, ServicesInv, NeverUnconfigured
  <2>5. RemovedInv'
    BY <1>7 DEF Import, FilesInv, RemovedInv
  <2> QED BY <2>1, <2>2, <2>3, <2>4, <2>5
<1>8. CASE RemoveDep
  <2>1. VmTypeOK'
    BY <1>8 DEF RemoveDep, Installed, MAX_ATTEMPTS
  <2>2. (pc \in Looping => k \in 1..3)'
    BY <1>8 DEF RemoveDep
  <2>3. FilesInv'
    BY <1>8 DEF RemoveDep, FilesInv, ServicesInv
  <2>4. ServicesInv'
    BY <1>8, UnmetFacts DEF RemoveDep, FilesInv, ServicesInv, NeverUnconfigured
  <2>5. RemovedInv'
    BY <1>8 DEF RemoveDep, FilesInv, RemovedInv
  <2> QED BY <2>1, <2>2, <2>3, <2>4, <2>5
<1>9. CASE InstallDriver
  <2>1. VmTypeOK'
    BY <1>9 DEF InstallDriver, Installed, MAX_ATTEMPTS
  <2>2. (pc \in Looping => k \in 1..3)'
    BY <1>9 DEF InstallDriver
  <2>3. FilesInv'
    BY <1>9 DEF InstallDriver, FilesInv, ServicesInv
  <2>4. ServicesInv'
    BY <1>9 DEF InstallDriver, FilesInv, ServicesInv, NeverUnconfigured
  <2>5. RemovedInv'
    BY <1>9 DEF InstallDriver, FilesInv, RemovedInv
  <2> QED BY <2>1, <2>2, <2>3, <2>4, <2>5
<1>10. CASE PkgLocked
  <2>1. VmTypeOK'
    BY <1>10 DEF PkgLocked, Installed, MAX_ATTEMPTS
  <2>2. (pc \in Looping => k \in 1..3)'
    BY <1>10 DEF PkgLocked
  <2>3. FilesInv'
    BY <1>10 DEF PkgLocked, FilesInv, ServicesInv
  <2>4. ServicesInv'
    BY <1>10 DEF PkgLocked, FilesInv, ServicesInv, NeverUnconfigured
  <2>5. RemovedInv'
    BY <1>10 DEF PkgLocked, FilesInv, RemovedInv
  <2> QED BY <2>1, <2>2, <2>3, <2>4, <2>5
<1>11. CASE SetProperties
  <2>1. VmTypeOK'
    BY <1>11 DEF SetProperties, Installed, MAX_ATTEMPTS
  <2>2. (pc \in Looping => k \in 1..3)'
    BY <1>11 DEF SetProperties
  <2>3. FilesInv'
    BY <1>11 DEF SetProperties, FilesInv, ServicesInv
  <2>4. ServicesInv'
    BY <1>11 DEF SetProperties, FilesInv, ServicesInv, NeverUnconfigured
  <2>5. RemovedInv'
    BY <1>11 DEF SetProperties, FilesInv, RemovedInv
  <2> QED BY <2>1, <2>2, <2>3, <2>4, <2>5
<1>12. CASE Refresh
  <2>1. VmTypeOK'
    BY <1>12 DEF Refresh, Installed, MAX_ATTEMPTS
  <2>2. (pc \in Looping => k \in 1..3)'
    BY <1>12 DEF Refresh
  <2>3. FilesInv'
    BY <1>12 DEF Refresh, FilesInv, ServicesInv
  <2>4. ServicesInv'
    BY <1>12 DEF Refresh, FilesInv, ServicesInv, NeverUnconfigured
  <2>5. RemovedInv'
    BY <1>12 DEF Refresh, FilesInv, RemovedInv
  <2> QED BY <2>1, <2>2, <2>3, <2>4, <2>5
<1>13. CASE Enable
  <2>0. /\ pc = "enable" /\ Ordered[k] \in known /\ enabled' = enabled \cup {Ordered[k]}
        /\ UNCHANGED <<run, disk, known, deps, conf, snap, driver, env>>
        /\ \/ k = 1 /\ pc' = "set"     /\ k' = 2
           \/ k = 2 /\ pc' = "enable"  /\ k' = 3
           \/ k = 3 /\ pc' = "resolve" /\ k' = 1
    <3>1. k \in 1..3
      BY <1>13 DEF Enable
    <3>2. CASE k = 1
      BY <1>13, <3>2 DEF Enable
    <3>3. CASE k = 2
      BY <1>13, <3>3 DEF Enable
    <3>4. CASE k = 3
      BY <1>13, <3>4 DEF Enable
    <3> QED BY <3>1, <3>2, <3>3, <3>4
  <2>1. VmTypeOK'
    BY <2>0 DEF Installed, MAX_ATTEMPTS
  <2>2. (pc \in Looping => k \in 1..3)'
    BY <2>0
  <2>3. FilesInv'
    BY <2>0 DEF FilesInv, ServicesInv
  <2>4. ServicesInv'
    BY <2>0 DEF FilesInv, ServicesInv, NeverUnconfigured
  <2>5. RemovedInv'
    BY <2>0 DEF FilesInv, RemovedInv
  <2> QED BY <2>1, <2>2, <2>3, <2>4, <2>5
<1>14. CASE Resolve
  <2>1. VmTypeOK'
    BY <1>14 DEF Resolve, Repos, Installed, MAX_ATTEMPTS
  <2>2. (pc \in Looping => k \in 1..3)'
    BY <1>14 DEF Resolve, Repos
  <2>3. FilesInv'
    BY <1>14 DEF Resolve, Repos, FilesInv, ServicesInv
  <2>4. ServicesInv'
    BY <1>14 DEF Resolve, Repos, FilesInv, ServicesInv, NeverUnconfigured
  <2>5. RemovedInv'
    BY <1>14 DEF Resolve, Repos, FilesInv, RemovedInv
  <2> QED BY <2>1, <2>2, <2>3, <2>4, <2>5
<1>15. CASE DownloadScadm
  <2>1. VmTypeOK'
    BY <1>15 DEF DownloadScadm, Wanted, Installed, MAX_ATTEMPTS
  <2>2. (pc \in Looping => k \in 1..3)'
    BY <1>15 DEF DownloadScadm, Wanted
  <2>3. FilesInv'
    BY <1>15 DEF DownloadScadm, Wanted, FilesInv, ServicesInv
  <2>4. ServicesInv'
    BY <1>15 DEF DownloadScadm, Wanted, FilesInv, ServicesInv, NeverUnconfigured
  <2>5. RemovedInv'
    BY <1>15 DEF DownloadScadm, Wanted, FilesInv, RemovedInv
  <2> QED BY <2>1, <2>2, <2>3, <2>4, <2>5
<1>16. CASE DownloadLib
  <2>1. VmTypeOK'
    BY <1>16 DEF DownloadLib, Wanted, Installed, MAX_ATTEMPTS
  <2>2. (pc \in Looping => k \in 1..3)'
    BY <1>16 DEF DownloadLib, Wanted
  <2>3. FilesInv'
    BY <1>16 DEF DownloadLib, Wanted, FilesInv, ServicesInv
  <2>4. ServicesInv'
    BY <1>16 DEF DownloadLib, Wanted, FilesInv, ServicesInv, NeverUnconfigured
  <2>5. RemovedInv'
    BY <1>16 DEF DownloadLib, Wanted, FilesInv, RemovedInv
  <2> QED BY <2>1, <2>2, <2>3, <2>4, <2>5
<1>17. CASE BeginUninstall
  <2>1. VmTypeOK'
    BY <1>17 DEF BeginUninstall, Installed, MAX_ATTEMPTS
  <2>2. (pc \in Looping => k \in 1..3)'
    BY <1>17 DEF BeginUninstall
  <2>3. FilesInv'
    BY <1>17 DEF BeginUninstall, FilesInv, ServicesInv
  <2>4. ServicesInv'
    BY <1>17 DEF BeginUninstall, FilesInv, ServicesInv, NeverUnconfigured
  <2>5. RemovedInv'
    BY <1>17 DEF BeginUninstall, FilesInv, RemovedInv
  <2> QED BY <2>1, <2>2, <2>3, <2>4, <2>5
<1>18. CASE Disable
  <2>1. VmTypeOK'
    BY <1>18 DEF Disable, Installed, MAX_ATTEMPTS
  <2>2. (pc \in Looping => k \in 1..3)'
    BY <1>18 DEF Disable
  <2>3. FilesInv'
    BY <1>18 DEF Disable, FilesInv, ServicesInv
  <2>4. ServicesInv'
    BY <1>18 DEF Disable, FilesInv, ServicesInv, NeverUnconfigured
  <2>5. RemovedInv'
    BY <1>18 DEF Disable, FilesInv, RemovedInv
  <2> QED BY <2>1, <2>2, <2>3, <2>4, <2>5
<1>19. CASE RemoveOpt
  <2>1. VmTypeOK'
    BY <1>19 DEF RemoveOpt, Installed, MAX_ATTEMPTS
  <2>2. (pc \in Looping => k \in 1..3)'
    BY <1>19 DEF RemoveOpt
  <2>3. FilesInv'
    BY <1>19 DEF RemoveOpt, FilesInv, ServicesInv
  <2>4. ServicesInv'
    BY <1>19 DEF RemoveOpt, FilesInv, ServicesInv, NeverUnconfigured
  <2>5. RemovedInv'
    BY <1>19 DEF RemoveOpt, FilesInv, RemovedInv
  <2> QED BY <2>1, <2>2, <2>3, <2>4, <2>5
<1>20. CASE RemoveManifest
  <2>1. VmTypeOK'
    BY <1>20 DEF RemoveManifest, Installed, MAX_ATTEMPTS
  <2>2. (pc \in Looping => k \in 1..3)'
    BY <1>20 DEF RemoveManifest
  <2>3. FilesInv'
    BY <1>20 DEF RemoveManifest, FilesInv, ServicesInv
  <2>4. ServicesInv'
    BY <1>20 DEF RemoveManifest, FilesInv, ServicesInv, NeverUnconfigured
  <2>5. RemovedInv'
    BY <1>20 DEF RemoveManifest, FilesInv, RemovedInv
  <2> QED BY <2>1, <2>2, <2>3, <2>4, <2>5
<1>21. CASE RemoveSwadm
  <2>1. VmTypeOK'
    <3>1. pc' = "uninstalled" /\ k' = 1
      BY <1>21 DEF RemoveSwadm
    <3>2. UNCHANGED <<run, opt, manifests, scadm, lib, smf, driver, env>>
      BY <1>21 DEF RemoveSwadm
    <3>3. {swadm', driver'} \subseteq BOOLEAN
      <4>1. swadm' \in BOOLEAN
        BY <1>21, Zenon DEF RemoveSwadm
      <4>2. driver' \in BOOLEAN
        BY <3>2
      <4> QED BY <4>1, <4>2
    <3> QED BY <3>1, <3>2, <3>3 DEF Installed, MAX_ATTEMPTS
  <2>2. (pc \in Looping => k \in 1..3)'
    BY <1>21 DEF RemoveSwadm
  <2>3. FilesInv'
    BY <1>21 DEF RemoveSwadm, FilesInv, ServicesInv
  <2>4. ServicesInv'
    BY <1>21 DEF RemoveSwadm, FilesInv, ServicesInv, NeverUnconfigured
  <2>5. RemovedInv'
    BY <1>21 DEF RemoveSwadm, FilesInv, RemovedInv
  <2> QED BY <2>1, <2>2, <2>3, <2>4, <2>5
<1>22. CASE Fail
  <2>1. VmTypeOK'
    BY <1>22 DEF Fail, Installed, MAX_ATTEMPTS
  <2>2. (pc \in Looping => k \in 1..3)'
    BY <1>22 DEF Fail
  <2>3. FilesInv'
    BY <1>22 DEF Fail, FilesInv, ServicesInv
  <2>4. ServicesInv'
    BY <1>22 DEF Fail, FilesInv, ServicesInv, NeverUnconfigured
  <2>5. RemovedInv'
    BY <1>22 DEF Fail, FilesInv, RemovedInv
  <2> QED BY <2>1, <2>2, <2>3, <2>4, <2>5
<1>23. CASE \E r \in Repos, v \in Versions : Move(r, v)
  <2>1. VmTypeOK'
    BY <1>23 DEF Move, Installed, MAX_ATTEMPTS
  <2>2. (pc \in Looping => k \in 1..3)'
    BY <1>23 DEF Move
  <2>3. FilesInv'
    BY <1>23 DEF Move, FilesInv, ServicesInv
  <2>4. ServicesInv'
    BY <1>23 DEF Move, FilesInv, ServicesInv, NeverUnconfigured
  <2>5. RemovedInv'
    BY <1>23 DEF Move, FilesInv, RemovedInv
  <2> QED BY <2>1, <2>2, <2>3, <2>4, <2>5
<1> QED
  BY <1>1, <1>2, <1>3, <1>4, <1>5, <1>6, <1>7, <1>8, <1>9, <1>10, <1>11, <1>12, <1>13,
     <1>14, <1>15, <1>16, <1>17, <1>18, <1>19, <1>20, <1>21, <1>22, <1>23
  DEF VmNext, InstallStep, UninstallStep

\* The invariant holds in every state.
LEMMA VmInvariance == VmSpec => []VmInv
<1>1. VmInv /\ UNCHANGED vvars => VmInv'
  BY DEF VmInv, VmTypeOK, FilesInv, ServicesInv, RemovedInv, NeverUnconfigured,
         vvars, run, disk, smf, env
<1>2. VmInv /\ [VmNext]_vvars => VmInv'
  BY <1>1, StepVm
<1> QED BY <1>2, InitVm, PTL DEF VmSpec

-----------------------------------------------------------------------------
(* What follows from it.                                                   *)

(***************************************************************************)
(* The variables have their types: no loop goes beyond its services, its   *)
(* dependencies or its attempts.                                           *)
(***************************************************************************)
THEOREM VmsAreTyped == VmSpec => []VmTypeOK
<1>1. VmInv => VmTypeOK
  BY DEF VmInv
<1> QED BY <1>1, VmInvariance, PTL

(***************************************************************************)
(* After any number of runs, wherever they ended, an install finds what    *)
(* its steps need.                                                         *)
(***************************************************************************)
THEOREM InstallsCanGoOn == VmSpec => []InstallCanGoOn
<1>1. VmInv => InstallCanGoOn
  BY ServiceFacts DEF VmInv, FilesInv, ServicesInv, InstallCanGoOn, Looping, Copied, Linked,
                      Imported, Driven, Enabled
<1> QED BY <1>1, VmInvariance, PTL

(***************************************************************************)
(* Between any two steps of any number of runs, no service is enabled      *)
(* without the driver, or without its properties in effect.                *)
(***************************************************************************)
THEOREM ServicesAreConfigured == VmSpec => []NeverUnconfigured
<1>1. VmInv => NeverUnconfigured
  BY DEF VmInv, ServicesInv
<1> QED BY <1>1, VmInvariance, PTL

(***************************************************************************)
(* Over whatever any number of runs have left, an install that ends well   *)
(* has installed everything.                                               *)
(***************************************************************************)
THEOREM InstallsAreComplete == VmSpec => []InstalledIsComplete
<1>1. VmInv => InstalledIsComplete
  BY DEF VmInv, FilesInv, ServicesInv, InstalledIsComplete, NeverUnconfigured, Copied, Linked,
         Imported, Driven, Enabled
<1> QED BY <1>1, VmInvariance, PTL

(***************************************************************************)
(* Over whatever any number of runs have left, an uninstall takes the      *)
(* image away only when the services are disabled, and all of it.          *)
(***************************************************************************)
THEOREM UninstallsAreOrderly == VmSpec => []UninstallIsOrderly
<1>1. VmInv => UninstallIsOrderly
  BY DEF VmInv, RemovedInv, UninstallIsOrderly
<1> QED BY <1>1, VmInvariance, PTL

-----------------------------------------------------------------------------
(* What uninstall stops at, and what it does not.                          *)

\* SMF does not forget a service.
LEMMA StepKnown ==
  ASSUME VmInv, [VmNext]_vvars
  PROVE  known \subseteq known'
BY DEF VmNext, InstallStep, UninstallStep, BeginInstall, FetchImage, CopyRoot, CopyFails,
       Unlink, Symlink, Import, RemoveDep, InstallDriver, PkgLocked, SetProperties,
       Refresh, Enable, Resolve, DownloadScadm, DownloadLib, BeginUninstall, Disable,
       RemoveOpt, RemoveManifest, RemoveSwadm, Fail, Move, smf, vvars

(***************************************************************************)
(* Once an install has imported all services, whatever becomes of it and   *)
(* of the runs after it, no uninstall stops at one that SMF does not know: *)
(* what UninstallCanGoOn lacks are only installs that never got there.     *)
(***************************************************************************)
THEOREM ImportedImagesCanBeRemoved ==
  VmSpec => []((known = Services) => []UninstallCanGoOn)
<1>1. VmInv /\ (known = Services) /\ [VmNext]_vvars => (known = Services)'
  <2>1. VmInv /\ [VmNext]_vvars => VmInv'
    BY StepVm DEF VmInv, VmTypeOK, FilesInv, ServicesInv, RemovedInv, NeverUnconfigured,
                  vvars, run, disk, smf, env
  <2>2. VmInv' => known' \subseteq Services
    BY DEF VmInv, VmTypeOK
  <2> QED BY <2>1, <2>2, StepKnown
<1>2. VmInv /\ (known = Services) => UninstallCanGoOn
  BY ServiceFacts DEF VmInv, UninstallCanGoOn, Looping
<1> QED BY <1>1, <1>2, VmInvariance, PTL DEF VmSpec

-----------------------------------------------------------------------------
(* Every run ends.                                                         *)

\* The steps a run has left at most, the one it is at among them: 27 for an
\* install, 8 for an uninstall.
LeftAt(p, i) ==
  CASE p = "fetch"      -> 27
    [] p = "copy"       -> 26
    [] p = "unlink"     -> 25
    [] p = "symlink"    -> 24
    [] p = "import"     -> 24 - i
    [] p = "deps"       -> 21 - i
    [] p = "driver"     -> 18 - i
    [] p = "set"        -> 15 - 3 * i
    [] p = "refresh"    -> 14 - 3 * i
    [] p = "enable"     -> 13 - 3 * i
    [] p = "resolve"    -> 3
    [] p = "scadm"      -> 2
    [] p = "lib"        -> 1
    [] p = "disable"    -> 9 - i
    [] p = "rmopt"      -> 5
    [] p = "rmmanifest" -> 5 - i
    [] p = "rmswadm"    -> 1
    [] OTHER            -> 0

VmLeft == LeftAt(pc, k)

RunGoesOn == pc \in Steps => VmLeft' < VmLeft \/ UNCHANGED <<pc, k>>

LEMMA LeftAtIsPositive ==
  ASSUME NEW p \in Steps, NEW i \in 1..5,
         p \in Looping => i \in 1..3, p \in {"set", "refresh"} => i \in 1..2
  PROVE  LeftAt(p, i) \in 1..27
BY DEF LeftAt, Steps, InstallSteps, UninstallSteps, Looping

\* A run that ends has nothing left.
LEMMA EndsAreLess ==
  ASSUME VmInv, pc \in Steps, pc' \in Idle
  PROVE  VmLeft' < VmLeft
<1>1. LeftAt(pc', k') = 0
  BY DEF LeftAt, Idle
<1>2. LeftAt(pc, k) \in 1..27
  BY LeftAtIsPositive DEF VmInv, VmTypeOK, MAX_ATTEMPTS
<1> QED BY <1>1, <1>2 DEF VmLeft

LEMMA StepIsLess ==
  ASSUME VmInv, VmNext
  PROVE  RunGoesOn
<1>1. k \in 1..5 /\ (pc \in Looping => k \in 1..3) /\ (pc \in {"set", "refresh"} => k \in 1..2)
  BY DEF VmInv, VmTypeOK, MAX_ATTEMPTS
<1> SUFFICES ASSUME pc \in Steps
             PROVE  VmLeft' < VmLeft \/ UNCHANGED <<pc, k>>
  BY DEF RunGoesOn
<1>2. CASE pc' \in Idle
  BY <1>2, EndsAreLess
<1>3. CASE (\E c \in Configs : BeginInstall(c)) \/ BeginUninstall
  BY <1>3 DEF BeginInstall, BeginUninstall, Idle, Steps, InstallSteps, UninstallSteps
<1>4. CASE CopyFails \/ Fail \/ RemoveSwadm
  <2>1. pc' \in Idle
    BY <1>4 DEF CopyFails, Fail, RemoveSwadm, Go, Idle
  <2> QED BY <2>1, <1>2
<1>5. CASE FetchImage \/ CopyRoot \/ Unlink \/ Symlink
  <2>1. \/ pc = "fetch" /\ pc' = "copy"
        \/ pc = "copy" /\ pc' = "unlink"
        \/ pc = "unlink" /\ pc' = "symlink"
        \/ pc = "symlink" /\ pc' = "import" /\ k' = 1
    BY <1>5 DEF FetchImage, CopyRoot, Unlink, Symlink, Go
  <2> QED BY <2>1 DEF VmLeft, LeftAt
<1>6. CASE Import
  <2>1. pc = "import" /\ k \in 1..3
    BY <1>1, <1>6 DEF Import, Looping
  <2>2. (pc' = "import" /\ k' = k + 1) \/ (pc' = "deps" /\ k' = 1)
    BY <1>6, <2>1 DEF Import, Loop, Again, Go
  <2> QED BY <2>1, <2>2 DEF VmLeft, LeftAt
<1>7. CASE RemoveDep
  <2>1. pc = "deps" /\ k \in 1..3
    BY <1>1, <1>7 DEF RemoveDep, Looping
  <2>2. (pc' = "deps" /\ k' = k + 1) \/ (pc' = "driver" /\ k' = 1)
    BY <1>7, <2>1 DEF RemoveDep, Loop, Again, Go
  <2> QED BY <2>1, <2>2 DEF VmLeft, LeftAt
<1>8. CASE InstallDriver \/ PkgLocked
  <2>1. pc = "driver"
    BY <1>8 DEF InstallDriver, PkgLocked
  <2>2. \/ pc' = "driver" /\ k' = k + 1
        \/ pc' = "set" /\ k' = 1
        \/ pc' \in Idle
    BY <1>8, <2>1 DEF InstallDriver, PkgLocked, Again, Go, Idle
  <2>3. CASE pc' = "driver" /\ k' = k + 1
    BY <1>1, <2>1, <2>3 DEF VmLeft, LeftAt
  <2>4. CASE pc' = "set" /\ k' = 1
    BY <1>1, <2>1, <2>4 DEF VmLeft, LeftAt
  <2> QED BY <1>2, <2>2, <2>3, <2>4
<1>9. CASE SetProperties \/ Refresh
  <2>1. /\ k' = k /\ k \in 1..2
        /\ \/ pc = "set" /\ pc' = "refresh"
           \/ pc = "refresh" /\ pc' = "enable"
    BY <1>1, <1>9 DEF SetProperties, Refresh
  <2> QED BY <2>1 DEF VmLeft, LeftAt
<1>10. CASE Enable
  <2>1. pc = "enable" /\ k \in 1..3
    BY <1>1, <1>10 DEF Enable, Looping
  <2>2. \/ k = 1 /\ pc' = "set" /\ k' = 2
        \/ k = 2 /\ pc' = "enable" /\ k' = 3
        \/ k = 3 /\ pc' = "resolve" /\ k' = 1
    <3>1. CASE k = 1
      <4>1. k # 2 /\ k # 3
        BY <3>1
      <4> QED BY <1>10, <3>1, <4>1 DEF Enable
    <3>2. CASE k = 2
      <4>1. k # 1 /\ k # 3
        BY <3>2
      <4> QED BY <1>10, <3>2, <4>1 DEF Enable
    <3>3. CASE k = 3
      <4>1. k # 1 /\ k # 2
        BY <3>3
      <4> QED BY <1>10, <3>3, <4>1 DEF Enable, Go
    <3> QED BY <2>1, <3>1, <3>2, <3>3
  <2> QED BY <2>1, <2>2 DEF VmLeft, LeftAt
<1>11. CASE Resolve \/ DownloadScadm \/ DownloadLib
  <2>1. \/ pc = "resolve" /\ pc' = "scadm"
        \/ pc = "scadm" /\ pc' = "lib"
        \/ pc' \in Idle
    BY <1>11 DEF Resolve, DownloadScadm, DownloadLib, Go, Idle
  <2>2. CASE (pc = "resolve" /\ pc' = "scadm") \/ (pc = "scadm" /\ pc' = "lib")
    BY <2>2 DEF VmLeft, LeftAt
  <2> QED BY <1>2, <2>1, <2>2
<1>12. CASE Disable
  <2>1. pc = "disable" /\ k \in 1..3
    BY <1>1, <1>12 DEF Disable, Looping
  <2>2. \/ pc' = "disable" /\ k' = k + 1
        \/ pc' = "rmopt"
        \/ pc' \in Idle
    BY <1>12, <2>1 DEF Disable, Loop, Again, Go, Idle
  <2>3. CASE (pc' = "disable" /\ k' = k + 1) \/ pc' = "rmopt"
    BY <2>1, <2>3 DEF VmLeft, LeftAt
  <2> QED BY <1>2, <2>2, <2>3
<1>13. CASE RemoveOpt
  <2>1. (pc = "rmopt" /\ pc' = "rmmanifest" /\ k' = 1) \/ pc' \in Idle
    BY <1>13 DEF RemoveOpt, Go, Idle
  <2>2. CASE pc = "rmopt" /\ pc' = "rmmanifest" /\ k' = 1
    BY <2>2 DEF VmLeft, LeftAt
  <2> QED BY <1>2, <2>1, <2>2
<1>14. CASE RemoveManifest
  <2>1. pc = "rmmanifest" /\ k \in 1..3
    BY <1>1, <1>14 DEF RemoveManifest, Looping
  <2>2. (pc' = "rmmanifest" /\ k' = k + 1) \/ (pc' = "rmswadm" /\ k' = 1)
    BY <1>14, <2>1 DEF RemoveManifest, Loop, Again, Go
  <2> QED BY <2>1, <2>2 DEF VmLeft, LeftAt
<1>15. CASE \E r \in Repos, v \in Versions : Move(r, v)
  BY <1>15 DEF Move
<1> QED BY <1>3, <1>4, <1>5, <1>6, <1>7, <1>8, <1>9, <1>10, <1>11, <1>12, <1>13, <1>14, <1>15
        DEF VmNext, InstallStep, UninstallStep

(***************************************************************************)
(* Every run ends: whatever fails and however often pkg is locked, each    *)
(* step of a run takes one of at most 27 away, and nobody else's step, a   *)
(* commit, adds to them.                                                   *)
(***************************************************************************)
THEOREM RunsAreShort ==
  VmSpec => /\ [](pc \in Steps => VmLeft \in 1..27)
            /\ [][RunGoesOn]_vvars
<1>1. VmInv => (pc \in Steps => VmLeft \in 1..27)
  BY LeftAtIsPositive DEF VmInv, VmTypeOK, MAX_ATTEMPTS, VmLeft
<1>2. VmInv /\ [VmNext]_vvars => [RunGoesOn]_vvars
  BY StepIsLess
<1> QED BY <1>1, <1>2, VmInvariance, PTL DEF VmSpec

=============================================================================
