---------------------------- MODULE DriversProofs ----------------------------
(***************************************************************************)
(* Theorems about bundles across kernels, for every set of releases, bundle*)
(* directories and published builds, and any number of stagings, picks,    *)
(* probes and mounts that fail: the driver is there for each kernel, and   *)
(* each directory of the root shows the newest overlay.                    *)
(***************************************************************************)
EXTENDS Drivers, DeploymentProofs, WellFoundedInduction

-----------------------------------------------------------------------------
(* The inductive invariants. *)

Slots == {"active", "prev", "next"}
Versions == {0} \cup {b.ver : b \in Builds}

(* What a bundle directory holds is a build of its name. *)
Placed == {p \in [Dirs -> Builds \cup {NoBuild}] :
             \A n \in Dirs : p[n] # NoBuild => p[n].name = n}

(* A candidate in flight is in the next slot. *)
OsInv ==
  /\ GoodRecord(wal)
  /\ boot \in BootStates
  /\ slot \in [Slots -> Releases \cup {None}]
  /\ slot["active"] # None
  /\ HasPending(wal) => slot["next"] # None

BundleInv ==
  /\ fw \in [Dirs -> FW!BundleStates(Versions)]
  /\ active \in Placed
  /\ bak \in Placed

SessionInv ==
  /\ running \in Releases
  /\ mounted.drivers \cup mounted.firmware \subseteq Builds

(* A directory has served what the builds in it serve. *)
Kernels == {None} \cup {b.abi : b \in Builds} \cup {KernelOf[r] : r \in Releases}

HistoryInv ==
  /\ driven \subseteq Releases
  /\ kernels \in [Dirs -> SUBSET Kernels]
  /\ \A n \in Dirs : \A b \in {active[n], bak[n]} \ {NoBuild} : Serves(b) \subseteq kernels[n]

TypeInv == OsInv /\ BundleInv /\ SessionInv /\ HistoryInv

(* A bundle directory holds the driver of a kernel, or did and is no more  *)
(* that kernel's alone.                                                    *)
ActiveDriver(n, kernel) ==
  /\ active[n] # NoBuild /\ KernelBound(active[n])
  /\ active[n].abi = kernel /\ active[n].target = NoTarget

HasDir(kernel) == \E n \in Dirs : ActiveDriver(n, kernel) \/ Shared(n, kernel)

Mounts(kernel) ==
  \/ \E b \in mounted.drivers : b.gpu /\ b.abi = kernel
  \/ \E n \in mounted.broken \cap Dirs : ActiveDriver(n, kernel)
  \/ \E n \in Dirs : Shared(n, kernel)

DriverInv ==
  /\ \A r \in driven : gpu /\ HasDir(KernelOf[r])
  /\ running \in driven => Mounts(KernelOf[running])

-----------------------------------------------------------------------------
(* Lemmas about builds and records. *)

LEMMA BuildIs ==
  ASSUME NEW b \in Builds
  PROVE  /\ b # NoBuild /\ b.name \in Dirs /\ b.ver \in Versions /\ b.ver \in Nat \ {0}
         /\ b.gpu \in BOOLEAN /\ b.kmin \in Nat /\ b.kmax \in Nat
         /\ b.abi \in Nat /\ b.over \in Nat
<1>1. b \in [name : Dirs, ver : Nat \ {0}, gpu : BOOLEAN, kmin : Nat,
             kmax : Nat, abi : Nat, target : Targets \cup {NoTarget}, over : Nat]
  BY BuildsAssumption
<1>2. b.name # 0
  BY <1>1 DEF Dirs
<1>3. b # NoBuild
  BY <1>2 DEF NoBuild
<1>4. b.ver \in Versions
  BY DEF Versions
<1> QED
  BY <1>1, <1>3, <1>4

LEMMA VersionsNat == Versions \subseteq Nat
BY BuildIs DEF Versions

StagedNames(r) == {b.name : b \in Staged(r)}

LEMMA StagedBuild ==
  ASSUME NEW r \in Releases, NEW n \in StagedNames(r)
  PROVE  /\ BuildFor(r, n) \in Staged(r) /\ BuildFor(r, n).name = n
         /\ BuildFor(r, n) \in Builds /\ n \in Dirs
<1>1. PICK b \in Staged(r) : b.name = n
  BY DEF StagedNames
<1>2. BuildFor(r, n) \in Staged(r) /\ BuildFor(r, n).name = n
  BY <1>1 DEF BuildFor
<1>3. Staged(r) \subseteq Builds
  BY ReleaseAssumption DEF Staged
<1> QED
  BY <1>2, <1>3, BuildIs

(* Each transition of a bundle's record keeps it typed. *)
LEMMA BundleTransitions ==
  ASSUME NEW f \in FW!BundleStates(Versions)
  PROVE  /\ \A v \in Versions : FW!DeployFirmware(f, v) \in FW!BundleStates(Versions)
         /\ FW!RecordProbe(f) \in FW!BundleStates(Versions)
         /\ FW!RollbackFirmware(f) \in FW!BundleStates(Versions)
<1> DEFINE Fields == [current : Versions, pending : Versions,
                      confirms : 0..(StableThreshold - 1), lkg : Versions, min : Versions]
<1>1. f \in Fields /\ Fields = FW!BundleStates(Versions)
  BY DEF FW!BundleStates
<1>2. 0 \in 0..(StableThreshold - 1) /\ 0 \in Versions /\ StableThreshold \in Nat \ {0}
  BY BudgetAssumption DEF Versions
<1>3. \A v \in Versions : FW!DeployFirmware(f, v) \in Fields
  BY <1>1, <1>2 DEF FW!DeployFirmware
<1>4. FW!RecordProbe(f) \in Fields
  <2>1. CASE FW!Promotes(f)
    BY <1>1, <1>2, <2>1 DEF FW!RecordProbe, FW!None
  <2>2. CASE ~FW!Promotes(f)
    <3>1. f.confirms + 1 \in 0..(StableThreshold - 1)
      BY <1>1, <1>2, <2>2 DEF FW!Promotes
    <3> QED
      BY <1>1, <2>2, <3>1 DEF FW!RecordProbe
  <2> QED
    BY <2>1, <2>2
<1>5. FW!RollbackFirmware(f) \in Fields
  BY <1>1, <1>2 DEF FW!RollbackFirmware, FW!None
<1> QED
  BY <1>1, <1>3, <1>4, <1>5

(* What a build serves, and how that tells a driver of one kernel.         *)
LEMMA ServesIs ==
  ASSUME NEW b \in Builds
  PROVE  /\ Serves(b) \subseteq Kernels /\ Serves(b) # {}
         /\ \A r \in Releases : KernelBound(b) /\ MatchesHardware(b, KernelOf[r])
                                 => KernelOf[r] \in Serves(b)
         /\ KernelBound(b) => b.abi \in Serves(b)
         /\ \A r \in Releases : Serves(b) = {KernelOf[r]} =>
              KernelBound(b) /\ b.abi = KernelOf[r] /\ b.target = NoTarget
<1>1. /\ Serves(b) \subseteq Kernels /\ Serves(b) # {}
      /\ KernelBound(b) => b.abi \in Serves(b)
      /\ \A r \in Releases : KernelBound(b) /\ MatchesHardware(b, KernelOf[r])
                              => KernelOf[r] \in Serves(b)
  BY DEF Serves, Kernels
<1>2. ASSUME NEW r \in Releases, Serves(b) = {KernelOf[r]}
      PROVE  KernelBound(b) /\ b.abi = KernelOf[r] /\ b.target = NoTarget
  <2>1. KernelOf[r] # None
    BY KernelAssumption DEF None
  <2>2. None \notin Serves(b)
    BY <1>2, <2>1
  <2>3. KernelBound(b) /\ b.target = NoTarget
    BY <2>2 DEF Serves
  <2> QED
    BY <1>1, <1>2, <2>3
<1> QED
  BY <1>1, <1>2

-----------------------------------------------------------------------------
(* TypeInv, action by action. *)

LEMMA BundleUnchanged ==
  ASSUME BundleInv, UNCHANGED bundles
  PROVE  BundleInv'
BY DEF BundleInv, bundles, Placed

LEMMA StageOs ==
  ASSUME OsInv, NEW r \in Releases, Stage(r)
  PROVE  OsInv'
<1> DEFINE d == IF PromotesRunning THEN Promote(wal) ELSE wal
           s == IF PromotesRunning THEN Promoted(slot) ELSE slot
           b == IF PromotesRunning THEN ActiveState ELSE boot
<1>1. /\ GoodRecord(d) /\ b \in BootStates
      /\ s \in [Slots -> Releases \cup {None}] /\ s["active"] # None
      /\ HasPending(d) => s["next"] # None
  <2>1. CASE PromotesRunning
    <3>1. HasPending(wal)
      BY <2>1 DEF PromotesRunning
    <3> QED
      BY <2>1, <3>1, PromoteRecord DEF OsInv, Promoted, Slots, ActiveState, BootStates
  <2>2. CASE ~PromotesRunning
    BY <2>2 DEF OsInv
  <2> QED
    BY <2>1, <2>2
<1>2. \/ wal' = d /\ slot' = s /\ boot' = b
      \/ wal' = d /\ slot' = [s EXCEPT !["next"] = r] /\ boot' = b
      \/ wal' = StagedDeploy(d, r) /\ slot' = [s EXCEPT !["next"] = r]
         /\ boot' = BootStateOf(wal')
      \/ UNCHANGED os
  BY DEF Stage, os
<1>3. r # None /\ r \in Releases \cup {None}
  BY ReleasesAssumption DEF None
<1> HIDE DEF d, s, b
<1>4. /\ [s EXCEPT !["next"] = r] \in [Slots -> Releases \cup {None}]
      /\ [s EXCEPT !["next"] = r]["active"] = s["active"]
      /\ [s EXCEPT !["next"] = r]["next"] = r
  BY <1>1, <1>3 DEF Slots
<1>5. GoodRecord(StagedDeploy(d, r)) /\ BootStateOf(StagedDeploy(d, r)) \in BootStates
  BY <1>1, StagedDeployRecord, BootStateOfGood
<1> QED
  BY <1>1, <1>2, <1>3, <1>4, <1>5 DEF OsInv, os

(* What a staging that is accepted does to the bundles. *)
Activates(r) ==
  /\ ~Stranded(r)
  /\ fw' = [n \in Dirs |-> IF n \in StagedNames(r)
                           THEN FW!DeployFirmware(fw[n], BuildFor(r, n).ver) ELSE fw[n]]
  /\ active' = [n \in Dirs |-> IF n \in StagedNames(r) THEN BuildFor(r, n) ELSE active[n]]
  /\ bak' = [n \in Dirs |-> IF n \in StagedNames(r) /\ active[n] # NoBuild
                            THEN active[n] ELSE bak[n]]
  /\ kernels' = [n \in Dirs |->
       kernels[n] \cup UNION {Serves(b) : b \in {c \in Staged(r) : c.name = n}}]

LEMMA StageCases ==
  ASSUME OsInv, NEW r \in Releases, Stage(r)
  PROVE  \/ UNCHANGED <<bundles, history>>
         \/ /\ Activates(r)
            /\ driven' = IF ComesWithDriver(r) THEN driven \cup {r} ELSE driven
<1> DEFINE d == IF PromotesRunning THEN Promote(wal) ELSE wal
<1>1. CASE \/ r < d.current \/ Stranded(r)
           \/ \E n \in StagedNames(r) : ~FW!AboveFloor(fw[n], BuildFor(r, n).ver)
  BY <1>1 DEF Stage, StagedNames
<1>2. CASE ~(\/ r < d.current \/ Stranded(r)
             \/ \E n \in StagedNames(r) : ~FW!AboveFloor(fw[n], BuildFor(r, n).ver))
  BY <1>2 DEF Stage, StagedNames, Activates
<1> QED
  BY <1>1, <1>2

LEMMA StageBundles ==
  ASSUME OsInv, BundleInv, HistoryInv, NEW r \in Releases, Stage(r)
  PROVE  BundleInv' /\ HistoryInv'
<1>1. CASE UNCHANGED <<bundles, history>>
  BY <1>1, BundleUnchanged DEF HistoryInv, bundles, history, Serves, KernelBound, MatchesHardware,
                                Stage
<1>2. CASE /\ Activates(r)
           /\ driven' = IF ComesWithDriver(r) THEN driven \cup {r} ELSE driven
  <2>1. \A n \in StagedNames(r) : /\ BuildFor(r, n) \in Builds /\ BuildFor(r, n).name = n
                                  /\ BuildFor(r, n).ver \in Versions
                                  /\ BuildFor(r, n) \in Staged(r) /\ BuildFor(r, n) # NoBuild
    BY StagedBuild, BuildIs
  <2>2. fw' \in [Dirs -> FW!BundleStates(Versions)]
    BY <1>2, <2>1, BundleTransitions DEF Activates, BundleInv
  <2>3. active' \in Placed
    BY <1>2, <2>1 DEF Activates, Placed, BundleInv
  <2>4. bak' \in Placed
    BY <1>2 DEF Activates, Placed, BundleInv
  <2>5. driven' \subseteq Releases
    BY <1>2 DEF HistoryInv
  <2>6. ASSUME NEW n \in Dirs
        PROVE  /\ kernels[n] \subseteq kernels'[n] /\ kernels'[n] \subseteq Kernels
               /\ \A b \in {active'[n], bak'[n]} \ {NoBuild} : Serves(b) \subseteq kernels'[n]
    <3>1. kernels'[n] = kernels[n] \cup UNION {Serves(b) : b \in {c \in Staged(r) : c.name = n}}
      BY <1>2 DEF Activates
    <3>2. \A b \in Staged(r) : Serves(b) \subseteq Kernels
      BY ServesIs, ReleaseAssumption DEF Staged
    <3>3. n \in StagedNames(r) => Serves(BuildFor(r, n)) \subseteq kernels'[n]
      BY <2>1, <3>1
    <3>4. /\ active'[n] = IF n \in StagedNames(r) THEN BuildFor(r, n) ELSE active[n]
          /\ bak'[n] = IF n \in StagedNames(r) /\ active[n] # NoBuild THEN active[n] ELSE bak[n]
      BY <1>2 DEF Activates
    <3> QED
      BY <3>1, <3>2, <3>3, <3>4 DEF HistoryInv
  <2>7. kernels' \in [Dirs -> SUBSET Kernels]
    BY <1>2, <2>6 DEF Activates
  <2>8. \A b : Serves(b)' = Serves(b)
    BY DEF Serves, KernelBound, MatchesHardware, Stage
  <2> QED
    BY <2>2, <2>3, <2>4, <2>5, <2>6, <2>7, <2>8 DEF BundleInv, HistoryInv
<1> QED
  BY <1>1, <1>2, StageCases

LEMMA BootOs ==
  ASSUME OsInv, NEW healthy \in BOOLEAN, BootSuccess(healthy)
  PROVE  OsInv'
<1> DEFINE good == RecordGoodBoot(wal)
           failed == RecordFailedBoot(wal, boot)
           cleaned == [slot EXCEPT !["next"] = None]
<1>1. cleaned \in [Slots -> Releases \cup {None}] /\ cleaned["active"] # None
  BY DEF OsInv, Slots
<1>2. CASE ~HasPending(wal)
  <2>1. wal' = wal /\ boot' = ActiveState /\ slot' = cleaned
    BY <1>2 DEF BootSuccess
  <2>2. ActiveState \in BootStates
    BY DEF ActiveState, BootStates
  <2> QED
    BY <1>1, <1>2, <2>1, <2>2 DEF OsInv
<1>3. CASE HasPending(wal) /\ ~healthy
  BY <1>3 DEF BootSuccess, OsInv, os
<1>4. CASE HasPending(wal) /\ healthy /\ IdentityConfirmed(wal, running)
  <2>1. GoodRecord(good) /\ BootStateOf(good) \in BootStates
    BY <1>4, RecordGoodBootRecord, BootStateOfGood DEF OsInv
  <2>2. /\ Promoted(slot) \in [Slots -> Releases \cup {None}]
        /\ Promoted(slot)["active"] # None
    BY <1>4 DEF OsInv, Promoted, Slots
  <2>3. ReachesThreshold(wal) => ~HasPending(good)
    BY <1>4, CountGoodBootRecord, PromoteRecord DEF RecordGoodBoot, OsInv
  <2>4. /\ wal' = good /\ boot' = BootStateOf(good)
        /\ slot' = IF ReachesThreshold(wal) THEN Promoted(slot) ELSE slot
    BY <1>4 DEF BootSuccess
  <2> HIDE DEF good
  <2> QED
    BY <1>4, <2>1, <2>2, <2>3, <2>4 DEF OsInv
<1>5. CASE HasPending(wal) /\ healthy /\ ~IdentityConfirmed(wal, running)
  <2>1. GoodRecord(failed) /\ BootStateOf(failed) \in BootStates
    BY <1>5, FailedBootRecord, BootStateOfGood DEF OsInv
  <2>2. /\ wal' = failed /\ boot' = BootStateOf(failed)
        /\ slot' = IF HasPending(failed) THEN slot ELSE cleaned
    BY <1>5 DEF BootSuccess
  <2> HIDE DEF failed
  <2> QED
    BY <1>1, <1>5, <2>1, <2>2 DEF OsInv
<1> QED
  BY <1>2, <1>3, <1>4, <1>5

LEMMA ConfirmBundles ==
  ASSUME BundleInv, HistoryInv, NEW n \in Dirs, NEW clean \in BOOLEAN, FirmwareConfirm(n, clean)
  PROVE  BundleInv' /\ HistoryInv'
<1>1. fw' \in [Dirs -> FW!BundleStates(Versions)]
  BY BundleTransitions DEF FirmwareConfirm, BundleInv
<1>2. active' \in Placed /\ bak' \in Placed
  BY DEF FirmwareConfirm, Placed, BundleInv, Restored
<1>3. \A m \in Dirs : {active'[m], bak'[m]} \subseteq {active[m], bak[m], NoBuild}
  BY DEF FirmwareConfirm, Placed, BundleInv, Restored
<1>4. UNCHANGED <<gpu, driven, kernels>>
  BY DEF FirmwareConfirm, history
<1>5. \A b : Serves(b)' = Serves(b)
  BY <1>4 DEF Serves, KernelBound, MatchesHardware
<1> QED
  BY <1>1, <1>2, <1>3, <1>4, <1>5 DEF BundleInv, HistoryInv

LEMMA HistoryUnchanged ==
  ASSUME HistoryInv, UNCHANGED <<gpu, bundles, history>>
  PROVE  HistoryInv'
<1>1. \A b : Serves(b)' = Serves(b)
  BY DEF Serves, KernelBound, MatchesHardware
<1> QED
  BY <1>1 DEF HistoryInv, bundles, history

LEMMA StartSession ==
  ASSUME TypeInv, NEW s \in Slots, Start(s)
  PROVE  SessionInv'
<1>1. slot[s] \in Releases
  BY DEF Start, TypeInv, OsInv
<1>2. \A broken : Tried(broken) \subseteq Builds
  BY DEF Tried, TypeInv, BundleInv, Placed
<1>3. \A broken, torn :
        LET m == MountFirmware(slot[s], broken, torn)
        IN  m.drivers \cup m.firmware \subseteq Builds
  BY <1>2 DEF MountFirmware
<1> QED
  BY <1>1, <1>3 DEF Start, SessionInv

LEMMA BootSlot == TypeInv => LoaderSlot \in Slots
BY DEF LoaderSlot, Slots

LEMMA TypeNext ==
  ASSUME TypeInv, [Next]_vars
  PROVE  TypeInv'
<1>1. ASSUME NEW r \in Releases, Stage(r) PROVE TypeInv'
  <2>1. OsInv' /\ BundleInv' /\ HistoryInv'
    BY <1>1, StageOs, StageBundles DEF TypeInv
  <2>2. SessionInv'
    BY <1>1 DEF Stage, TypeInv, SessionInv, session
  <2> QED
    BY <2>1, <2>2 DEF TypeInv
<1>2. ASSUME NEW s \in Slots, Start(s), boot' \in BootStates PROVE TypeInv'
  <2>1. SessionInv'
    BY <1>2, StartSession
  <2>2. BundleInv' /\ HistoryInv'
    BY <1>2, BundleUnchanged, HistoryUnchanged DEF Start, TypeInv
  <2> QED
    BY <1>2, <2>1, <2>2 DEF Start, TypeInv, OsInv
<1>3. CASE LoaderBoot
  <2>1. boot' \in BootStates
    BY <1>3 DEF LoaderBoot, TypeInv, OsInv, BootStates, OnTrial
  <2> QED
    BY <1>2, <1>3, <2>1, BootSlot DEF LoaderBoot
<1>4. ASSUME NEW s \in {"active", "prev"}, ChooserBoot(s) PROVE TypeInv'
  <2>1. s \in Slots /\ Start(s) /\ boot' \in BootStates
    BY <1>4 DEF ChooserBoot, TypeInv, OsInv, Slots
  <2> QED
    BY <1>2, <2>1
<1>5. ASSUME NEW healthy \in BOOLEAN, BootSuccess(healthy) PROVE TypeInv'
  <2>1. OsInv'
    BY <1>5, BootOs DEF TypeInv
  <2>2. UNCHANGED <<gpu, bundles, running, mounted, history>>
    BY <1>5 DEF BootSuccess
  <2>3. BundleInv' /\ HistoryInv'
    BY <2>2, BundleUnchanged, HistoryUnchanged DEF TypeInv
  <2> QED
    BY <2>1, <2>2, <2>3 DEF TypeInv, SessionInv
<1>6. ASSUME NEW n \in Dirs, NEW clean \in BOOLEAN, FirmwareConfirm(n, clean) PROVE TypeInv'
  <2>1. BundleInv' /\ HistoryInv'
    BY <1>6, ConfirmBundles DEF TypeInv
  <2>2. UNCHANGED <<os, session>>
    BY <1>6 DEF FirmwareConfirm
  <2> QED
    BY <2>1, <2>2 DEF TypeInv, OsInv, SessionInv, os, session
<1>7. CASE UNCHANGED vars
  <2>1. UNCHANGED <<gpu, bundles, history>>
    BY <1>7 DEF vars
  <2>2. BundleInv' /\ HistoryInv'
    BY <2>1, BundleUnchanged, HistoryUnchanged DEF TypeInv
  <2> QED
    BY <1>7, <2>2 DEF vars, os, session, TypeInv, OsInv, SessionInv
<1> QED
  BY <1>1, <1>3, <1>4, <1>5, <1>6, <1>7 DEF Next

(* The build a directory is provisioned with. *)
LEMMA Provisioning ==
  ASSUME Init, NEW n \in Dirs
  PROVE  /\ Given(n) = {} => active[n] = NoBuild
         /\ Given(n) # {} => active[n] \in Given(n)
  BY DEF Init

LEMMA TypeInit == Init => TypeInv
<1> SUFFICES ASSUME Init PROVE TypeInv
  OBVIOUS
<1>1. OsInv
  <2>1. GoodRecord(New(Factory)) /\ ~HasPending(New(Factory))
    <3>1. New(Factory) = [New(Factory) EXCEPT !.lkg = Factory]
      BY DEF New
    <3> QED
      BY <3>1, NewRecord, ReleaseAssumption DEF New, HasPending
  <2>2. ActiveState \in BootStates /\ Factory \in Releases /\ Factory # None
    BY ReleaseAssumption, ReleasesAssumption DEF ActiveState, BootStates, None
  <2> QED
    BY <2>1, <2>2 DEF Init, OsInv, Slots
<1>2. \A n \in Dirs : active[n] = NoBuild \/ (active[n] \in Builds /\ active[n].name = n)
  BY Provisioning, ReleaseAssumption DEF Given
<1>3. active \in Placed /\ bak \in Placed
  BY <1>2 DEF Init, Placed
<1>4. ASSUME NEW n \in Dirs PROVE fw[n] \in FW!BundleStates(Versions)
  <2> DEFINE v == IF active[n] = NoBuild THEN 0 ELSE active[n].ver
  <2>1. v \in Versions
    BY <1>2, BuildIs DEF Versions
  <2>2. fw[n] = FW!Provisioned(v)
    BY DEF Init
  <2>3. 0 \in 0..(StableThreshold - 1) /\ 0 \in Versions
    BY BudgetAssumption DEF Versions
  <2> HIDE DEF v
  <2> QED
    BY <2>1, <2>2, <2>3 DEF FW!Provisioned, FW!BundleStates, FW!None
<1>5. BundleInv
  BY <1>3, <1>4 DEF Init, BundleInv
<1>6. SessionInv
  <2>1. \A broken : Tried(broken) \subseteq Builds
    BY <1>2 DEF Tried
  <2> QED
    BY <2>1, ReleaseAssumption DEF Init, SessionInv, MountFirmware
<1>7. HistoryInv
  <2>1. driven \subseteq Releases
    BY ReleaseAssumption DEF Init
  <2>2. kernels = [n \in Dirs |-> IF active[n] = NoBuild THEN {} ELSE Serves(active[n])]
    BY DEF Init
  <2>3. kernels \in [Dirs -> SUBSET Kernels]
    BY <1>2, <2>2, ServesIs
  <2>4. \A n \in Dirs : bak[n] = NoBuild
    BY DEF Init
  <2> QED
    BY <2>1, <2>2, <2>3, <2>4 DEF HistoryInv
<1> QED
  BY <1>1, <1>5, <1>6, <1>7 DEF TypeInv

(* Records, slots and bundles of both tracks stay well typed, and a bundle *)
(* directory holds builds of its own name.                                 *)
THEOREM DriverTypes == Spec => []TypeOK
<1>1. TypeInv => TypeOK
  BY DEF TypeInv, OsInv, BundleInv, SessionInv, HistoryInv, Kernels, GoodRecord, Placed, Versions, Slots, TypeOK
<1> QED
  BY <1>1, TypeInit, TypeNext, PTL DEF Spec

-----------------------------------------------------------------------------
(* DriverInv, action by action. *)

(* A driver stays in its directory, or the directory becomes a shared one, *)
(* which it stays.                                                         *)
LEMMA DriversStay ==
  ASSUME TypeInv, TypeInv', gpu' = gpu, NEW r \in Releases,
         \A n \in Dirs : /\ active[n] # NoBuild => active'[n] # NoBuild
                         /\ kernels[n] \subseteq kernels'[n]
  PROVE  LET k == KernelOf[r]
         IN  /\ \A n \in Dirs : Shared(n, k) => Shared(n, k)'
             /\ \A n \in Dirs : ActiveDriver(n, k) => ActiveDriver(n, k)' \/ Shared(n, k)'
             /\ HasDir(k) => HasDir(k)'
<1> DEFINE k == KernelOf[r]
<1>1. \A n \in Dirs : Shared(n, k) => Shared(n, k)'
  BY DEF Shared
<1>2. ASSUME NEW n \in Dirs, ActiveDriver(n, k), ~Shared(n, k)'
      PROVE  ActiveDriver(n, k)'
  <2>1. /\ active[n] # NoBuild /\ active[n] \in Builds /\ KernelBound(active[n])
        /\ active[n].abi = k
        /\ active'[n] \in Builds /\ active'[n] # NoBuild
    BY <1>2 DEF ActiveDriver, TypeInv, BundleInv, Placed
  <2>2. k \in kernels'[n]
    BY <2>1, ServesIs DEF TypeInv, HistoryInv
  <2>3. kernels'[n] = {k}
    BY <1>2, <2>2 DEF Shared
  <2>4. \A b : Serves(b)' = Serves(b)
    BY DEF Serves, KernelBound, MatchesHardware
  <2>5. Serves(active'[n]) = {k}
    BY <2>1, <2>3, <2>4, ServesIs DEF TypeInv, HistoryInv
  <2>6. KernelBound(active'[n]) /\ active'[n].abi = k /\ active'[n].target = NoTarget
    BY <2>1, <2>5, ServesIs
  <2> QED
    BY <2>1, <2>6 DEF ActiveDriver, KernelBound
<1> QED
  BY <1>1, <1>2 DEF HasDir

(* A staging that brings a driver activates it, or shares its directory.   *)
LEMMA DriverActivated ==
  ASSUME TypeInv, TypeInv', gpu' = gpu, NEW r \in Releases, Activates(r),
         r \in Declared, HasDriver(r)
  PROVE  gpu /\ HasDir(KernelOf[r])'
<1> DEFINE k == KernelOf[r]
<1>1. PICK b \in Offers[r] : KernelBound(b) /\ MatchesHardware(b, k)
  BY DEF HasDriver
<1>2. b \in Builds /\ b \in Staged(r) /\ gpu /\ k \in Serves(b)
  BY <1>1, ReleaseAssumption, ServesIs
     DEF Staged, TargetKernel, MatchesHardware, KernelBound
<1> DEFINE n == b.name
<1>3. n \in StagedNames(r) /\ n \in Dirs
  BY <1>2, BuildIs DEF StagedNames
<1>4. k \in kernels'[n]
  <2>1. kernels'[n] = kernels[n] \cup UNION {Serves(c) : c \in {x \in Staged(r) : x.name = n}}
    BY <1>3 DEF Activates
  <2> QED
    BY <1>2, <2>1
<1>5. CASE kernels'[n] = {k}
  <2>1. active'[n] \in Builds /\ active'[n] # NoBuild
    BY <1>3, StagedBuild, BuildIs DEF Activates
  <2>2. \A c : Serves(c)' = Serves(c)
    BY DEF Serves, KernelBound, MatchesHardware
  <2>3. Serves(active'[n]) = {k}
    BY <1>3, <1>5, <2>1, <2>2, ServesIs DEF TypeInv, HistoryInv
  <2>4. KernelBound(active'[n]) /\ active'[n].abi = k /\ active'[n].target = NoTarget
    BY <2>1, <2>3, ServesIs
  <2>5. ActiveDriver(n, k)'
    BY <2>1, <2>4 DEF ActiveDriver, KernelBound
  <2> QED
    BY <1>2, <1>3, <2>5 DEF HasDir
<1>6. CASE kernels'[n] # {k}
  BY <1>2, <1>3, <1>4, <1>6 DEF HasDir, Shared
<1> QED
  BY <1>5, <1>6

(* What a step that leaves the mounted bundles alone does to DriverInv. *)
LEMMA SessionDrivers ==
  ASSUME TypeInv, TypeInv', DriverInv, UNCHANGED <<gpu, running, mounted>>,
         \A n \in Dirs : /\ active[n] # NoBuild => active'[n] # NoBuild
                         /\ kernels[n] \subseteq kernels'[n],
         running \in driven' => running \in driven,
         \A r \in driven' \ driven : gpu /\ HasDir(KernelOf[r])'
  PROVE  DriverInv'
<1>1. driven \subseteq Releases /\ driven' \subseteq Releases
  BY DEF TypeInv, HistoryInv
<1>2. \A r \in driven' : gpu /\ HasDir(KernelOf[r])'
  BY <1>1, DriversStay DEF DriverInv
<1>3. ASSUME running \in driven' PROVE Mounts(KernelOf[running])'
  <2>1. Mounts(KernelOf[running]) /\ running \in Releases
    BY <1>1, <1>3 DEF DriverInv
  <2> QED
    BY <2>1, DriversStay DEF Mounts
<1> QED
  BY <1>2, <1>3 DEF DriverInv

LEMMA StageDrivers ==
  ASSUME TypeInv, TypeInv', DriverInv, NEW r \in Releases, Stage(r)
  PROVE  DriverInv'
<1>1. UNCHANGED <<gpu, running, mounted>>
  BY DEF Stage, session
<1>2. CASE UNCHANGED <<bundles, history>>
  BY <1>1, <1>2, SessionDrivers DEF bundles, history
<1>3. CASE /\ Activates(r)
           /\ driven' = IF ComesWithDriver(r) THEN driven \cup {r} ELSE driven
  <2>1. \A n \in Dirs : /\ active[n] # NoBuild => active'[n] # NoBuild
                        /\ kernels[n] \subseteq kernels'[n]
    BY <1>3, StagedBuild, BuildIs DEF Activates
  <2>2. ASSUME ComesWithDriver(r) PROVE gpu /\ HasDir(KernelOf[r])'
    <3>1. CASE r \in Declared /\ HasDriver(r)
      BY <1>1, <1>3, <3>1, DriverActivated
    <3>2. CASE running \in driven /\ KernelOf[r] = KernelOf[running]
      BY <1>1, <2>1, <3>2, DriversStay DEF DriverInv
    <3>3. ~Stranded(r)
      BY <1>3 DEF Activates
    <3> QED
      BY <2>2, <3>1, <3>2, <3>3 DEF ComesWithDriver, Stranded, HasDriver
  <2>3. running \in driven' => running \in driven
    BY <1>3 DEF ComesWithDriver
  <2> QED
    BY <1>1, <1>3, <2>1, <2>2, <2>3, SessionDrivers
<1> QED
  BY <1>2, <1>3, StageCases DEF TypeInv

(* A boot mounts the driver it finds, unless that is what does not mount. *)
LEMMA StartDrivers ==
  ASSUME TypeInv, DriverInv, NEW s \in Slots, Start(s)
  PROVE  DriverInv'
<1>0. PICK r \in Releases : r = slot[s]
  BY DEF Start, TypeInv, OsInv
<1> DEFINE k == KernelOf[r]
<1>1. UNCHANGED <<gpu, active, driven, kernels>> /\ running' = r
  BY <1>0 DEF Start, bundles, history
<1>2. \A x \in driven' : gpu' /\ HasDir(KernelOf[x])'
  BY <1>1 DEF DriverInv, HasDir, ActiveDriver, Shared
<1>3. ASSUME running' \in driven' PROVE Mounts(k)'
  <2>1. PICK n \in Dirs : ActiveDriver(n, k) \/ Shared(n, k)
    BY <1>1, <1>3 DEF DriverInv, HasDir
  <2>2. PICK broken, torn : mounted' = MountFirmware(r, broken, torn)
    BY <1>0 DEF Start
  <2>3. mounted'.broken = broken
    BY <2>2 DEF MountFirmware
  <2>4. CASE Shared(n, k)
    BY <1>1, <2>4 DEF Mounts, Shared
  <2>5. CASE ActiveDriver(n, k) /\ n \in broken
    BY <1>1, <2>3, <2>5 DEF Mounts, ActiveDriver
  <2>6. CASE ActiveDriver(n, k) /\ n \notin broken
    <3>1. /\ active[n] \in Tried(broken) /\ active[n].gpu /\ active[n].abi = k
          /\ active[n].target = NoTarget
      BY <2>6 DEF ActiveDriver, Tried, KernelBound
    <3>2. k # 0
      BY <1>1, KernelAssumption
    <3>3. active[n] \in mounted'.drivers
      BY <2>2, <3>1, <3>2 DEF MountFirmware, FitsKernel
    <3> QED
      BY <3>1, <3>3 DEF Mounts
  <2> QED
    BY <2>1, <2>4, <2>5, <2>6
<1> QED
  BY <1>1, <1>2, <1>3 DEF DriverInv

LEMMA BootDrivers ==
  ASSUME TypeInv, TypeInv', DriverInv, NEW healthy \in BOOLEAN, BootSuccess(healthy)
  PROVE  DriverInv'
BY SessionDrivers DEF BootSuccess, bundles, history

LEMMA ConfirmDrivers ==
  ASSUME TypeInv, TypeInv', DriverInv, NEW n \in Dirs, NEW clean \in BOOLEAN,
         FirmwareConfirm(n, clean)
  PROVE  DriverInv'
<1>1. UNCHANGED <<gpu, running, mounted, driven, kernels>>
  BY DEF FirmwareConfirm, session, history
<1>2. \A m \in Dirs : active[m] # NoBuild => active'[m] # NoBuild
  BY DEF FirmwareConfirm, Restored, TypeInv, BundleInv, Placed
<1> QED
  BY <1>1, <1>2, SessionDrivers

LEMMA DriverInit ==
  ASSUME Init, TypeInv
  PROVE  DriverInv
<1> DEFINE k == KernelOf[Factory]
<1>1. /\ driven = IF gpu /\ \E n \in Dirs : k \in kernels[n] THEN {Factory} ELSE {}
      /\ running = Factory /\ Factory \in Releases
      /\ mounted = MountFirmware(Factory, {}, {})
      /\ \A n \in Dirs : kernels[n] = IF active[n] = NoBuild THEN {} ELSE Serves(active[n])
  BY ReleaseAssumption DEF Init
<1>2. CASE driven = {}
  BY <1>2 DEF DriverInv
<1>3. CASE driven # {}
  <2>1. PICK n \in Dirs : k \in kernels[n]
    BY <1>1, <1>3
  <2>2. driven = {Factory} /\ gpu
    BY <1>1, <1>3
  <2>3. CASE kernels[n] = {k}
    <3>1. active[n] # NoBuild /\ active[n] \in Builds /\ Serves(active[n]) = {k}
      BY <1>1, <2>3 DEF TypeInv, BundleInv, Placed
    <3>2. KernelBound(active[n]) /\ active[n].abi = k /\ active[n].target = NoTarget
      BY <1>1, <3>1, ServesIs
    <3>3. active[n] \in Tried({}) /\ k # 0 /\ active[n].gpu
      BY <1>1, <3>1, <3>2, KernelAssumption DEF Tried, KernelBound
    <3>4. active[n] \in mounted.drivers
      BY <1>1, <3>2, <3>3 DEF MountFirmware, FitsKernel
    <3> QED
      BY <1>1, <2>2, <3>1, <3>2, <3>3, <3>4 DEF DriverInv, HasDir, ActiveDriver, Mounts
  <2>4. CASE kernels[n] # {k}
    BY <1>1, <2>1, <2>2, <2>4 DEF DriverInv, HasDir, Mounts, Shared
  <2> QED
    BY <2>3, <2>4
<1> QED
  BY <1>2, <1>3

(* Whichever release boots, after any stagings, failed trials, picks,      *)
(* probes and mounts that fail, has the driver of its kernel, as long as   *)
(* no other build came into that driver's directory.                       *)
THEOREM KernelHasDriver == Spec => []DriverFollowsKernel
<1>1. TypeInv /\ DriverInv /\ [Next]_vars => DriverInv'
  <2> SUFFICES ASSUME TypeInv, DriverInv, [Next]_vars PROVE DriverInv'
    OBVIOUS
  <2>1. TypeInv'
    BY TypeNext
  <2>2. ASSUME NEW r \in Releases, Stage(r) PROVE DriverInv'
    BY <2>1, <2>2, StageDrivers
  <2>3. CASE LoaderBoot
    BY <2>3, StartDrivers, BootSlot DEF LoaderBoot
  <2>4. ASSUME NEW s \in {"active", "prev"}, ChooserBoot(s) PROVE DriverInv'
    BY <2>4, StartDrivers DEF ChooserBoot, Slots
  <2>5. ASSUME NEW healthy \in BOOLEAN, BootSuccess(healthy) PROVE DriverInv'
    BY <2>1, <2>5, BootDrivers
  <2>6. ASSUME NEW n \in Dirs, NEW clean \in BOOLEAN, FirmwareConfirm(n, clean) PROVE DriverInv'
    BY <2>1, <2>6, ConfirmDrivers
  <2>7. CASE UNCHANGED vars
    BY <2>1, <2>7, SessionDrivers DEF vars, bundles, session, history
  <2> QED
    BY <2>2, <2>3, <2>4, <2>5, <2>6, <2>7 DEF Next
<1>2. DriverInv => DriverFollowsKernel
  BY DEF DriverInv, Mounts, ActiveDriver, KernelBound, DriverFollowsKernel
<1> QED
  BY <1>1, <1>2, TypeInit, TypeNext, DriverInit, PTL DEF Spec

-----------------------------------------------------------------------------
(* The overlay loop. *)

LEMMA LeastNatural ==
  ASSUME NEW T, T \subseteq Nat, T # {}
  PROVE  \E x \in T : \A y \in T : x <= y
<1>1. IsWellFoundedOn({p \in Nat \X Nat : p[1] < p[2]}, Nat)
  BY NatLessThanWellFounded DEF OpToRel
<1>2. PICK x \in T : \A y \in T : <<y, x>> \notin {p \in Nat \X Nat : p[1] < p[2]}
  BY <1>1, WFMin
<1>3. ASSUME NEW y \in T PROVE x <= y
  <2>1. ~(y < x)
    BY <1>2
  <2> QED
    BY <2>1
<1> QED
  BY <1>3

(* One round of the loop, given the rounds before it. *)
Round(r, broken, f, n) ==
  IF n = 0 THEN [t \in Targets |-> NoBuild]
  ELSE IF active[n] = NoBuild \/ n \in broken THEN f[n - 1]
       ELSE MountOverlay(r, f[n - 1], active[n])

Rounds(r, broken) == CHOOSE f : f = [n \in 0..Names |-> Round(r, broken, f, n)]

LEMMA OverlaysIsRounds ==
  ASSUME NEW r, NEW broken
  PROVE  Overlays(r, broken) = Rounds(r, broken)[Names]
BY Zenon DEF Overlays, Rounds, Round

(* The loop has a result: a least number of directories for which it had   *)
(* none could not be 0, and would follow one for which it has.             *)
LEMMA RoundsExist ==
  ASSUME NEW r, NEW broken
  PROVE  Rounds(r, broken) = [n \in 0..Names |-> Round(r, broken, Rounds(r, broken), n)]
<1> DEFINE R(f, n) == Round(r, broken, f, n)
           Upto(m) == \E f : f = [n \in 0..m |-> R(f, n)]
           Bad == {m \in Nat : ~Upto(m)}
<1>1. \A f, g : \A n \in Nat : n = 0 \/ f[n - 1] = g[n - 1] => R(f, n) = R(g, n)
  BY DEF Round
<1> HIDE DEF R
<1>2. SUFFICES ASSUME Bad # {} PROVE FALSE
  <2>1. Upto(Names)
    BY <1>2, NamesAssumption
  <2> QED
    BY <2>1, Zenon DEF Rounds, R
<1>3. PICK m \in Bad : \A k \in Bad : m <= k
  BY <1>2, LeastNatural
<1>4. m # 0
  <2>1. ASSUME m = 0 PROVE FALSE
    <3> DEFINE g == [n \in 0..0 |-> R(<<>>, n)]
    <3>1. \A n \in 0..0 : n \in Nat /\ n = 0
      OBVIOUS
    <3>2. g = [n \in 0..0 |-> R(g, n)]
      BY <1>1, <3>1
    <3> QED
      BY <2>1, <3>2
  <2> QED
    BY <2>1
<1>5. PICK f : f = [n \in 0..(m - 1) |-> R(f, n)]
  <2>1. m - 1 \in Nat /\ m - 1 \notin Bad
    BY <1>3, <1>4
  <2> QED
    BY <2>1
<1> DEFINE g == [n \in 0..m |-> R(f, n)]
<1>6. \A n \in 0..(m - 1) : g[n] = f[n]
  BY <1>3, <1>5
<1>7. \A n \in 0..m : R(g, n) = R(f, n)
  <2>1. \A n \in 0..m : n \in Nat /\ (n # 0 => n - 1 \in 0..(m - 1))
    BY <1>3
  <2> QED
    BY <1>1, <1>6, <2>1
<1>8. g = [n \in 0..m |-> R(g, n)]
  BY <1>7
<1>9. Upto(m)
  BY <1>8
<1> QED
  BY <1>3, <1>9

(* What the directories up to n offer for a target, and the newest of it.  *)
UsableUpto(r, t, broken, n) == {b \in Usable(r, t, broken) : b.name <= n}

Newest(x, usable) ==
  IF usable = {} THEN x = NoBuild
  ELSE /\ x \in usable
       /\ \A b \in usable : \/ b.over < x.over
                            \/ b.over = x.over /\ b.name >= x.name

LEMMA NewestRound ==
  ASSUME active \in Placed, NEW r, NEW broken, NEW t \in Targets, NEW n \in Dirs,
         NEW f, Newest(f[n - 1][t], UsableUpto(r, t, broken, n - 1))
  PROVE  Newest(Round(r, broken, f, n)[t], UsableUpto(r, t, broken, n))
<1> DEFINE c == active[n]
           old == f[n - 1][t]
           Before == UsableUpto(r, t, broken, n - 1)
           Now == UsableUpto(r, t, broken, n)
           new == Round(r, broken, f, n)[t]
<1> SUFFICES Newest(new, Now)
  OBVIOUS
<1>1. /\ n \in Nat /\ n # 0 /\ n - 1 \in Nat
      /\ c # NoBuild => c \in Builds /\ c.name = n /\ c.over \in Nat
  BY NamesAssumption, BuildIs DEF Dirs, Placed
<1>2. \A b \in Usable(r, t, broken) :
        b \in Builds /\ b # NoBuild /\ b.over \in Nat /\ b.name \in Nat
        /\ (b.name = n => b = c /\ n \notin broken)
  <2> SUFFICES ASSUME NEW b \in Usable(r, t, broken)
               PROVE  b \in Builds /\ b # NoBuild /\ b.over \in Nat /\ b.name \in Nat
                      /\ (b.name = n => b = c /\ n \notin broken)
    OBVIOUS
  <2>1. PICK k \in Dirs \ broken : b = active[k] /\ b # NoBuild
    BY DEF Usable, Tried
  <2>2. b \in Builds /\ b.name = k
    BY <2>1 DEF Placed
  <2>3. b.name \in Nat /\ b.over \in Nat
    BY <2>2, BuildIs, NamesAssumption DEF Dirs
  <2> QED
    BY <2>1, <2>2, <2>3
<1>3. \A b : b \in Now <=> b \in Before \/ (b \in Usable(r, t, broken) /\ b.name = n)
  BY <1>1, <1>2 DEF UsableUpto
<1>4. \A b \in Before : b \in Usable(r, t, broken) /\ b.name < n
  BY <1>1, <1>2 DEF UsableUpto
<1>5. \A b : b \in Usable(r, t, broken) /\ b.name = n
               <=> c # NoBuild /\ n \notin broken /\ b = c /\ c.target = t /\ OverlayWanted(r, c)
  BY <1>1, <1>2 DEF Usable, Tried
<1>6. CASE c = NoBuild \/ n \in broken
  <2>1. new = old /\ Now = Before
    BY <1>1, <1>3, <1>5, <1>6 DEF Round
  <2> QED
    BY <2>1
<1>7. CASE c # NoBuild /\ n \notin broken /\ ~(c.target = t /\ OverlayWanted(r, c))
  <2>1. new = old /\ Now = Before
    BY <1>1, <1>3, <1>5, <1>7 DEF Round, MountOverlay
  <2> QED
    BY <2>1
<1>8. CASE c # NoBuild /\ n \notin broken /\ c.target = t /\ OverlayWanted(r, c)
  <2>1. Now = Before \cup {c}
    BY <1>3, <1>5, <1>8
  <2>2. new = IF Superseded(c, old) THEN old ELSE c
    BY <1>1, <1>8 DEF Round, MountOverlay
  <2>3. (old = NoBuild /\ Before = {}) \/ old \in Before
    BY DEF Newest
  <2> HIDE DEF c, old, new, Before, Now
  <2>4. CASE old = NoBuild /\ Before = {}
    BY <1>1, <1>8, <2>1, <2>2, <2>4 DEF Newest, Superseded
  <2>5. CASE old \in Before
    <3>1. /\ old # NoBuild /\ old.over \in Nat /\ old.name \in Nat /\ old.name < n
          /\ \A b \in Before : /\ b.over \in Nat /\ b.name \in Nat
                               /\ \/ b.over < old.over
                                  \/ b.over = old.over /\ b.name >= old.name
      BY <1>2, <1>4, <2>5 DEF Newest, Before, old
    <3>2. CASE old.over >= c.over
      BY <1>1, <1>8, <2>1, <2>2, <2>5, <3>1, <3>2 DEF Newest, Superseded
    <3>3. CASE ~(old.over >= c.over)
      BY <1>1, <1>8, <2>1, <2>2, <2>5, <3>1, <3>3 DEF Newest, Superseded
    <3> QED
      BY <3>2, <3>3
  <2> QED
    BY <2>3, <2>4, <2>5 DEF c, old, new, Before, Now
<1> QED
  BY <1>6, <1>7, <1>8

LEMMA OverlaysNewest ==
  ASSUME active \in Placed, NEW r, NEW broken, NEW t \in Targets
  PROVE  Newest(Overlays(r, broken)[t], Usable(r, t, broken))
<1> DEFINE f == Rounds(r, broken)
           Right(n) == Newest(f[n][t], UsableUpto(r, t, broken, n))
           Bad == {n \in 0..Names : ~Right(n)}
<1>1. \A n \in 0..Names : f[n] = Round(r, broken, f, n)
  <2>1. f = [n \in 0..Names |-> Round(r, broken, f, n)]
    BY RoundsExist
  <2> HIDE DEF f
  <2> QED
    BY <2>1
<1>2. \A b \in Usable(r, t, broken) : b.name \in Dirs
  BY BuildIs DEF Usable, Tried, Placed
<1> HIDE DEF f
<1>3. ASSUME Bad # {} PROVE FALSE
  <2>1. PICK n \in Bad : \A k \in Bad : n <= k
    <3>1. Bad \subseteq Nat
      BY NamesAssumption
    <3> QED
      BY <1>3, <3>1, LeastNatural
  <2>2. n \in 0..Names /\ ~Right(n)
    BY <2>1
  <2> HIDE DEF Right
  <2>3. CASE n = 0
    <3>1. f[0][t] = NoBuild
      BY <1>1, <2>2, <2>3 DEF Round
    <3>2. UsableUpto(r, t, broken, 0) = {}
      BY <1>2 DEF UsableUpto, Dirs
    <3> QED
      BY <2>2, <2>3, <3>1, <3>2 DEF Right, Newest
  <2>4. CASE n # 0
    <3>1. n \in Dirs /\ n - 1 \in 0..Names
      BY <2>2, <2>4, NamesAssumption DEF Dirs
    <3>2. Right(n - 1)
      BY <2>1, <2>2, <3>1, NamesAssumption
    <3>3. Newest(Round(r, broken, f, n)[t], UsableUpto(r, t, broken, n))
      BY <3>1, <3>2, NewestRound DEF Right
    <3> QED
      BY <1>1, <2>2, <3>3 DEF Right
  <2> QED
    BY <2>3, <2>4
<1>4. Right(Names)
  BY <1>3, NamesAssumption
<1>5. UsableUpto(r, t, broken, Names) = Usable(r, t, broken)
  BY <1>2, NamesAssumption DEF UsableUpto, Dirs
<1> QED
  BY <1>4, <1>5, OverlaysIsRounds DEF f

LEMMA StartOverlays ==
  ASSUME TypeInv, NEW s, Start(s), NEW t \in Targets \ mounted'.torn
  PROVE  Newest(mounted'.over[t], Usable(running', t, mounted'.broken))
<1>1. PICK broken, torn : mounted' = MountFirmware(slot[s], broken, torn)
  BY DEF Start
<1>2. mounted'.torn = torn /\ mounted'.broken = broken
  BY <1>1 DEF MountFirmware
<1>3. mounted'.over[t] = Overlays(slot[s], broken)[t]
  BY <1>1, <1>2 DEF MountFirmware
<1>4. Newest(Overlays(slot[s], broken)[t], Usable(slot[s], t, broken))
  BY OverlaysNewest DEF TypeInv, BundleInv
<1> QED
  BY <1>2, <1>3, <1>4 DEF Start

(* Each directory of the root that boots shows the newest of its base and  *)
(* all bundles that extend it, however many directories there are.         *)
THEOREM OverlayIsNewest == Spec => NewestOverlay
<1> DEFINE Shown == \A t \in Targets \ mounted'.torn :
                      (mounted' # mounted \/ running' # running) =>
                        Newest(mounted'.over[t], Usable(running', t, mounted'.broken))
<1>1. TypeInv /\ [Next]_vars => [Shown]_vars
  <2> SUFFICES ASSUME TypeInv, Next PROVE Shown
    OBVIOUS
  <2>1. UNCHANGED <<mounted, running>> \/ \E s \in Slots : Start(s)
    BY BootSlot DEF Next, Stage, session, BootSuccess, FirmwareConfirm, LoaderBoot,
                    ChooserBoot, Slots
  <2> QED
    BY <2>1, StartOverlays
<1>2. [Shown]_vars => [\A t \in Targets \ mounted'.torn :
         (mounted' # mounted \/ running' # running) =>
         LET usable == Usable(running', t, mounted'.broken)
         IN  IF usable = {} THEN mounted'.over[t] = NoBuild
             ELSE /\ mounted'.over[t] \in usable
                  /\ \A b \in usable :
                       \/ b.over < mounted'.over[t].over
                       \/ b.over = mounted'.over[t].over /\ b.name >= mounted'.over[t].name]_vars
  BY DEF Newest
<1> QED
  BY <1>1, <1>2, TypeInit, TypeNext, PTL DEF Spec, NewestOverlay
=============================================================================
