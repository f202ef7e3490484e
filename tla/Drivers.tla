------------------------------ MODULE Drivers ------------------------------
(***************************************************************************)
(* Add-on bundles across kernels: a release brings a kernel, and its       *)
(* manifest the driver bundles built for it; staging picks the bundles     *)
(* that fit the machine, the bundles are active at once while the kernel   *)
(* is still to be tried, and the initramfs mounts of them what fits the    *)
(* kernel and the root it has booted, which may be the old ones.           *)
(*                                                                         *)
(* The OS track is the one of AtomUpdate without its crashes: each command *)
(* of the daemon is one step here, and a slot holds a release.  The cuts   *)
(* inside an activation are those of Firmware.                             *)
(***************************************************************************)
EXTENDS Deployment, FiniteSets

CONSTANTS
  KernelOf,     \* the kernel release of each release's kernelcache
  Declared,     \* the releases whose manifest names it (kernel_release)
  Names,        \* how many bundle directories, in the order of their names
  Builds,       \* the bundle images that are published
  Offers,       \* the builds in the manifest of each release
  Targets,      \* the directories that overlay bundles extend
  BaseVersion,  \* BaseVersion[r][t]: .overlay-version of t in the root of r,
                \* 0 for none; t is no directory of that root if not in its domain
  Factory,      \* the release the device is provisioned with
  Provided,     \* the builds it is provisioned with
  MaxStages,    \* bound: stagings
  MaxPicks,     \* bound: choices in the loader's menu
  MaxFaults     \* bound: boots in which a bundle or an overlay does not mount

FW == INSTANCE FirmwareRecord

Dirs == 1..Names
NoBuild == [name |-> 0]
NoTarget == "none"

ASSUME KernelAssumption ==
  KernelOf \in [Releases -> Nat \ {0}] /\ Declared \subseteq Releases
ASSUME NamesAssumption == Names \in Nat

(* A build: its version, whether it names the GPU, the kernels it is       *)
(* declared for (0 unbounded), the kernel in its .kernel-abi (0 without),  *)
(* and the directory and version in its .overlay.                          *)
ASSUME BuildsAssumption ==
  Builds \subseteq [name : Dirs, ver : Nat \ {0}, gpu : BOOLEAN, kmin : Nat,
                    kmax : Nat, abi : Nat, target : Targets \cup {NoTarget}, over : Nat]

ASSUME ReleaseAssumption ==
  /\ Factory \in Releases
  /\ Offers \in [Releases -> SUBSET Builds]
  /\ Provided \in SUBSET Builds
  /\ \A r \in Releases : DOMAIN BaseVersion[r] \subseteq Targets

VARIABLES
  gpu,      \* the machine has the GPU
  wal,      \* deployment.json, the OS track
  fw,       \* deployment.json, the record of each bundle
  boot,     \* the ESP boot-state
  slot,     \* the release in each OS slot
  active,   \* the build in each bundle's active slot
  bak,      \* the build in its backup
  running,  \* the release that has booted
  mounted,  \* what MountFirmware has mounted, and what failed to
  checked,  \* BootSuccess has run in this boot
  driven,   \* history: the releases that a driver for their kernel came with
  kernels,  \* history: for which kernels each bundle directory had a driver
  used      \* the bounded events that have happened

os == <<wal, boot, slot>>
bundles == <<fw, active, bak>>
session == <<running, mounted, checked>>
history == <<driven, kernels>>
vars == <<gpu, os, bundles, session, history, used>>

Spend(what) == used' = [used EXCEPT ![what] = @ + 1]

-----------------------------------------------------------------------------
(* Staging: which bundles the manifest of a release has for this machine.  *)

KernelBound(b) == b.gpu /\ (b.kmin # 0 \/ b.kmax # 0)

MatchesHardware(b, kernel) ==
  /\ b.gpu => gpu
  /\ b.kmin # 0 => kernel >= b.kmin
  /\ b.kmax # 0 => kernel <= b.kmax

(* The manifest has a driver for the release's own kernel. *)
HasDriver(r) == \E b \in Offers[r] : KernelBound(b) /\ MatchesHardware(b, KernelOf[r])

(* CoupledKernelCheck: a new kernel for which the manifest has drivers,    *)
(* but none for the kernel itself.                                         *)
Stranded(r) ==
  /\ r \in Declared /\ KernelOf[r] # KernelOf[running]
  /\ gpu
  /\ \E b \in Offers[r] : KernelBound(b)
  /\ ~HasDriver(r)

RunningKernel(r) == KernelOf[running]  \* a mutant of TargetKernel

TargetKernel(r) == IF r \in Declared THEN KernelOf[r] ELSE KernelOf[running]

Staged(r) == {b \in Offers[r] : MatchesHardware(b, TargetKernel(r))}

BuildFor(r, n) == CHOOSE b \in Staged(r) : b.name = n

PromotesRunning ==
  HasPending(wal) /\ running = wal.pending /\ wal.stableBoots >= 1

(* History: the release brings a driver for the kernel that runs, or any   *)
(* for a new kernel, which CoupledKernelCheck vouches for, or it keeps the *)
(* kernel of a release that came with one.  The running release has what   *)
(* it was booted with.                                                     *)
ComesWithDriver(r) ==
  /\ r # running
  /\ \/ /\ r \in Declared /\ gpu
        /\ \E b \in Offers[r] :
             /\ KernelBound(b)
             /\ KernelOf[r] # KernelOf[running] \/ MatchesHardware(b, KernelOf[r])
     \/ running \in driven /\ KernelOf[r] = KernelOf[running]

(* The kernels a build is a driver of, as it is declared and as it was     *)
(* built; None if it is no driver, or also an overlay.                     *)
Serves(b) ==
  IF ~KernelBound(b) THEN {None}
  ELSE {b.abi} \cup {KernelOf[r] : r \in {q \in Releases : MatchesHardware(b, KernelOf[q])}}
               \cup (IF b.target = NoTarget THEN {} ELSE {None})

Promoted(s) == [active |-> s["next"], prev |-> s["active"], next |-> None]

Stage(r) ==
  LET d == IF PromotesRunning THEN Promote(wal) ELSE wal
      s == IF PromotesRunning THEN Promoted(slot) ELSE slot
      staged == {b.name : b \in Staged(r)}
  IN
  /\ used.stages < MaxStages
  /\ Spend("stages")
  /\ CASE r < d.current \/ Stranded(r) ->
            /\ wal' = d /\ slot' = s
            /\ boot' = IF PromotesRunning THEN ActiveState ELSE boot
            /\ UNCHANGED <<bundles, history>>
       [] ~(r < d.current \/ Stranded(r))
          /\ \E n \in staged : ~FW!AboveFloor(fw[n], BuildFor(r, n).ver) ->
            /\ wal' = d /\ slot' = [s EXCEPT !["next"] = r]
            /\ boot' = IF PromotesRunning THEN ActiveState ELSE boot
            /\ UNCHANGED <<bundles, history>>
       [] OTHER ->
            /\ wal' = StagedDeploy(d, r)
            /\ slot' = [s EXCEPT !["next"] = r]
            /\ boot' = BootStateOf(wal')
            /\ fw' = [n \in Dirs |-> IF n \in staged
                                     THEN FW!DeployFirmware(fw[n], BuildFor(r, n).ver)
                                     ELSE fw[n]]
            /\ active' = [n \in Dirs |-> IF n \in staged THEN BuildFor(r, n) ELSE active[n]]
            /\ bak' = [n \in Dirs |-> IF n \in staged /\ active[n] # NoBuild
                                      THEN active[n] ELSE bak[n]]
            /\ driven' = IF ComesWithDriver(r) THEN driven \cup {r} ELSE driven
            /\ kernels' = [n \in Dirs |->
                 kernels[n] \cup UNION {Serves(b) : b \in {c \in Staged(r) : c.name = n}}]
  /\ UNCHANGED <<gpu, session>>

-----------------------------------------------------------------------------
(* MountFirmware: of the bundles that verify and mount, in the order of    *)
(* their directories, the drivers of this kernel, all plain firmware, and  *)
(* for each directory of the root one overlay.                             *)

(* overlayWanted: the root has the directory, and an older version of it. *)
OverlayWanted(r, b) ==
  b.target \in DOMAIN BaseVersion[r] /\ b.over > BaseVersion[r][b.target]

LastWins(b, old) == FALSE  \* a mutant of Superseded: the directory order decides

Superseded(b, old) == old # NoBuild /\ old.over >= b.over

FitsKernel(r, b) == b.abi = KernelOf[r]

Tried(broken) == {active[n] : n \in Dirs \ broken} \ {NoBuild}

(* What the directories up to n leave to be mounted over each target. *)
MountOverlay(r, overlays, b) ==
  [t \in Targets |-> IF b.target = t /\ OverlayWanted(r, b) /\ ~Superseded(b, overlays[t])
                     THEN b ELSE overlays[t]]

Overlays(r, broken) ==
  LET loop[n \in 0..Names] ==
        IF n = 0 THEN [t \in Targets |-> NoBuild]
        ELSE IF active[n] = NoBuild \/ n \in broken THEN loop[n - 1]
             ELSE MountOverlay(r, loop[n - 1], active[n])
  IN  loop[Names]

(* broken: directories whose bundle does not verify or mount, and is       *)
(* skipped; torn: targets whose overlay is not mounted in the end.         *)
MountFirmware(r, broken, torn) ==
  LET plain == {b \in Tried(broken) : b.target = NoTarget}
      over == Overlays(r, broken)
  IN  [drivers |-> {b \in plain : b.abi # 0 /\ FitsKernel(r, b)},
       firmware |-> {b \in plain : b.abi = 0},
       over |-> [t \in Targets |-> IF t \in torn THEN NoBuild ELSE over[t]],
       broken |-> broken, torn |-> torn]

-----------------------------------------------------------------------------
(* The loader and the initramfs. *)

OnTrial == boot.target = "next" /\ boot.trial /\ boot.attempts > 0

LoaderSlot == IF OnTrial /\ slot["next"] # None THEN "next" ELSE "active"

Start(s) ==
  /\ slot[s] # None
  /\ running' = slot[s]
  /\ checked' = FALSE
  /\ \E broken \in {{}} \cup {{n} : n \in Dirs}, torn \in {{}} \cup {{t} : t \in Targets} :
       /\ broken = {} \/ torn = {}
       /\ mounted' = MountFirmware(slot[s], broken, torn)
  /\ UNCHANGED <<gpu, wal, slot, bundles, history>>

Unharmed == mounted'.broken = {} /\ mounted'.torn = {}

LoaderBoot ==
  /\ Start(LoaderSlot)
  /\ boot' = IF OnTrial THEN [boot EXCEPT !.attempts = @ - 1] ELSE boot
  /\ IF Unharmed THEN UNCHANGED used ELSE used.faults < MaxFaults /\ Spend("faults")

ChooserBoot(s) ==
  /\ used.picks < MaxPicks
  /\ Spend("picks")
  /\ Start(s)
  /\ Unharmed
  /\ UNCHANGED boot

-----------------------------------------------------------------------------
(* The daemon: the OS track, then a probe of each pending bundle. *)

BootSuccess(healthy) ==
  /\ ~checked
  /\ checked' = TRUE
  /\ LET good == RecordGoodBoot(wal)
         failed == RecordFailedBoot(wal, boot)
         cleaned == [slot EXCEPT !["next"] = None]
     IN  CASE ~HasPending(wal) ->
                boot' = ActiveState /\ slot' = cleaned /\ wal' = wal
           [] HasPending(wal) /\ ~healthy -> UNCHANGED os
           [] HasPending(wal) /\ healthy /\ IdentityConfirmed(wal, running) ->
                /\ wal' = good
                /\ boot' = BootStateOf(good)
                /\ slot' = IF ReachesThreshold(wal) THEN Promoted(slot) ELSE slot
           [] OTHER ->
                /\ wal' = failed
                /\ boot' = BootStateOf(failed)
                /\ slot' = IF HasPending(failed) THEN slot ELSE cleaned
  /\ UNCHANGED <<gpu, bundles, running, mounted, history, used>>

Restored(n) == IF bak[n] = NoBuild THEN active[n] ELSE bak[n]

(* FirmwareBootConfirm of one candidate, or of all one after another, as   *)
(* often as the caller likes and with the result the caller has.           *)
FirmwareConfirm(n, clean) ==
  /\ FW!HasPending(fw[n])
  /\ IF clean
     THEN /\ fw' = [fw EXCEPT ![n] = FW!RecordProbe(@)]
          /\ bak' = IF FW!Promotes(fw[n]) THEN [bak EXCEPT ![n] = NoBuild] ELSE bak
          /\ UNCHANGED active
     ELSE /\ fw' = [fw EXCEPT ![n] = FW!RollbackFirmware(@)]
          /\ active' = [active EXCEPT ![n] = Restored(n)]
          /\ bak' = [bak EXCEPT ![n] = NoBuild]
  /\ UNCHANGED <<gpu, os, session, history, used>>

-----------------------------------------------------------------------------
Given(n) == {b \in Provided : b.name = n /\ (b.gpu => gpu)}

Init ==
  /\ gpu \in BOOLEAN
  /\ wal = New(Factory)
  /\ boot = ActiveState
  /\ slot = [active |-> Factory, prev |-> None, next |-> None]
  /\ active = [n \in Dirs |-> IF Given(n) = {} THEN NoBuild ELSE CHOOSE b \in Given(n) : TRUE]
  /\ fw = [n \in Dirs |-> FW!Provisioned(IF active[n] = NoBuild THEN 0 ELSE active[n].ver)]
  /\ bak = [n \in Dirs |-> NoBuild]
  /\ running = Factory
  /\ mounted = MountFirmware(Factory, {}, {})
  /\ checked = FALSE
  /\ kernels = [n \in Dirs |-> IF active[n] = NoBuild THEN {} ELSE Serves(active[n])]
  /\ driven = IF gpu /\ \E n \in Dirs : KernelOf[Factory] \in kernels[n] THEN {Factory} ELSE {}
  /\ used = [stages |-> 0, picks |-> 0, faults |-> 0]

Next ==
  \/ \E r \in Releases : Stage(r)
  \/ LoaderBoot
  \/ \E s \in {"active", "prev"} : ChooserBoot(s)
  \/ \E healthy \in BOOLEAN : BootSuccess(healthy)
  \/ \E n \in Dirs, clean \in BOOLEAN : FirmwareConfirm(n, clean)

Spec == Init /\ [][Next]_vars

-----------------------------------------------------------------------------
(* TypeOK: the variables stay within their types; the record of a bundle   *)
(* and its slot are about the same published versions.                     *)
TypeOK ==
  /\ wal \in Wal /\ boot \in BootStates
  /\ slot \in [{"active", "prev", "next"} -> Releases \cup {None}]
  /\ slot["active"] # None
  /\ fw \in [Dirs -> FW!BundleStates({0} \cup {b.ver : b \in Builds})]
  /\ \A n \in Dirs : {active[n], bak[n]} \subseteq {NoBuild} \cup {b \in Builds : b.name = n}
  /\ running \in Releases
  /\ mounted.drivers \cup mounted.firmware \subseteq Builds
  /\ driven \subseteq Releases
  /\ kernels \in [Dirs -> SUBSET ({None} \cup {b.abi : b \in Builds}
                                       \cup {KernelOf[r] : r \in Releases})]

(* DriverFollowsKernel: whichever release boots, the candidate, the one    *)
(* the device falls back to or one chosen by hand, the machine's GPU has   *)
(* the driver for that release's kernel, if the release came with one and  *)
(* it mounts: CoupledKernelCheck, the choice of bundles at staging and the *)
(* one at mount agree, and neither an update nor a failed probe takes the  *)
(* driver away; unless another build came into the driver's directory, of  *)
(* another kernel or none, which nothing in the code prevents: then that   *)
(* directory is this kernel's no more.                                     *)
Shared(n, kernel) == kernel \in kernels[n] /\ kernels[n] # {kernel}

DriverFollowsKernel ==
  running \in driven =>
    \/ \E b \in mounted.drivers : b.gpu /\ b.abi = KernelOf[running]
    \/ \E n \in mounted.broken : active[n] # NoBuild /\ active[n].gpu
    \/ \E n \in Dirs : Shared(n, KernelOf[running])

(* NewestOverlay: each directory of the booted root shows the newest of    *)
(* its base and all bundles that extend it, the first by name among equals.*)
Usable(r, t, broken) ==
  {b \in Tried(broken) : b.target = t /\ OverlayWanted(r, b)}

NewestOverlay ==
  [][\A t \in Targets \ mounted'.torn :
       (mounted' # mounted \/ running' # running) =>
       LET usable == Usable(running', t, mounted'.broken)
       IN  IF usable = {} THEN mounted'.over[t] = NoBuild
           ELSE /\ mounted'.over[t] \in usable
                /\ \A b \in usable :
                     \/ b.over < mounted'.over[t].over
                     \/ b.over = mounted'.over[t].over /\ b.name >= mounted'.over[t].name]_vars
=============================================================================
