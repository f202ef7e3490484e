# Verification of Atom Loops

Atom Loops updates a device in A/B slots: root filesystem and kernel, the UEFI
loader, the recovery image and add-on bundles of drivers and firmware. This
directory holds TLA+ models of it, the TLC runs that check them on small
instances and TLAPS proofs of the invariants that matter most. Definitions
carry the names of the source where TLA+ allows it; `PROJECT.json` gives, for
every definition that models code, the lines it stands for.

## The system

A device keeps its durable state in different files, written by different
programs:

| state | file | written by | read by |
| --- | --- | --- | --- |
| the WAL | `deployment.json` (+ `.bak`) | daemon, CLI, update server | the same |
| the boot-state | `boot-state` on the ESP | daemon, update server; loader (attempts only) | loader, daemon |
| kernelcache slots | `kernelcache-{active,next,prev}.efi` (+ `.sig`) on the ESP | daemon, update server | loader |
| rootfs slots | `rootfs-{active,next,prev}.erofs` (+ `.hash`) | daemon, update server | initramfs |
| loader candidate | `loader-candidate`, `loader-ran`, `loader-failed` on the ESP | update server, daemon; the candidate itself (`loader-ran`) | daemon |
| recovery slot | `kernelcache-recovery.efi`, its `.sig`, and a backup pair, on the ESP | update server, daemon (repair) | loader |
| bundle slots | `firmware/<bundle>/firmware-{active,next}.img`, hash tree, manifest and its signature (+ `.bak`) | update server, `firmware-confirm` | initramfs |
| anti-rollback counter | TPM NV index, or a file | daemon | loader (TPM only), daemon |
| update status | `/run` status file | update server, `updated poll` | the same, clients |

No transaction spans two of them. What can go wrong is mostly in the order of
the writes, in what a power loss between two of them leaves behind, in who
believes which copy, and in two processes that share no lock.

### Components

**Deployment WAL** (`internal/deployment`). State: current, pending, rollback and
last_known_good release, boot attempts, stable boots, kernelcache versions,
counter value, a record per firmware bundle. Operations: `Deploy`,
`RecordGoodBoot`, `PromoteRunning`, `Rollback`, `DecrementBootAttempt`, the
firmware transitions, `Load`, `Save`. Hard: fields that must move together; a
crash inside `Save`. Correct when: the fields agree, only a release that proved
itself becomes current or last_known_good, `Load` always gives the state of one
`Save`.

**OTA daemon** (`internal/otad`, `cmd/atomd`). `BootSuccess` at every start
(health gate, identity check, good boot, promotion, rollback, counter, then the
loader candidate and the recovery slot), `Stage`, `Rollback`, `Deploy` and
`firmware-confirm` as commands. Hard: power loss between any two writes, failing
downloads, restarts, staging over a candidate in flight. Correct when: the
device can always boot, ends on the release the WAL names, and every update ends.

**UEFI loader** (`loader/src/main.zig`). Reads the boot-state, spends one attempt
of a trial, tries slots in a cascade, checks signature and version floor.
Correct when: a candidate is tried no more often than its budget, and there is
always something to chain.

**Initramfs** (`boot`, `cmd/atom-init`). Waits for boot media, pairs root images
with hash trees, maps the pair the signed root hash names, keeps or releases the
data partition, mounts, hands over or goes to rescue. Hard: disks that come up
late and in any order, other installations on the machine, two slots side by
side. Correct when: it boots the root that the hash names and touches nothing of
another installation.

**Loader update** (`internal/otad/loader.go`) and **recovery slot**
(`internal/otad/recovery.go`): two more candidates that pass through the
kernelcache-next slot and the boot-state of the OS update. Hard: the slots they
share, a pair of files swapped one at a time. Correct when: only a loader that
started is installed, a hanging one costs one boot, and the recovery image keeps
its signature.

**Firmware track** (`fwanchor.go`, `hwselect.go`, `boot/firmware.go`): bundles
chosen for the hardware, activated at once, mounted at the next boot if their
files agree and fit the kernel, promoted or rolled back by probes. Hard: cuts
inside an activation, a bundle for a kernel that did not come up. Correct when:
floors name only versions that worked, the last good files survive, and each
kernel finds its driver.

**Update server** (`cmd/updated`). A status store, a status file that the timer's
separate process also writes, a staging lock, one reboot claim. Hard: checks,
downloads, polls and reboots interleave; the server may die. Correct when: the
status never promises what was not staged, nothing is staged that the user did
not ask for, an accepted reboot is not disturbed, and nothing hangs for ever.

**Recovery server** (`internal/recovery`): status, history and `POST /rollback`.

**Manifest and trust** (`manifest.go`, `internal/trust`): checks of signatures,
certificate windows, revocations and hashes. **Signing tools, audit log,
diagnostics, facade** (`internal/signing`, `cmd/atom-sign`, `internal/audit`,
`internal/diag`, `cmd/sinty-diag`, `atom`): no state that a decision depends on.

### Interaction

    client -> update server --Stage--> next slots, bundles    loader -> initramfs
                  |   (staging lock)        |  WAL               ^          |
              status file                   v                    |          v
                  ^                     boot-state --------------+       daemon
             timer's poll                   ^                     BootSuccess, firmware-confirm
                                            +--- WAL, slots, bundles <------+

## Modules

| module | what it is |
| --- | --- |
| `Deployment` | the OS record and the transitions of `transition.go`, and the pure parts of `BootSuccess` and `writeDeploymentBootState` |
| `AtomUpdate` | loader, initramfs, daemon, commands, power loss over the shared files of the OS update; extends `Deployment` |
| `WalRegister` | what users of the WAL may rely on: a register that survives crashes |
| `WalStore` | `Load` and `Save` over two files; implements `WalRegister` |
| `EspTracks` | OS, loader and recovery updates over one ESP, by two processes; extends `Deployment` |
| `FirmwareRecord` | the record of a bundle and its transitions |
| `Firmware` | staging, activation, probes and rollback of bundles, file by file; extends `FirmwareRecord` |
| `Drivers` | bundles across kernels: the OS track (`Deployment`) and the records (`FirmwareRecord`) together, from staging to what is mounted |
| `UpdateServer` | the threads of `updated serve` and the process of `updated poll` |
| `Initramfs` | the `boot` package as the initramfs runs it |
| `MC*` | instances for TLC: release sets, a machine's disks, published bundles; `MCEspTracks` also states two claims the code does not keep |
| `DeploymentProofs`, `AtomUpdateProofs`, `WalStoreProofs`, `EspTracksProofs`, `FirmwareProofs`, `DriversProofs`, `UpdateServerProofs`, `InitramfsProofs` | the theorems |

Each module takes one part at the grain its hazards need and the others coarsely:
`AtomUpdate` has the four files of the OS slots apart and one operation at a
time; `EspTracks` takes the kernelcache pair for the four and lets two processes
work; `Drivers` has one step per command, since what it asks is which build is
mounted under which kernel.

### How AtomUpdate corresponds to the code

*Releases* are numbers: the code derives the kernelcache version from the label
of the release, so the two are one number. `RootOf` gives each release its
dm-verity root hash, which two releases may share. A slot file holds the release
(kernelcache, signature) or the root hash (image, hash tree) it was published
for, `None`, or `Garbage`, a download whose checksum is wrong.

*Operations* of the daemon are chains of durable steps, each an action. `op`
holds the operation, its next step, the file a loop is at and `copy`, the
in-memory `*Deployment` that will be saved. The order of steps is that of the
source:

| operation | steps |
| --- | --- |
| `BootSuccess`, no candidate | reconcile counter, boot-state, remove -next |
| `BootSuccess`, good boot | boot-state, WAL |
| `BootSuccess`, promotion | per file: skip, or active to prev and next to active; boot-state, WAL, remove -next, counter |
| `BootSuccess`, fallback boot | boot-state, WAL, remove -next if rolled back |
| `promoteRunningCandidate` | as the promotion, without the counter |
| `stage` | the former if a confirmed candidate runs; downgrade check; four downloads; WAL; boot-state |
| `Rollback` | boot-state, WAL |
| `Deploy` | WAL |

`PowerOff` may come before, between or after any of them; `op` is lost and the
files stay. `DaemonFails` ends an operation at any step and lets the session go
on: an I/O error, a killed daemon, a firmware bundle that does not verify.
`FetchError`, `FetchCorrupt` and `RejectFile` are the failing downloads, with the
files each one takes down. The counter's write may fail at each of its uses.
Health checks pass for the releases in `Good` (`BootUnhealthy` lets them fail
once as a fault) and fail for the others, which may also hang or reset.

`LoaderBoot` is the loader's `main` and the initramfs in one step: nothing
durable happens in between other than the attempt the loader writes first.
`ChooserBoot` is the slot menu.

The files linked by `linkFileSync` are in `linked`: the rootfs is installed as a
hard link of -next, and `sameFileIdentity` recognises it when a promotion is
repeated. A new download is a new inode.

`proven`, `boots` and `tries` are history: they record which releases passed the
health gate while running, how many boots confirmed the candidate, how many trial
boots were spent since the budget was last earned. No action reads them.

*Simplifications.*

- One operation runs at a time. Daemon and update server may overlap in the code,
  which is what `EspTracks` is about.
- Saving the WAL is one step. `WalStore` shows what that rests on: `Save` is
  atomic where directories are synced. A `Save` cut between its two renames can
  still take effect later if the primary is damaged after that (`Commit` of
  `WalRegister`); `AtomUpdate` does not repeat that double fault. Two Saves of two
  processes that interleave rename by rename are in no module.
- Replacing one slot file or the boot-state is one step (temporary file, fsync,
  rename). The loader's write of the boot-state always succeeds, though the code
  ignores its errors.
- What the no-candidate branch of `BootSuccess` does for the loader candidate and
  the recovery slot is in `EspTracks`, what a staging does for bundles in
  `Firmware` and `Drivers`.
- The recovery image always verifies and is no release; booting it ends in mode
  `recovery`, where a rollback can be asked for.

### How EspTracks corresponds to the code

`next` is the kernelcache-next pair that all tracks download into: it may hold an
OS, a loader or nothing of either. `op[p]` is the operation of the process `p`
(daemon or update server) and its next step; `After` gives, for each operation,
the order of steps of the source: `BootSuccess` with no candidate (`stable`), with
one (`confirm`), a staging of the OS (`prepare`, then `os`), of a loader
(`loader`) and of the recovery (`recovery`). Each step is one file written,
renamed or removed, or one save. `copy` is the WAL as the operation loaded it: a
save writes it back over whatever another process saved in between.

`Overlap` lets an operation start while the other process is in one. It is FALSE
in the run `tracks`, which asks what holds between tracks when the processes take
turns, and TRUE in the run `race_promote`, which shows what does not hold when
they do not. No lock of the code excludes the overlap: the staging lock is taken
by `updated` alone.

The four slot files are one image and its signature here. A promotion
(`PromoteNext`) is one step that takes each of the two as `PromoteSlots` does: an
empty -next file is skipped, and so is one that is in place already. Its cuts are
those of `AtomUpdate`. A loader candidate either starts
(`Starting`), leaves `loader-ran` and goes on to the stable cascade, or hangs.

### How Firmware, FirmwareRecord and Drivers correspond to the code

`Firmware` follows one bundle file after another: `StageSaves` is the WAL save
with the versions of the manifest, `KeepActive` and `InstallNext` the two renames
of `ActivateFirmwareSlot` per file, `RestoreBackup` one file of
`RollbackFirmwareSlot`, `DropBackup` one of `FinalizeFirmwareSlot`. `Boot` mounts
a bundle if its image, hash tree, manifest and signature are of one version.
`ConfirmBegins` is `firmware-confirm` for one bundle or for all that are pending,
which `FirmwareBootConfirmAll` takes in the order of their names. Its result and
its number of calls are the caller's: the model has any result, as often as one
likes in one boot, mounted candidate or not, since neither command nor daemon
looks at what is mounted or at when it was called last.

The comment on `FirmwareBootConfirmAll` (`otad.go:305`) speaks of a coarse probe,
"any firmware overlay mounted". With it a bundle whose activation was cut counts as
clean and is promoted although this boot never mounted it. Then its backups, the
last whole firmware, are dropped, and the floor has been raised by a version that
never ran. `blind` is the history of that: the bundles whose last promotion was in a
boot that had not mounted the candidate, as `recent` (staged since this boot) and
`mounted` tell. `GoodKept` and `FloorKept` say nothing of these bundles, because
nothing in the code keeps them; `ProvenFloor` is about probes as they were reported
and holds for all. `clean` counts these reports per version since it was staged.

`Drivers` puts the OS record and the bundle records side by side at one step per
command. `MatchesHardware`, `Stranded` (`CoupledKernelCheck`) and `TargetKernel`
are the choice at staging; `Tried`, `FitsKernel`, `OverlayWanted` and `Superseded`
the one at mount. The loop of `MountFirmware` goes over the directories once;
only for overlays does its order matter, so only they are a recursion (`Overlays`).
`FirmwareConfirm` takes one bundle at a time, any number of times and with any
result. `driven` is history: the releases of which the code says that their driver
came with them. So is `kernels`: the kernels for which a bundle directory was ever
given a build (`Serves`: those it is declared for, the one in its `.kernel-abi`, or
none). A directory is `Shared` when it served another kernel besides; nothing in the
code prevents that, and `DriverFollowsKernel` excepts it. Left out or coarse:
crashes (in `AtomUpdate` and `Firmware`), overlay targets nested in each other, the
expiry of a bundle's certificate, kernel versions other than as numbers; in one
boot at most one bundle or overlay fails to mount. A refusal by the floor comes
after the -next files were replaced, which the model keeps.

### How UpdateServer corresponds to the code

Each goroutine is a thread with a program counter: `GET /check` requests, download
goroutines, the startup check, the timer's process, a loader staging and a
reboot. A step is one section of `statusStore`'s mutex, one call to the feed, one
attempt at the flock. `file` is the status file, `live` and `advertised` the
fields of the store, `Shown` what `currentLocked` returns. `publishPoll` keeps a
running download and a ready update; the timer is a process with a store of its
own, so that reading the file and writing it are two steps. `flock` dies with the
process (`ServerRestarts`); a boot also empties `/run`. A manifest is its release
number: the digest that binds consent to staging differs exactly when the number
does. What a staging of the OS writes is the business of the other modules: here it
enters `staged`; of the stagings of loader and recovery only the lock is left.

### How Initramfs corresponds to the code

`FindData`, `FindISO`, the two forms of `SelectRoot`, `ReleaseUnrelatedData`,
`MountRoot`, `MountESP` and `SwitchRoot` are the order of `atom-init`'s main.
`TryPair` is one pair of `selectVerified`: it clears what an earlier pair left
open, maps, reads, and closes again if that fails. Both closes can fail, as the code
ignores their error, and then the mapping stays in the way of the next pair;
`stuck` counts these failures. `Score` and `Before` are `rankPairs`. Volumes are
partitions, or files on a partition that stand for their loop devices; a mapping
reads when image, tree and hash are of one release. `bytes` is the size of the
device: that of a loop device is the size of its image, that of a partition any,
so a raw partition with the wrong image may score as high as the right one
(`SizeFits`). The first data partition found is kept through all tries, as in the
code. A loop device is on no disk: `RootDisk` finds the disk of a slot through its
data partition, as `MountESP` does. A disk's partitions appear together and never
go away. Of the mapping that `selectUnlocked` probes a slot with, a failure is
modelled as the slot not being opened. `PortablePart` and mode `portable` are
features of the `boot` package that `atom-init` does not use. `MountFirmware` is in
`Drivers`. Errors of a system call are faults, bounded by `MaxFaults`.

## Runs

For the OS update three releases: 1 is the factory image, 2 is good, 3 fails its
health gate. In `MCRootOf` release 2 shares the rootfs of 1 (a kernel-only
update); in `MCOwnRoots` each has its own.

| run | question | instance |
| --- | --- | --- |
| `one_update` | `NeverBricked`, `BootsCurrent`, `FloorAdmitsActive` | budget and threshold 3 as in the code, one staging, four faults, two restarts |
| `commands` | `TypeOK`, `CoherentWal`, `ProvenFallback`, `FloorBehindWal`, `TrialBudget` | budget and threshold 2, two stagings, two faults, a restart, a manual pick, a rollback, a deploy; also WALs provisioned without last_known_good |
| `settles` | `Settles` | one staging, one fault, restart, pick, rollback; fair |
| `wal_store` | `AlwaysReadable`, `SavedSurvives`, `NeverBack`, `ImplementsRegister` | four Saves, any number of power losses and damages; directories are synced |
| `tracks` | `InstalledStarted`, `TriedOnce`, `RecoveryKept`, `ActiveProven`, `CandidateEnds` | three stagings of OS, loader or recovery, two faults, a restart; a loader that hangs; processes take turns; fair |
| `firmware` | `TypeOK`, `ProvenFloor`, `FloorKept`, `GoodKept`, `Resolved` | two bundles at three versions; releases that move both, the first or the second; staged together, apart and over each other; any number of probes with any result; one fault; fair |
| `drivers` | `TypeOK`, `DriverFollowsKernel`, `NewestOverlay` | five releases on two kernels, four bundle directories, one of which a release gives to another kernel; two stagings, a pick, any probes, a mount that fails; machines with and without the GPU |
| `server` | `ReadyIsStaged`, `StagedWasConsented`, `QuietReboot`, `ReadyKept` | a feed of two releases, a check, two downloads, timer, loader staging, reboot, any number of restarts |
| `server_live` | `TypeOK`, `DownloadSettles`, `LockReturns` | one release, one download, the startup check with two attempts; fair |
| `initramfs` | `TypeOK`, `Sealed`, `FindsRoot`, `SignedSlot`, `OwnData`, `EspOfRoot`, `RightFirst` | 17 volumes on three disks and an optical drive that come up in any order, partitions larger than their image, all modes, locked and unlocked, two tries, one fault |
| `failed_untried` | `FailedWasTried` is violated | two stagings, a restart, no fault |
| `race_promote` | `UncommittedNotBootable` is violated | two stagings, a restart, no fault; operations overlap |

Bounds, and why they are enough.

*OS update.* The state of a device between two updates differs from the initial
one only in release numbers, slot leftovers and the counter, so two stagings
reach every pair (an update over a clean device, over the leftovers of another,
over a candidate in flight); three releases allow an upgrade, a same-root
upgrade, a bad release and a re-staging of the current one. Budget 2 keeps a
first, a repeated and a last attempt apart; the run with 3 is there because a
promotion needs three good boots in the code and `NeverBricked` counts spare
attempts. It is about fewer faults than spare attempts: with as many, resets
spend the budget while a promotion has one file of the active pair replaced, and
only recovery is left. `BootsCurrent` holds where nothing asks for a rollback by
hand.

*Tracks.* Three stagings are one of each kind in any order, or the same kind over
itself; two faults cut a repair that another cut made necessary. `RecoveryKept` is
about one fault, see below.

*Firmware.* Two bundles show the order of confirmations and a manifest that moves
both or one; three versions an update over a pending one; two stagings a backup
that another left; the threshold 2 a first and a last clean probe, in one boot or
two. `GoodKept` is
about the first update, since a second staging over a cut one moves the backup on,
and `FloorKept` about one fault: two leave a backup below the floor that a later
rollback restores. Both leave out the bundles in `blind`.

*Server.* Two downloads are symmetric and are what it takes to have a second
claim beside the first; two releases a feed that changes in between.

*Initramfs.* Each wrong answer has a disk that offers it: slots side by side with
a torn third, a raw partition with the wrong image on the disk of the right pair and
as large as the tree wants, a removable root, a second installation, an optical
medium. `FindsRoot` is about boots with no fault, or none but one failed close of a
mapping, and excepts the slots that another installation, found first, hides
(`root.go:140`). `RightFirst` is about image files, whose size is exact.

`MaxFaults`, `MaxReruns`, `MaxPicks`, `MaxRollbacks`, `MaxDeploys`, `MaxStages`,
`MaxStagings` and `MaxSaves` bound events that nothing in the code bounds; the
proofs do not depend on them. Deadlock is checked in every run but `initramfs`: a
boot ends.

### Fairness

`Settles` needs weak fairness of four things. `LoaderBoot`: firmware starts the
loader of a machine that is switched on. `~checked /\ BootSuccess`: the init
system starts the daemon in each session (`runDaemon` calls it first; restarts
beyond that are not assumed). `DaemonStep`: a handler that has begun runs on.
`Reboot`: someone restarts a machine that hangs, halted, sits in recovery or was
told "reboot to try it". The last one is about people and not about the code,
which never reboots by itself; without it a candidate may stay pending for ever.
Staging, picks, rollbacks, restarts and faults are never assumed to happen.
The factory release passes its health gate: if the old image fails it too, no
boot ever writes the WAL and the candidate stays pending.

`CandidateEnds` (tracks) assumes the same of machine, daemon and running
operations of both processes, and a restart of a machine that waits for one to
try its loader candidate, hangs or sits in recovery. It is about machines that have a
release left to run the daemon from: after a staging over a candidate was cut, the
promotion of what it left can make neither active nor previous slot bootable.

`Resolved` (firmware) assumes that operations that have begun run on (weak
fairness of `DaemonStep`) and that `firmware-confirm` for all that is pending is
called again and again (strong fairness, since stagings and confirmations of one
bundle keep it waiting). With which result is never assumed.

`DownloadSettles` and `LockReturns` (server): every context of a download has a
timeout and every handler returns, hence weak fairness of each thread once it has
begun; the timer fires again and again; its write to a tmpfs does not fail for
ever (strong fairness of `TimerWrites`). No client owes a request.

### Where the code departs from what is said of it

Two runs end in a counterexample; the quotations are in `PROJECT.json`.

`failed_untried`: a loader candidate is judged by `loader-ran` in every run of
`BootSuccess`, also in one before the reboot that would have tried it, and
`StageRecovery` removes the image of a loader staged just before it. Either way
`loader-failed` names a loader that was never handed control, and `StageLoader`
refuses that version from then on.

`race_promote`: `BootSuccess` loads the WAL, waits for health checks and promotes
whatever -next holds by then. A staging that starts in between has replaced it; the
promotion takes its image and signature, and the loader starts that release from
the active slot while the staging still has to fetch the rest and to write its WAL.
Where the staging fails, it stays so. Where it does not, the daemon's copy of
the WAL and the staging's overwrite each other.

More, met while modelling and visible in the modules without a run of their own:

- Staging the next release promotes a candidate after one good boot, and restarts
  of the daemon count as boots (`promote.go:15`, `cmd/atomd/main.go:51`).
- Resets drain the trial budget; the promotion that follows is cut between the
  two files of the kernelcache pair: -next is not tried and active does not
  verify, so recovery boots.
- The pending release is staged again, power goes before the bad download is
  removed, the next promotion installs it. A staging over a candidate, cut after
  its last file, lets the loader boot a release the WAL does not name.
- A second staging whose download fails removes one -next file of the pending
  candidate (`stage.go:96`): `preflightSlots` refuses its promotion at every boot,
  and the candidate is confirmed for ever. `Settles` therefore has one staging.
- `atomd deploy` does not arm the boot-state, so its candidate is rolled back
  without a trial. It can also record, without files, a release that shares its
  rootfs with an older image in the prev slot, and promoting it there can put the
  WAL's counter below the floor: `FloorBehindWal` speaks of the time before the
  first such command.
- After an interrupted promotion a rollback leaves the new image in the active
  slot: it boots, and the WAL names the old one.
- A directory sync that returns EINVAL counts as done (`wal.go:98`): power loss
  then undoes a Save that has returned.
- `PickBootTarget`, described as the single authority for slot selection, is
  called by tests only. `NeedsRecovery` never arms recovery, because `Rollback`
  clears the candidate before the boot-state is chosen (proved:
  `RecoveryNeverArmed`). The initramfs, which several comments describe as
  decrementing attempts and rolling back, never opens the WAL.
- `GET /check` publishes and advertises in two sections (`main.go:566`): a
  download that is claimed in between is offered again and can be claimed again,
  which `main_test.go:143` excludes for requests one after the other. The second
  is refused by the staging lock.
- A failed probe of a bundle's first version restores a backup that does not
  exist (`otad.go:287`, and the comment at 272): the slot keeps the failed
  version and the WAL names none. A cut between WAL and slot does the same to any
  version.
- `fwanchor.go:123` promises "never a torn mix" of anchor files, which are
  renamed one at a time; a mix does not mount, so the bundle is gone until a
  failed probe.
- A driver that keeps one bundle name across kernels, as the tests' "nvidia" does
  (`hwselect_test.go:69`), has one slot for both: once the old kernel boots, its
  failed probe takes the new kernel's driver away. `DriverFollowsKernel`
  excepts such a directory; release 5 of `MCDrivers` makes one.
- A coarse probe (`otad.go:305`) can promote a bundle this boot has not mounted: its
  floor rises although nothing of that version ran, contrary to `transition.go:190`,
  and its last good files are dropped.
- `BuildManifest` never sets `kernel_release` (`signing.go:247`), without which
  neither `CoupledKernelCheck` nor the choice of bundles knows the new kernel.
- A crash in the repair of the recovery slot (`recovery.go:59`), after a crash in
  the swap, leaves the old image with the new signature, and the next repair
  takes the pair for whole.

## Proofs

For every value of the constants:

| module | theorem | states |
| --- | --- | --- |
| `AtomUpdateProofs` | `TypeCorrect` | `TypeOK` |
| | `WalCoherent` | `CoherentWal` |
| | `FallbackIsProven` | `ProvenFallback` |
| | `TrialsBounded` | `TrialBudget` |
| | `FloorNeverAhead` | `FloorBehindWal` |
| | `RecoveryNeverArmed` | the boot-state never names recovery |
| | `AlwaysBoots`, `LoaderFollowsWal`, `FloorAdmits` | `NeverBricked`, `BootsCurrent`, `FloorAdmitsActive`, over one update |
| `WalStoreProofs` | `TypeCorrect`, `LoadNeverFails` | `AlwaysReadable`: Load finds a state, on any file system |
| | `ReturnedSurvives`, `DamageNeverBack`, `WalIsARegister` | `SavedSurvives`, `NeverBack`, `ImplementsRegister`, if directories are synced |
| `EspTracksProofs` | `OnlyStartedInstalled`, `OneTrialPerLoader` | `InstalledStarted`, `TriedOnce`, if processes take turns |
| | `RecoverySurvivesFault`, `OnlyProvenPromoted` | `RecoveryKept`, `ActiveProven`, if processes take turns |
| `UpdateServerProofs` | `ServerTypes`, `LockExcludes` | `TypeOK`: types, and the staging lock is held exactly by the thread in a section it guards; no two are |
| | `ReadyStaged`, `Consented`, `RebootIsQuiet`, `ReadyStays` | `ReadyIsStaged`, `StagedWasConsented`, `QuietReboot`, `ReadyKept` |
| `FirmwareProofs` | `FirmwareTypes`, `FloorIsProven`, `GoodIsKept` | `TypeOK`, `ProvenFloor`, `GoodKept` |
| | `FloorIsKept` | `FloorKept` |
| `DriversProofs` | `DriverTypes`, `OverlayIsNewest` | `TypeOK`, `NewestOverlay` |
| | `KernelHasDriver` | `DriverFollowsKernel`: unless another build came into the driver's directory |
| `InitramfsProofs` | `BootTypes`, `RootIsSealed`, `DataIsOwn`, `EspIsOfRoot` | `TypeOK`, `Sealed`, `OwnData`, `EspOfRoot` |
| | `SlotIsSigned`, `RootIsFound` | `SignedSlot`, `FindsRoot` |
| | `RightPairFirst` | `RightFirst`, for image files |

Assumptions are those named in the modules: releases and root hashes are
positive numbers, `Garbage` is none of them, budget and threshold are positive,
the factory release is healthy; thread names differ; bundles and their versions are
positive numbers; a file lies on a partition, only partitions have labels, an
optical drive has no partitions, and the order of a listing is total.

`DeploymentProofs` states once what each transition of the WAL does to a record:
it stays well typed and coherent (`GoodRecord`), and `Ordered`: the counter is
None or last_known_good, which is not above current, which is not above a
pending version. The invariants of `AtomUpdateProofs` then need one step per
action.

*Types and coherence.* Neither `TypeOK` nor `CoherentWal` is inductive alone. An
operation holds the record it will save in `op.copy`, so `TypeInv` says of that
copy too that it is a good record, and that a device that is off runs no
operation. Coherence and types go together because `RecordGoodBoot` copies
the pending kernel-channel into the current one: that is a value of the right
kind only when the WAL has a candidate.

*Proven fallback.* `ProvenInv` says it of `op.copy` too, and of `rollback`, the
third version that a rollback may fall back to. The step that matters
is `BootConfirmed`: `IdentityConfirmed` makes the running release and the
candidate one, though two releases may share a root hash.

*Trial budget.* `BudgetInv` says what may still reach the loader besides the
boot-state's own attempts: the copy that a fallback boot is about to arm. It
carries no more attempts than the boot-state has left (`FallbackArms`), since
`ReconcileAttempts` never takes the larger of two counts; an operation of a
fallback boot touches no slot (`KindFits`); and a boot-state that names -next is
a trial, while none names recovery (`BootShape`), because a record is rolled back
before it is armed once its attempts are spent. `RecoveryNeverArmed` states that.

*Floor.* `FloorInv` needs the WAL and the copy to be `Ordered`, a copy never to
carry a counter below the WAL's (so a save cannot lower it under the floor), the
copy to be what was saved when the floor advances (`AtWal`), and the release that
`stage` fetches not to be below current (`NotBelow`): its downgrade check. It is
inductive until the first `atomd deploy`, which is what `FloorBehindWal` speaks of.

*One update.* The three invariants above speak of the WAL, the boot-state and the
counter; what can be booted depends on what the eight files of the slots hold.
`OneUpdate` says that one staging has happened at most and nobody has moved a slot
or a version by hand; power losses, failures, restarts, bad downloads and boots
are not bounded. It is needed: a second staging that is cut before its bad
download is removed leaves a file that the next promotion installs (see above).
Up to there a device is in one of three phases. `Before`: the factory image is
whole in -active, and a fetch has filled -next up to its file. `During`: a
candidate of the factory image is pending, -next is whole, and `Between` gives,
file by file, how far a promotion has come over any number of attempts: the roots
that were linked, then the kernelcache, then its signature, each with the old file
in -prev before the new one is in -active. `After`: no candidate is left, and
-active is whole, or is the old pair over the roots a cut promotion replaced. Only
between the two renames of the kernelcache pair is -active no image that boots
(`Exposed`); the loader then has -next as long as trial boots are left, and
`Reserve` shows that they are: a healthy boot earns the budget back, so each trial
boot beyond the first costs a fault. `Control` ties an operation to a session.

*WAL store.* `Ordered` of `WalStoreProofs`: in every combination of contents a
power loss may leave, the backup is not behind the primary, and nothing older
than the last returned Save is left. It holds because the backup's rename is
made durable before the primary is touched. `RegisterStep` maps each step to
`Begin`, `Commit`, `Return`, `PowerLoss` or a stutter of the register.

*Tracks.* The invariant is about turns (`~Overlap`); with overlap it is false, as
`race_promote` shows. `TypeInv` gives each process its kinds of operation, their
steps, and `Turns`: one of them is idle. `TurnsInv` then says what each slot
holds by the step the operation at work is at. `StartedInv`: a mark that a loader
ran, and what -next holds when the daemon installs it, are of a loader that
started. `ClaimsInv`: the copy of the WAL an operation works on has the candidate
the WAL has, and only the staging of an OS brings another in. `TriedInv`: an
attempt that is left belongs to an OS candidate, or is the single one of a loader
that was not handed control yet. `RecoveryInv`: with one fault at most, the recovery
pair is whole or can be restored from its backup, at each rename of the swap and of
the repair. `ProvenInv`: without faults, what -next holds is the pending candidate,
and a counted boot has proved it.

*Update server.* `LockHeld`: the holder of the staging lock is exactly the thread
that is in a critical section, which refused stagings, failed reboots and
restarts keep true; so between a reboot's acceptance and its end nobody can be at
the step that stages. `DownloadOK` says what a download carries at each of its
points: the release the client agreed to until it is staged, and `ready` only for
what was staged. `AnswerOK`: an answer that may still be written to the file,
however late, is never `ready`. `OneThread` reduces a step of one thread to what
it does to that thread, the lock and the file.

*Firmware.* `CountInv` adds to types: one bundle is confirmed at a time
(`OneAtATime`), what a confirmation has still to come to is pending
(`Confirming`), floor and last_known_good are one (`FloorIsGood`), and the count of
a candidate is not above the clean probes reported of it (`Counted`), which is what
staging over a candidate must reset. `FirstUpdate` says, for the first staging and
whatever follows, what each file of a bundle outside `blind` can be: `Files`
relates slot, backup and record, `Turns` what the operation in progress has done so
far, `Newer` that a candidate is above what was installed. A candidate that mounted is
whole in the slot because no activation runs in the boot that mounted it.

`FloorInv` is about any number of stagings over each other, any number of probes and
one fault. `FloorFiles`: candidate, mounted version and every file of the slot are
not below the floor; a backup may be, while a promotion drops it (`Dropping`), and after the
fault that cut this short (`Stale`), until the next activation reaches that file;
no rollback of the bundle runs in between. `Settled` says that a candidate this boot
has mounted, and nobody has staged since (`Running`), is whole in the slot, however
often it is probed; a bundle promoted without that is `blind`.

*Drivers.* `HistoryInv`: `kernels` has every kernel that the builds in slot and
backup of a directory serve. So as long as a directory served one kernel alone,
whatever replaces a driver in its slot, a staging or a rollback, is a driver of that
kernel (`DriversStay`); once it served another it is `Shared` for good. `DriverInv`:
for each release in `driven` there is a directory with its driver active, or a
shared one; and what is mounted for the release that runs has its driver, or a
directory that failed to mount would. `NewestOverlay` speaks of a recursion over
bundle directories: `RoundsExist` shows that it has a result and `NewestRound` what
one round does to it; both go on by the least number of directories for which it
were not so (`LeastNatural`).

*Initramfs.* `MediaOK` says that what is attached belongs to the partition it was
found on, so the two halves of a pair that `SamePairOrigin` admits lie on one disk;
`Progress` what has not been done yet at each point of a boot; `Chosen` and `SlotOK`
what a root that was selected is. `Chosen` also ties the disk of a root to that of
the data partition it lies on, which is what `EspOfRoot` needs of `RootDisk`.
`Hunted` is the part `FindsRoot` needs: while a try runs without a fault, or with
none but one failed close (`OnlyStuck`), a pair that was findable when it began is
still in `left`: the next pair clears the mapping that was left open before it is
mapped itself. `Ranked` and `First` choose a least element, which exists because the
order on Nat is well-founded (`LeastNatural`, `RankedIsFirst`). `RightPairFirst`
needs no assumption on the sizes of different images: a pair that comes before the
right one has the tree the hash names and an image or partition of the size that
tree wants.

Model-checked only: liveness (`Settles`, `CandidateEnds`, `Resolved`,
`DownloadSettles`, `LockReturns`), since fairness is out of the prover's reach;
what the slot files of the OS update hold beyond its first update; `EspTracks` with
overlapping operations, where the invariants do not hold.

## Plan

Left, in this order:

1. The invariants of the first update (`AlwaysBoots`, `LoaderFollowsWal`,
   `FloorAdmits`) for any number of updates without faults in their stagings, and
   the picks in the menu.
2. Two overlapping Saves in `WalStore`, rename by rename.
3. The rules of the trust chain (certificate windows, revocation, manifest checks)
   as operators over small records, and `RepairLoader`.

## Not modelled

- *Manifest and trust chain* and *release signing*: stateless checks and offline
  tools. The modules have the outcome (a manifest is refused, a download is
  corrupt) and not the rules that lead to it.
- *Audit log*, *diagnostics* and the *library facade*: output, a client that only
  reads, and forwarding.
- `RepairLoader` installs any signed loader at once, on the user's request and
  without a trial; `Status`, `History`, version queries and the changelog only
  read.
- The HTTP layer of both servers, the progress of a download, retries of a single
  transfer.
- Kernel interfaces: device-mapper tables, ioctls, `/proc` parsing, partition
  growth, framebuffer, the wire format of the TPM. `Initramfs` and `AtomUpdate`
  have their outcomes, failures included.
