----------------------------- MODULE AtomUpdate -----------------------------
(***************************************************************************)
(* The update cycle of one device: the loader that picks a slot, the       *)
(* initramfs that finds its root, and the daemon (internal/otad) that      *)
(* confirms boots, promotes, rolls back and stages, over the files they    *)
(* share: the WAL, the ESP boot-state, the rootfs and kernelcache slots    *)
(* and the anti-rollback counter.                                          *)
(*                                                                         *)
(* An operation of the daemon is a chain of durable steps (one file each), *)
(* and power can go at any point of it: what is on disk survives, op does  *)
(* not.  One operation runs at a time.  Saving the WAL is one step here.   *)
(***************************************************************************)
EXTENDS Deployment

CONSTANTS
  Factory,        \* the release the device was provisioned with
  InitialLkg,     \* last_known_good of the provisioned WAL
  Garbage,        \* the content of a file that fails its SHA-256
  Good,           \* the releases whose health gate passes
  HardwareFloor,  \* the loader can read the anti-rollback counter (TPM NV)
  MaxStages,      \* bound: stage operations
  MaxFaults,      \* bound: faults (IsFault, DaemonFails, a flaky health gate)
  MaxReruns,      \* bound: BootSuccess runs beyond the first of a session
  MaxPicks,       \* bound: slots picked by hand in the loader's chooser
  MaxRollbacks,   \* bound: atomd rollback and POST /rollback
  MaxDeploys      \* bound: atomd deploy

ASSUME HealthGateOnReleases == Good \subseteq Releases
ASSUME FactoryAssumption == Factory \in Releases /\ Factory \in Good
ASSUME LkgAssumption == InitialLkg \subseteq {Factory, None}
ASSUME GarbageAssumption == Garbage \in Nat \ (Releases \cup Roots \cup {None})
ASSUME FloorAssumption == HardwareFloor \in BOOLEAN
ASSUME BoundAssumption ==
  {MaxStages, MaxFaults, MaxReruns, MaxPicks, MaxRollbacks, MaxDeploys} \subseteq Nat

VARIABLES
  wal,      \* deployment.json
  boot,     \* the ESP boot-state
  slot,     \* slot[s][f]: the content of file f of slot s
  linked,   \* rootfs files whose -next and -active are one inode
  hw,       \* the anti-rollback counter
  mode,     \* what the machine is doing
  running,  \* the release of the running image
  checked,  \* BootSuccess has run in this session
  op,       \* the daemon's operation and its next step
  used,     \* the bounded events that have happened
  proven,   \* history: releases that passed their health gate while running
  boots,    \* history: boots that confirmed the candidate in flight
  tries     \* history: trial boots since the trial budget was last earned

durable == <<wal, boot, slot, linked, hw>>
session == <<mode, running, checked>>
history == <<proven, boots, tries>>
vars == <<wal, boot, slot, linked, hw, mode, running, checked, op, used,
          proven, boots, tries>>

-----------------------------------------------------------------------------
(* Slots, files and operations. *)
RootFiles == {"erofs", "hash"}
KernelFiles == {"efi", "sig"}
Files == RootFiles \cup KernelFiles
Slots == {"active", "next", "prev"}
Contents == Nat

(* What release v publishes as file f. *)
Artifact(v, f) == IF f \in RootFiles THEN RootOf[v] ELSE v

(* PromoteSlots and stage go through the files in this order, *)
(* CleanupNextSlots in the other one.                          *)
NextFile == [erofs |-> "hash", hash |-> "efi", efi |-> "sig", sig |-> "end"]
NextCleaned == [efi |-> "sig", sig |-> "erofs", erofs |-> "hash", hash |-> "end"]

Kinds == {"none", "stable", "confirm", "promote", "fallback", "rollback",
          "stagePromote", "stage"}
Steps == {"idle", "reconcile", "keep", "install", "arm", "save", "clean",
          "advance", "check", "fetch", "reject"}
Ops == [kind : Kinds, step : Steps, file : Files, copy : Wal,
        rel : Releases \cup {None}]

Idle == [kind |-> "none", step |-> "idle", file |-> "erofs",
         copy |-> New(Factory), rel |-> None]

AdvanceBeforeSave(o) ==  \* a mutant of AfterArm: the floor moves first
  CASE o.kind = "stable" -> "clean"
    [] o.kind = "stage" -> "idle"
    [] o.kind = "promote" -> "advance"
    [] OTHER -> "save"

(* The step that follows each durable write, by operation. *)
AfterArm(o) ==
  CASE o.kind = "stable" -> "clean"
    [] o.kind = "stage" -> "idle"
    [] OTHER -> "save"

AfterSave(o) ==
  CASE o.kind \in {"promote", "stagePromote"} -> "clean"
    [] o.kind = "fallback" /\ ~HasPending(o.copy) -> "clean"
    [] o.kind = "stage" -> "arm"
    [] OTHER -> "idle"

AfterClean(o) ==
  CASE o.kind = "promote" -> "advance"
    [] o.kind = "stagePromote" -> "check"
    [] OTHER -> "idle"

(* Enter a step; the loops over files start at their first file. *)
Goto(o, step) ==
  IF step = "idle" THEN Idle
  ELSE [o EXCEPT !.step = step,
                 !.kind = IF step = "check" THEN "stage" ELSE @,
                 !.file = IF step = "clean" THEN "efi" ELSE "erofs"]

Start(kind, step, copy, rel) ==
  op' = Goto([kind |-> kind, step |-> step, file |-> "erofs", copy |-> copy,
              rel |-> rel], step)

(* The events whose number is bounded. *)
Events == {"stages", "faults", "reruns", "picks", "rollbacks", "deploys"}

Spend(what) == used' = [used EXCEPT ![what] = @ + 1]

-----------------------------------------------------------------------------
(* The loader and the initramfs. *)

(* chainloadSlot: image and signature belong together, and the version is  *)
(* not below the hardware floor.                                           *)
Chainable(s) ==
  /\ slot[s]["efi"] \in Releases
  /\ slot[s]["sig"] = slot[s]["efi"]
  /\ HardwareFloor => slot[s]["efi"] >= hw

FirstOf(s, rest) == IF Chainable(s) THEN s ELSE rest

StableSlot == FirstOf("active", FirstOf("prev", "recovery"))

TrialWithoutBudget == boot.target = "next" /\ boot.trial  \* a mutant of OnTrial

OnTrial == boot.target = "next" /\ boot.trial /\ boot.attempts > 0

(* The slot the loader would hand control to. *)
LoaderSlot ==
  CASE boot.target = "recovery" -> "recovery"
    [] OnTrial -> FirstOf("next", StableSlot)
    [] OTHER -> StableSlot

(* SelectRoot: any data image with any hash tree, if both belong to the    *)
(* root hash the image was signed with.                                    *)
HasRoot(v) ==
  /\ \E s \in Slots : slot[s]["erofs"] = RootOf[v]
  /\ \E s \in Slots : slot[s]["hash"] = RootOf[v]

Starts(s) == s # "recovery" /\ HasRoot(slot[s]["efi"])

EnterSlot(s) ==
  IF s = "recovery"
  THEN mode' = "recovery" /\ running' = None
  ELSE /\ running' = slot[s]["efi"]
       /\ mode' = IF Starts(s) THEN "up" ELSE "halted"

LoaderBoot ==
  /\ mode = "off"
  /\ EnterSlot(LoaderSlot)
  /\ boot' = IF OnTrial THEN [boot EXCEPT !.attempts = @ - 1] ELSE boot
  /\ tries' = IF OnTrial THEN tries + 1 ELSE tries
  /\ UNCHANGED <<wal, slot, linked, hw, checked, op, used, proven, boots>>

(* The chooser: a slot picked by hand, else active, else HALTED. *)
ChooserBoot(s) ==
  /\ mode = "off"
  /\ used.picks < MaxPicks
  /\ Spend("picks")
  /\ LET pick == IF s # "recovery" /\ ~Chainable(s) THEN "active" ELSE s
     IN  IF pick = "recovery" \/ Chainable(pick)
         THEN EnterSlot(pick)
         ELSE mode' = "halted" /\ running' = None
  /\ UNCHANGED <<wal, boot, slot, linked, hw, checked, op, history>>

(* Power loss, reset or reboot.  It is a fault when it cuts an operation   *)
(* short or stops a good release before its boot is checked; a bad one may *)
(* hang or reset at any time.                                              *)
IsFault == op.step # "idle" \/ (mode = "up" /\ running \in Good /\ ~checked)

PowerOff ==
  /\ mode # "off"
  /\ IF IsFault THEN used.faults < MaxFaults /\ Spend("faults")
     ELSE UNCHANGED used
  /\ mode' = "off"
  /\ running' = None
  /\ checked' = FALSE
  /\ op' = Idle
  /\ UNCHANGED <<durable, history>>

-----------------------------------------------------------------------------
(* BootSuccess, run when the daemon starts and at every restart of it. *)

BootSuccessRuns ==
  /\ mode = "up"
  /\ op.step = "idle"
  /\ IF checked THEN used.reruns < MaxReruns /\ Spend("reruns")
     ELSE UNCHANGED used
  /\ checked' = TRUE

(* PromoteSlots refuses unless every -next and -active file is there. *)
Preflight ==
  \A f \in Files : slot["next"][f] # None /\ slot["active"][f] # None

BootStable ==
  /\ BootSuccessRuns
  /\ ~HasPending(wal)
  /\ Start("stable", "reconcile", wal, None)
  /\ UNCHANGED <<durable, mode, running, history>>

(* A failed health gate returns before anything is written. *)
BootUnhealthy ==
  /\ mode = "up"
  /\ op.step = "idle"
  /\ ~checked
  /\ HasPending(wal)
  /\ IF running \in Good THEN used.faults < MaxFaults /\ Spend("faults")
     ELSE UNCHANGED used
  /\ checked' = TRUE
  /\ UNCHANGED <<durable, mode, running, op, history>>

BootHealthy ==
  /\ BootSuccessRuns
  /\ HasPending(wal)
  /\ running \in Good

(* The first check of a session counts one more boot for the candidate. *)
CountSession ==
  /\ proven' = proven \cup {running}
  /\ boots' = IF checked \/ boots = StableThreshold THEN boots ELSE boots + 1

BootConfirmed ==
  /\ BootHealthy
  /\ IdentityConfirmed(wal, running)
  /\ LET d == RecordGoodBoot(wal)
     IN  CASE ~ReachesThreshold(wal) -> Start("confirm", "arm", d, None)
           [] ReachesThreshold(wal) /\ Preflight ->
                Start("promote", "keep", d, None)
           [] OTHER -> op' = Idle
  /\ CountSession
  /\ UNCHANGED <<durable, mode, running, tries>>

BootFallback ==
  /\ BootHealthy
  /\ ~IdentityConfirmed(wal, running)
  /\ Start("fallback", "arm", RecordFailedBoot(wal, boot), None)
  /\ proven' = proven \cup {running}
  /\ boots' = 0
  /\ UNCHANGED <<durable, mode, running, tries>>

(* The no-pending branch moves a lagging counter up; its errors are *)
(* ignored, so it may also stay behind.                              *)
ReconcileCounter ==
  /\ op.step = "reconcile"
  /\ hw' \in IF op.copy.counter > hw THEN {hw, op.copy.counter} ELSE {hw}
  /\ op' = Goto(op, "arm")
  /\ UNCHANGED <<wal, boot, slot, linked, session, used, history>>

-----------------------------------------------------------------------------
(* PromoteSlots, file by file: active -> prev, then next -> active. *)

SameSize(f) ==  \* a mutant of InPlace: any two kernelcaches count as equal
  f \in KernelFiles \/ f \in linked

(* A file already in place is skipped: the same inode for the rootfs, the *)
(* same content for the kernelcache.                                      *)
InPlace(f) ==
  IF f \in RootFiles THEN f \in linked
  ELSE slot["active"][f] = slot["next"][f]

NextToPromote(f) ==
  op' = IF NextFile[f] = "end" THEN Goto(op, "arm")
        ELSE [op EXCEPT !.step = "keep", !.file = NextFile[f]]

SkipFile ==
  /\ op.step = "keep"
  /\ InPlace(op.file)
  /\ NextToPromote(op.file)
  /\ UNCHANGED <<durable, session, used, history>>

KeepPrevious ==
  /\ op.step = "keep"
  /\ ~InPlace(op.file)
  /\ slot' = [slot EXCEPT !["prev"][op.file] = slot["active"][op.file]]
  /\ op' = [op EXCEPT !.step = "install"]
  /\ UNCHANGED <<wal, boot, linked, hw, session, used, history>>

MoveToActive ==  \* a mutant of InstallActive: renames -next, keeps no copy
  /\ op.step = "install"
  /\ slot' = [slot EXCEPT !["active"][op.file] = slot["next"][op.file],
                          !["next"][op.file] = None]
  /\ NextToPromote(op.file)
  /\ UNCHANGED <<wal, boot, linked, hw, session, used, history>>

InstallActive ==
  /\ op.step = "install"
  /\ slot' = [slot EXCEPT !["active"][op.file] = slot["next"][op.file]]
  /\ linked' = linked \cup ({op.file} \cap RootFiles)
  /\ NextToPromote(op.file)
  /\ UNCHANGED <<wal, boot, hw, session, used, history>>

-----------------------------------------------------------------------------
(* The durable steps that operations share. *)

(* WriteBootState.  A confirmed boot and a newly staged candidate earn a *)
(* full trial budget; a fallback boot does not.                          *)
ArmBootState ==
  /\ op.step = "arm"
  /\ boot' = BootStateOf(op.copy)
  /\ tries' = IF op.kind = "fallback" THEN tries ELSE 0
  /\ op' = Goto(op, AfterArm(op))
  /\ UNCHANGED <<wal, slot, linked, hw, session, used, proven, boots>>

SaveWal ==
  /\ op.step = "save"
  /\ wal' = op.copy
  /\ boots' = IF op.kind = "stage" THEN 0 ELSE boots
  /\ op' = Goto(op, AfterSave(op))
  /\ UNCHANGED <<boot, slot, linked, hw, session, used, proven, tries>>

(* CleanupNextSlots, one file at a time. *)
CleanNext ==
  /\ op.step = "clean"
  /\ slot' = [slot EXCEPT !["next"][op.file] = None]
  /\ linked' = linked \ {op.file}
  /\ op' = IF NextCleaned[op.file] = "end" THEN Goto(op, AfterClean(op))
           ELSE [op EXCEPT !.file = NextCleaned[op.file]]
  /\ UNCHANGED <<wal, boot, hw, session, used, history>>

(* store.Advance after a promotion: monotonic, skipped without a store, *)
(* and its failure is only reported.                                     *)
AdvanceCounter ==
  /\ op.step = "advance"
  /\ hw' \in IF op.copy.counter > hw THEN {hw, op.copy.counter} ELSE {hw}
  /\ op' = Idle
  /\ UNCHANGED <<wal, boot, slot, linked, session, used, history>>

-----------------------------------------------------------------------------
(* stage: promote a candidate that already runs, then fetch release v. *)

RunningIsCandidate ==
  HasPending(wal) /\ wal.stableBoots >= 1 /\ IdentityConfirmed(wal, running)

BeginStage(v) ==
  /\ mode = "up"
  /\ op.step = "idle"
  /\ used.stages < MaxStages
  /\ Spend("stages")
  /\ CASE ~RunningIsCandidate -> Start("stage", "check", wal, v)
       [] RunningIsCandidate /\ Preflight ->
            Start("stagePromote", "keep", Promote(wal), v)
       [] OTHER -> op' = Idle
  /\ UNCHANGED <<durable, session, history>>

(* isDowngrade: strictly below current is refused. *)
CheckDowngrade ==
  /\ op.step = "check"
  /\ op' = IF op.rel < wal.current THEN Idle ELSE Goto(op, "fetch")
  /\ UNCHANGED <<durable, session, used, history>>

Write(f, content) ==
  /\ slot' = [slot EXCEPT !["next"][f] = content]
  /\ linked' = linked \ {f}

Remove(fs) ==
  /\ slot' = [slot EXCEPT !["next"] =
                [f \in Files |-> IF f \in fs THEN None ELSE @[f]]]
  /\ linked' = linked \ fs

FetchFile ==
  /\ op.step = "fetch"
  /\ Write(op.file, Artifact(op.rel, op.file))
  /\ op' = IF NextFile[op.file] # "end"
           THEN [op EXCEPT !.file = NextFile[op.file]]
           ELSE [Goto(op, "save") EXCEPT !.copy = StagedDeploy(wal, op.rel)]
  /\ UNCHANGED <<wal, boot, hw, session, used, history>>

(* The files a failed download, and a failed checksum, take down. *)
LostOnError == [erofs |-> {}, hash |-> {"erofs"}, efi |-> {}, sig |-> {"efi"}]
LostOnMismatch == [erofs |-> {"erofs"}, hash |-> {"erofs", "hash"},
                   efi |-> {"efi"}, sig |-> {"efi", "sig"}]

FetchError ==
  /\ op.step = "fetch"
  /\ Remove(LostOnError[op.file])
  /\ op' = Idle
  /\ UNCHANGED <<wal, boot, hw, session, used, history>>

(* The download is renamed into place before it is measured. *)
FetchCorrupt ==
  /\ op.step = "fetch"
  /\ Write(op.file, Garbage)
  /\ op' = [op EXCEPT !.step = "reject"]
  /\ UNCHANGED <<wal, boot, hw, session, used, history>>

RejectFile ==
  /\ op.step = "reject"
  /\ Remove(LostOnMismatch[op.file])
  /\ op' = Idle
  /\ UNCHANGED <<wal, boot, hw, session, used, history>>

(* Any step of an operation can fail, or the daemon die in it: an I/O      *)
(* error, a firmware bundle that does not verify after the slot files      *)
(* have.  The session goes on with what is on disk.                        *)
DaemonFails ==
  /\ op.step # "idle"
  /\ used.faults < MaxFaults
  /\ Spend("faults")
  /\ op' = Idle
  /\ UNCHANGED <<durable, session, history>>

-----------------------------------------------------------------------------
(* Commands: atomd rollback (also POST /rollback of the recovery server)   *)
(* and atomd deploy, which writes the WAL and nothing else.                *)

BeginRollback ==
  /\ mode \in {"up", "recovery"}
  /\ op.step = "idle"
  /\ used.rollbacks < MaxRollbacks
  /\ Spend("rollbacks")
  /\ Start("rollback", "arm", Rollback(wal), None)
  /\ UNCHANGED <<durable, session, history>>

CliDeploy(v) ==
  /\ mode = "up"
  /\ op.step = "idle"
  /\ used.deploys < MaxDeploys
  /\ Spend("deploys")
  /\ wal' = Deploy(wal, v)
  /\ boots' = 0
  /\ UNCHANGED <<boot, slot, linked, hw, session, op, proven, tries>>

-----------------------------------------------------------------------------
Init ==
  /\ wal \in {[New(Factory) EXCEPT !.lkg = l] : l \in InitialLkg}
  /\ boot = ActiveState
  /\ slot = [s \in Slots |-> [f \in Files |->
               IF s = "active" THEN Artifact(Factory, f) ELSE None]]
  /\ linked = {}
  /\ hw = 0
  /\ mode = "off"
  /\ running = None
  /\ checked = FALSE
  /\ op = Idle
  /\ used = [e \in Events |-> 0]
  /\ proven = {Factory}
  /\ boots = 0
  /\ tries = 0

DaemonStep ==
  \/ ReconcileCounter
  \/ SkipFile \/ KeepPrevious \/ InstallActive
  \/ ArmBootState \/ SaveWal \/ CleanNext \/ AdvanceCounter
  \/ CheckDowngrade \/ FetchFile \/ FetchError \/ FetchCorrupt \/ RejectFile

BootSuccess == BootStable \/ BootUnhealthy \/ BootConfirmed \/ BootFallback

Next ==
  \/ LoaderBoot
  \/ \E s \in {"active", "prev", "recovery"} : ChooserBoot(s)
  \/ PowerOff
  \/ BootSuccess
  \/ DaemonStep
  \/ DaemonFails
  \/ \E v \in Releases : BeginStage(v)
  \/ BeginRollback
  \/ \E v \in Releases : CliDeploy(v)

Spec == Init /\ [][Next]_vars

(* The user restarts a machine that asks for it, or that does not come up. *)
Reboot ==
  /\ op.step = "idle"
  /\ mode = "up" => checked /\ HasPending(wal)
  /\ PowerOff

(* systemd starts the daemon in every session, its handlers run to their   *)
(* end, firmware starts the loader; that someone restarts the machine is   *)
(* an assumption about its user.                                           *)
Fairness ==
  /\ WF_vars(LoaderBoot)
  /\ WF_vars(~checked /\ BootSuccess)
  /\ WF_vars(DaemonStep)
  /\ WF_vars(Reboot)

FairSpec == Spec /\ Fairness

-----------------------------------------------------------------------------
(* TypeOK: every variable keeps the type its file or field has. *)
TypeOK ==
  /\ wal \in Wal
  /\ boot \in BootStates
  /\ slot \in [Slots -> [Files -> Contents]]
  /\ linked \subseteq RootFiles
  /\ hw \in Releases \cup {None}
  /\ mode \in {"off", "up", "recovery", "halted"}
  /\ running \in Releases \cup {None}
  /\ checked \in BOOLEAN
  /\ op \in Ops
  /\ used \in [Events -> Nat]
  /\ proven \subseteq Releases
  /\ boots \in Nat
  /\ tries \in Nat

(* CoherentWal: no sequence of deploys, good boots, failed boots,          *)
(* promotions, rollbacks and crashes leaves the WAL on disk, or the copy   *)
(* an operation is about to save, with fields that contradict each other.  *)
CoherentWal == Coherent(wal) /\ Coherent(op.copy)

(* ProvenFallback: the version the device falls back to, and the version   *)
(* the WAL calls current, have run on this device and passed their health  *)
(* gate: a fallback boot of the old image is never counted as a good boot  *)
(* of the candidate (the identity check of BootSuccess and                 *)
(* promoteRunningCandidate), whatever crashed in between.                  *)
ProvenFallback ==
  /\ wal.lkg \in proven \cup {None}
  /\ wal.current \in proven

(* FloorBehindWal: as long as every update comes through stage, the        *)
(* hardware floor never passes the counter the WAL records, because the    *)
(* WAL is saved before store.Advance runs, and the WAL's counter never     *)
(* passes last_known_good.                                                 *)
FloorBehindWal ==
  used.deploys = 0 =>
    /\ hw <= wal.counter
    /\ wal.counter \in {None, wal.lkg}

(* FloorAdmitsActive: the anti-rollback floor never makes the loader       *)
(* refuse the image in the active slot: promotion fills the slot before it *)
(* saves the counter, and the save comes before the floor moves.           *)
FloorAdmitsActive == slot["active"]["efi"] >= hw

(* TrialBudget: an update that never confirms a boot is tried at most      *)
(* max_attempts times, however daemon and loader hand the count to each    *)
(* other through the WAL and the boot-state and wherever power is lost.    *)
TrialBudget == tries + (IF OnTrial THEN boot.attempts ELSE 0) <= MaxAttempts

(* BootsCurrent: when no candidate is in flight and the daemon is idle,    *)
(* the loader's next choice is the release the WAL calls current           *)
(* ("current is the version being run", deployment.go, RootFS): the slots, *)
(* the boot-state and the WAL are written apart, and a crash between any   *)
(* two of them must not leave them telling of different releases.          *)
BootsCurrent ==
  op.step = "idle" /\ ~HasPending(wal) =>
    LoaderSlot # "recovery" /\ slot[LoaderSlot]["efi"] = wal.current

(* NeverBricked: while faults are fewer than the spare trial attempts, at  *)
(* every instant either the boot the loader would make next, or the stable *)
(* cascade it falls back to, reaches a release with its own root and not   *)
(* just recovery: no single file that PromoteSlots, CleanupNextSlots or    *)
(* stage replaces is the last thing the device can boot from.              *)
NeverBricked ==
  used.faults < MaxAttempts - 1 => Starts(LoaderSlot) \/ Starts(StableSlot)

(* Settles: every candidate is in the end promoted or rolled back, whether *)
(* it boots, hangs or fails its health gate: the budget the loader spends  *)
(* reaches the WAL, and a fallback boot closes the update.                 *)
Settles == HasPending(wal) ~> ~HasPending(wal)
=============================================================================
