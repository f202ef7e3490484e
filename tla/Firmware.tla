------------------------------ MODULE Firmware ------------------------------
(***************************************************************************)
(* The firmware track: add-on bundles with a version each, staged with an  *)
(* OS update, activated at once, mounted by the initramfs at the next boot *)
(* and promoted or rolled back by `atomd firmware-confirm` on the result   *)
(* of a device probe.                                                      *)
(*                                                                         *)
(* The -next files of a bundle are written and verified whole before the   *)
(* activation that follows in the same staging, and nothing else reads     *)
(* them: the release of the operation stands for them.  Of the four anchor *)
(* files the manifest and its signature are kept; the signing certificate  *)
(* and its signature are the same in every release.  Bundles carry a       *)
(* verity hash, since one without never mounts.                            *)
(***************************************************************************)
EXTENDS FirmwareRecord, FiniteSets

CONSTANTS
  Bundles,          \* the bundles this machine's hardware needs, numbered by name
  Versions,         \* the versions a bundle is published at
  Manifests,        \* the versions, by bundle, that a release may come with
  Installed,        \* the version each bundle is provisioned with, 0 for none
  MaxStages,        \* bound: stagings
  MaxFaults         \* bound: crashes and failed stagings

ASSUME BundleAssumption == Bundles \subseteq Nat \ {0}
ASSUME VersionAssumption ==
  Versions \subseteq Nat \ {0} /\ Installed \in Versions \cup {0}
ASSUME ManifestAssumption ==
  Manifests \subseteq UNION {[bs -> Versions] : bs \in (SUBSET Bundles) \ {{}}}
ASSUME BoundAssumption == MaxStages \in Nat /\ MaxFaults \in Nat

VARIABLES
  wal,      \* the firmware section of deployment.json
  active,   \* active[b][p]: the version of part p in the slot that boots, 0 for none
  bak,      \* bak[b][p]: the same of the backup
  mounted,  \* the version of each bundle mounted in this boot, 0 for the base
  op,       \* the operation in progress
  stages,   \* stagings so far
  faults,   \* faults so far
  recent,   \* history: the bundles staged since the machine booted
  clean,    \* history: clean[b][v], clean probes of v since it was last staged
  blind     \* history: the bundles whose last promotion was on a probe of a boot
            \* that had not mounted the candidate

vars == <<wal, active, bak, mounted, op, stages, faults, recent, clean, blind>>

-----------------------------------------------------------------------------
Parts == {"img", "hash", "manifest", "sig"}
Content == Versions \cup {None}

(* Activation and finalization go through the image before the anchor,     *)
(* rollback through the anchor before the image.                           *)
Activated == [img |-> "hash", hash |-> "manifest", manifest |-> "sig", sig |-> "end"]
Restored == [manifest |-> "sig", sig |-> "img", img |-> "hash", hash |-> "end"]

NoBundle == 0
Kinds == {"none", "activate", "confirm", "restore", "finalize"}
Ops == [kind : Kinds, bundle : Bundles \cup {NoBundle}, todo : SUBSET Bundles,
        ver : [Bundles -> Content], part : Parts, kept : BOOLEAN, ok : BOOLEAN]
NoVersions == [b \in Bundles |-> None]
Idle == [kind |-> "none", bundle |-> NoBundle, todo |-> {}, ver |-> NoVersions,
         part |-> "img", kept |-> FALSE, ok |-> FALSE]

(* Go on with the bundles that are left, one at a time: a staging in the  *)
(* order of the manifest, whatever that is, a confirmation by name.       *)
InTurn(kind, bs) ==
  {b \in bs : kind = "activate" \/ \A c \in bs : b <= c}

Begin(kind, bs, ver, ok) ==
  IF bs = {} THEN op' = Idle
  ELSE \E b \in InTurn(kind, bs) :
         op' = [Idle EXCEPT !.kind = kind, !.bundle = b, !.todo = bs \ {b},
                            !.ver = ver, !.ok = ok]

(* The next file of this bundle, else the next bundle. *)
Continue(order, kind) ==
  IF order[op.part] # "end"
  THEN op' = [op EXCEPT !.part = order[@], !.kept = FALSE]
  ELSE Begin(kind, op.todo, op.ver, op.ok)

-----------------------------------------------------------------------------
(* stage: the versions of the manifest that match the hardware enter the   *)
(* WAL together, or one that is not above its floor refuses them all.      *)
Accepted(vs) == \A b \in DOMAIN vs : AboveFloor(wal[b], vs[b])

StageSaves(vs) ==
  /\ op = Idle
  /\ stages < MaxStages
  /\ Accepted(vs)
  /\ wal' = [b \in Bundles |-> IF b \in DOMAIN vs THEN DeployFirmware(wal[b], vs[b])
                                ELSE wal[b]]
  /\ Begin("activate", DOMAIN vs,
           [b \in Bundles |-> IF b \in DOMAIN vs THEN vs[b] ELSE None], FALSE)
  /\ stages' = stages + 1
  /\ recent' = recent \cup DOMAIN vs
  /\ clean' = [b \in Bundles |-> IF b \in DOMAIN vs THEN [clean[b] EXCEPT ![vs[b]] = 0]
                                  ELSE clean[b]]
  /\ UNCHANGED <<active, bak, mounted, faults, blind>>

DropActive ==  \* a mutant of KeepActive: no backup is made
  /\ op.kind = "activate" /\ ~op.kept
  /\ active' = [active EXCEPT ![op.bundle][op.part] = None]
  /\ op' = [op EXCEPT !.kept = TRUE]
  /\ UNCHANGED <<wal, bak, mounted, stages, faults, recent, clean, blind>>

(* ActivateFirmwareSlot, file by file: -active to .bak, -next to -active. *)
KeepActive ==
  /\ op.kind = "activate" /\ ~op.kept
  /\ LET b == op.bundle  p == op.part
     IN  IF active[b][p] = None THEN UNCHANGED <<active, bak>>
         ELSE /\ bak' = [bak EXCEPT ![b][p] = active[b][p]]
              /\ active' = [active EXCEPT ![b][p] = None]
  /\ op' = [op EXCEPT !.kept = TRUE]
  /\ UNCHANGED <<wal, mounted, stages, faults, recent, clean, blind>>

InstallNext ==
  /\ op.kind = "activate" /\ op.kept
  /\ active' = [active EXCEPT ![op.bundle][op.part] = op.ver[op.bundle]]
  /\ Continue(Activated, "activate")
  /\ UNCHANGED <<wal, bak, mounted, stages, faults, recent, clean, blind>>

-----------------------------------------------------------------------------
(* firmware-confirm for one bundle or, in turn, for every pending one.     *)
(* Whether the probe was clean is the caller's word: neither the command   *)
(* nor the daemon looks at what is mounted, or at how often it was called  *)
(* in this boot.                                                           *)
PendingBundles == {b \in Bundles : HasPending(wal[b])}

ConfirmBegins(bs, ok) ==
  /\ op = Idle
  /\ bs # {}
  /\ Begin("confirm", bs, NoVersions, ok)
  /\ UNCHANGED <<wal, active, bak, mounted, stages, faults, recent, clean, blind>>

ProbeFails ==
  /\ op.kind = "confirm" /\ ~op.ok
  /\ wal' = [wal EXCEPT ![op.bundle] = RollbackFirmware(@)]
  /\ op' = [op EXCEPT !.kind = "restore", !.part = "manifest"]
  /\ UNCHANGED <<active, bak, mounted, stages, faults, recent, clean, blind>>

NeverFinalize(b) == FALSE  \* a mutant of DropsBackups

DropsBackups(b) == Promotes(b)

(* The candidate of b, as it was staged last, is what this boot mounted.   *)
Running(b) == b \notin recent /\ mounted[b] = wal[b].pending

ProbeClean ==
  /\ op.kind = "confirm" /\ op.ok
  /\ LET b == op.bundle  w == wal[b]
     IN  /\ wal' = [wal EXCEPT ![b] = RecordProbe(w)]
         /\ IF DropsBackups(w) THEN op' = [op EXCEPT !.kind = "finalize"]
            ELSE Begin("confirm", op.todo, NoVersions, op.ok)
         /\ clean' = IF clean[b][w.pending] < StableThreshold
                     THEN [clean EXCEPT ![b][w.pending] = @ + 1] ELSE clean
         /\ blind' = IF ~Promotes(w) THEN blind
                     ELSE IF Running(b) THEN blind \ {b} ELSE blind \cup {b}
  /\ UNCHANGED <<active, bak, mounted, stages, faults, recent>>

(* RollbackFirmwareSlot: the anchor first; a file without backup stays. *)
RestoreBackup ==
  /\ op.kind = "restore"
  /\ LET b == op.bundle  p == op.part
     IN  IF bak[b][p] = None THEN UNCHANGED <<active, bak>>
         ELSE /\ active' = [active EXCEPT ![b][p] = bak[b][p]]
              /\ bak' = [bak EXCEPT ![b][p] = None]
  /\ Continue(Restored, "confirm")
  /\ UNCHANGED <<wal, mounted, stages, faults, recent, clean, blind>>

(* FinalizeFirmwareSlot *)
DropBackup ==
  /\ op.kind = "finalize"
  /\ bak' = [bak EXCEPT ![op.bundle][op.part] = None]
  /\ Continue(Activated, "confirm")
  /\ UNCHANGED <<wal, active, mounted, stages, faults, recent, clean, blind>>

-----------------------------------------------------------------------------
(* VerifiedFirmwareBundle and dm-verity: image, hash tree, manifest and    *)
(* signature belong together, or the bundle is skipped (fail open).        *)
Whole(b) == Cardinality({active[b][p] : p \in Parts}) = 1

Boot ==
  /\ IF op = Idle THEN UNCHANGED faults
     ELSE faults < MaxFaults /\ faults' = faults + 1
  /\ mounted' = [b \in Bundles |-> IF Whole(b) THEN active[b]["img"] ELSE None]
  /\ op' = Idle
  /\ recent' = {}
  /\ UNCHANGED <<wal, active, bak, stages, clean, blind>>

(* A step of stage or firmware-confirm returns an error, or is killed. *)
OperationFails ==
  /\ op # Idle
  /\ faults < MaxFaults
  /\ faults' = faults + 1
  /\ op' = Idle
  /\ UNCHANGED <<wal, active, bak, mounted, stages, recent, clean, blind>>

-----------------------------------------------------------------------------
Init ==
  /\ wal = [b \in Bundles |-> Provisioned(Installed)]
  /\ active = [b \in Bundles |-> [p \in Parts |-> Installed]]
  /\ bak = [b \in Bundles |-> [p \in Parts |-> None]]
  /\ mounted = [b \in Bundles |-> Installed]
  /\ op = Idle
  /\ stages = 0
  /\ faults = 0
  /\ recent = {}
  /\ clean = [b \in Bundles |->
                [v \in Versions |-> IF v = Installed THEN StableThreshold ELSE 0]]
  /\ blind = {}

Confirm ==
  \E ok \in BOOLEAN :
    \/ ConfirmBegins(PendingBundles, ok)
    \/ \E b \in PendingBundles : ConfirmBegins({b}, ok)

DaemonStep == \/ KeepActive \/ InstallNext \/ ProbeFails \/ ProbeClean
              \/ RestoreBackup \/ DropBackup

Next ==
  \/ \E vs \in Manifests : StageSaves(vs)
  \/ Confirm \/ DaemonStep \/ Boot \/ OperationFails

Spec == Init /\ [][Next]_vars

(* The operations end, and firmware-confirm is called again and again.     *)
FairSpec == /\ Spec
            /\ WF_vars(DaemonStep)
            /\ SF_vars(\E ok \in BOOLEAN : ConfirmBegins(PendingBundles, ok))

-----------------------------------------------------------------------------
(* TypeOK: the variables stay within their types. *)
TypeOK ==
  /\ wal \in [Bundles -> BundleStates(Content)]
  /\ active \in [Bundles -> [Parts -> Content]]
  /\ bak \in [Bundles -> [Parts -> Content]]
  /\ mounted \in [Bundles -> Content]
  /\ op \in Ops
  /\ stages \in 0..MaxStages
  /\ faults \in 0..MaxFaults
  /\ recent \subseteq Bundles
  /\ clean \in [Bundles -> [Versions -> 0..StableThreshold]]
  /\ blind \subseteq Bundles

(* ProvenFloor: last_known_good and the anti-rollback floor only name a    *)
(* version that probed clean stable_threshold times since it was staged    *)
(* last, whatever was staged, confirmed at once or cut in between.         *)
ProvenFloor ==
  \A b \in Bundles : \A v \in {wal[b].lkg, wal[b].min} \ {None} :
    clean[b][v] >= StableThreshold

(* GoodKept: in one update, cut anywhere any number of times, each file of *)
(* the last known good firmware is in the active slot or in its backup,    *)
(* unless a bundle was promoted in a boot that had not mounted it: nothing *)
(* in firmware-confirm keeps a coarse probe from doing that, and then the  *)
(* backups it drops may be the last whole firmware.                        *)
GoodKept ==
  stages <= 1 => \A b \in Bundles \ blind, p \in Parts :
                   wal[b].lkg # None => wal[b].lkg \in {active[b][p], bak[b][p]}

(* FloorKept: one fault never lets a version below the anti-rollback floor *)
(* mount, though a fault can leave a backup of it behind and the bundle    *)
(* may be staged, probed and rolled back any number of times in one boot;  *)
(* again unless its floor was raised by a promotion that did not see it.   *)
FloorKept ==
  faults <= 1 => \A b \in Bundles \ blind : mounted[b] # None => mounted[b] >= wal[b].min

(* Resolved: every candidate is promoted or rolled back. *)
Resolved == \A b \in Bundles : HasPending(wal[b]) ~> ~HasPending(wal[b])
=============================================================================
