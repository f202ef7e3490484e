--------------------------- MODULE FirmwareProofs ---------------------------
(***************************************************************************)
(* Theorems about the firmware track, for any bundles, versions, threshold *)
(* and bounds, whatever probe results firmware-confirm is given and however*)
(* often it is called in one boot.                                         *)
(***************************************************************************)
EXTENDS Firmware, TLAPS, FiniteSetTheorems

(* The bundles a confirmation has still to come to. *)
Waiting == op.todo \cup (IF op.kind = "confirm" THEN {op.bundle} ELSE {})

Confirming ==
  op.kind \in {"confirm", "restore", "finalize"} =>
    \A b \in Waiting : HasPending(wal[b])

OneAtATime == op.kind # "none" => op.bundle \in Bundles \ op.todo

(* The count of clean probes in the record is not ahead of the probes. *)
Counted ==
  \A b \in Bundles : HasPending(wal[b]) => clean[b][wal[b].pending] >= wal[b].confirms

(* A promotion moves both, and nothing else moves either.                  *)
FloorIsGood == \A b \in Bundles : wal[b].lkg = wal[b].min

CountInv == TypeOK /\ OneAtATime /\ Confirming /\ Counted /\ FloorIsGood /\ ProvenFloor

-----------------------------------------------------------------------------
LEMMA Constants ==
  /\ None = 0 /\ None \in Content /\ NoBundle \notin Bundles
  /\ Installed \in Content /\ Versions \subseteq Content
  /\ \A v \in Content : v \in Nat /\ (v # None => v \in Versions)
BY VersionAssumption, BundleAssumption DEF None, Content, NoBundle

LEMMA IdleIsTyped == Idle \in Ops /\ Idle.kind = "none" /\ Idle.todo = {}
BY Constants DEF Idle, Ops, Kinds, Parts, NoVersions

(* A new operation starts with a bundle of its set and keeps the others.   *)
Begun(kind, bs, ver, ok) ==
  /\ op' \in Ops
  /\ \/ op' = Idle
     \/ /\ op'.kind = kind /\ op'.bundle \in bs /\ op'.todo = bs \ {op'.bundle}
        /\ op'.ver = ver /\ op'.part = "img" /\ op'.kept = FALSE /\ op'.ok = ok

LEMMA BeginEffect ==
  ASSUME NEW kind \in Kinds \ {"none"}, NEW bs \in SUBSET Bundles,
         NEW ver \in [Bundles -> Content], NEW ok \in BOOLEAN, Begin(kind, bs, ver, ok)
  PROVE  Begun(kind, bs, ver, ok)
<1>1. CASE bs = {}
  BY <1>1, IdleIsTyped DEF Begin, Begun
<1>2. CASE bs # {}
  <2>1. PICK b \in bs :
          op' = [Idle EXCEPT !.kind = kind, !.bundle = b, !.todo = bs \ {b},
                             !.ver = ver, !.ok = ok]
    BY <1>2 DEF Begin, InTurn
  <2>2. op' = [kind |-> kind, bundle |-> b, todo |-> bs \ {b}, ver |-> ver,
               part |-> "img", kept |-> FALSE, ok |-> ok]
    BY <2>1 DEF Idle
  <2> QED
    BY <2>2 DEF Begun, Ops, Parts
<1> QED
  BY <1>1, <1>2

Orders == [Parts -> Parts \cup {"end"}]

LEMMA OrdersAreOrders == Activated \in Orders /\ Restored \in Orders
BY DEF Activated, Restored, Orders, Parts

LEMMA ContinueEffect ==
  ASSUME TypeOK, NEW order \in Orders, NEW kind \in Kinds \ {"none"},
         Continue(order, kind)
  PROVE  \/ /\ order[op.part] \in Parts
            /\ op' = [op EXCEPT !.part = order[op.part], !.kept = FALSE]
            /\ op' \in Ops
         \/ order[op.part] = "end" /\ Begun(kind, op.todo, op.ver, op.ok)
<1>1. op.part \in Parts /\ op.todo \in SUBSET Bundles /\ op.ok \in BOOLEAN
      /\ op.ver \in [Bundles -> Content]
  BY DEF TypeOK, Ops
<1>2. CASE order[op.part] # "end"
  <2>1. order[op.part] \in Parts
    BY <1>1, <1>2 DEF Orders
  <2> QED
    BY <1>2, <2>1 DEF Continue, TypeOK, Ops
<1>3. CASE order[op.part] = "end"
  BY <1>1, <1>3, BeginEffect DEF Continue
<1> QED
  BY <1>2, <1>3

(* Writing one file of one bundle.                                         *)
LEMMA SetPart ==
  ASSUME NEW f \in [Bundles -> [Parts -> Content]], NEW b \in Bundles, NEW p \in Parts,
         NEW v \in Content
  PROVE  /\ [f EXCEPT ![b][p] = v] \in [Bundles -> [Parts -> Content]]
         /\ \A c \in Bundles, q \in Parts :
              [f EXCEPT ![b][p] = v][c][q] = IF c = b /\ q = p THEN v ELSE f[c][q]
<1>1. [f[b] EXCEPT ![p] = v] \in [Parts -> Content]
  OBVIOUS
<1> QED
  BY <1>1

(* What the transitions of a record do. *)
LEMMA DeployTypes ==
  ASSUME NEW b \in BundleStates(Content), NEW v \in Versions
  PROVE  /\ DeployFirmware(b, v) \in BundleStates(Content)
         /\ DeployFirmware(b, v).pending = v /\ DeployFirmware(b, v).confirms = 0
         /\ DeployFirmware(b, v).lkg = b.lkg /\ DeployFirmware(b, v).min = b.min
<1>1. v \in Content /\ 0 \in 0..(StableThreshold - 1)
  BY Constants, ThresholdAssumption
<1> QED
  BY <1>1 DEF DeployFirmware, BundleStates

LEMMA RollbackTypes ==
  ASSUME NEW b \in BundleStates(Content)
  PROVE  /\ RollbackFirmware(b) \in BundleStates(Content)
         /\ RollbackFirmware(b).pending = None
         /\ RollbackFirmware(b).lkg = b.lkg /\ RollbackFirmware(b).min = b.min
<1>1. None \in Content /\ 0 \in 0..(StableThreshold - 1)
  BY Constants, ThresholdAssumption
<1> QED
  BY <1>1 DEF RollbackFirmware, BundleStates

(* A clean probe promotes the candidate, or counts one more.               *)
LEMMA ProbeTypes ==
  ASSUME NEW b \in BundleStates(Content)
  PROVE  /\ RecordProbe(b) \in BundleStates(Content)
         /\ Promotes(b) => /\ RecordProbe(b).pending = None
                           /\ RecordProbe(b).lkg = b.pending
                           /\ RecordProbe(b).min = b.pending
         /\ ~Promotes(b) => /\ RecordProbe(b).pending = b.pending
                            /\ RecordProbe(b).confirms = b.confirms + 1
                            /\ RecordProbe(b).lkg = b.lkg
                            /\ RecordProbe(b).min = b.min
<1>1. None \in Content /\ 0 \in 0..(StableThreshold - 1)
  BY Constants, ThresholdAssumption
<1>2. CASE Promotes(b)
  BY <1>1, <1>2 DEF RecordProbe, BundleStates
<1>3. CASE ~Promotes(b)
  <2>1. b.confirms + 1 \in 0..(StableThreshold - 1)
    BY <1>3, ThresholdAssumption DEF Promotes, BundleStates
  <2> QED
    BY <1>3, <2>1 DEF RecordProbe, BundleStates
<1> QED
  BY <1>2, <1>3

-----------------------------------------------------------------------------
LEMMA CountInit == Init => CountInv
<1> SUFFICES ASSUME Init PROVE CountInv
  OBVIOUS
<1>1. /\ Provisioned(Installed) \in BundleStates(Content)
      /\ Provisioned(Installed).pending = None
      /\ Provisioned(Installed).lkg = Installed /\ Provisioned(Installed).min = Installed
  BY Constants, ThresholdAssumption DEF Provisioned, BundleStates
<1>2. TypeOK
  BY <1>1, Constants, IdleIsTyped, ThresholdAssumption, BoundAssumption DEF Init, TypeOK
<1>3. OneAtATime /\ Confirming
  BY IdleIsTyped DEF Init, OneAtATime, Confirming
<1>4. Counted /\ FloorIsGood
  BY <1>1 DEF Init, Counted, FloorIsGood, HasPending
<1>5. ProvenFloor
  <2> SUFFICES ASSUME NEW b \in Bundles, NEW v \in {wal[b].lkg, wal[b].min} \ {None}
               PROVE  clean[b][v] >= StableThreshold
    BY DEF ProvenFloor
  <2>1. v = Installed /\ v \in Versions
    BY <1>1, Constants DEF Init
  <2> QED
    BY <2>1, ThresholdAssumption DEF Init
<1> QED
  BY <1>2, <1>3, <1>4, <1>5 DEF CountInv

-----------------------------------------------------------------------------
(* Each action preserves the invariant. *)

LEMMA CountStage ==
  ASSUME CountInv, NEW bs \in SUBSET Bundles, NEW vs \in [bs -> Versions], StageSaves(vs)
  PROVE  CountInv'
<1> DEFINE ver == [b \in Bundles |-> IF b \in DOMAIN vs THEN vs[b] ELSE None]
<1>1. DOMAIN vs = bs /\ ver \in [Bundles -> Content]
  BY Constants
<1>2. Begun("activate", bs, ver, FALSE)
  BY <1>1, BeginEffect DEF StageSaves, Kinds
<1>3. \A b \in Bundles :
        /\ b \in bs => wal'[b] = DeployFirmware(wal[b], vs[b])
        /\ b \notin bs => wal'[b] = wal[b]
  BY <1>1 DEF StageSaves
<1>4. \A b \in Bundles :
        /\ wal'[b] \in BundleStates(Content)
        /\ wal'[b].lkg = wal[b].lkg /\ wal'[b].min = wal[b].min
        /\ b \in bs => wal'[b].pending = vs[b] /\ wal'[b].confirms = 0
  BY <1>1, <1>3, DeployTypes DEF CountInv, TypeOK
<1>9. /\ clean' \in [Bundles -> [Versions -> 0..StableThreshold]]
      /\ \A b \in Bundles, v \in Versions :
           clean'[b][v] = IF b \in bs /\ v = vs[b] THEN 0 ELSE clean[b][v]
  <2>1. clean \in [Bundles -> [Versions -> 0..StableThreshold]] /\ 0 \in 0..StableThreshold
    BY ThresholdAssumption DEF CountInv, TypeOK
  <2>2. clean' = [b \in Bundles |-> IF b \in bs THEN [clean[b] EXCEPT ![vs[b]] = 0]
                                    ELSE clean[b]]
    BY <1>1 DEF StageSaves
  <2>3. \A b \in bs : vs[b] \in Versions
    OBVIOUS
  <2> QED
    BY <2>1, <2>2, <2>3
<1>10. \A b \in bs : vs[b] > wal[b].min
  BY <1>1 DEF StageSaves, Accepted, AboveFloor
<1>5. TypeOK'
  <2>1. wal' \in [Bundles -> BundleStates(Content)]
    BY <1>4 DEF StageSaves
  <2> QED
    BY <1>1, <1>2, <1>9, <2>1, BoundAssumption DEF StageSaves, CountInv, TypeOK, Begun
<1>6. OneAtATime' /\ Confirming'
  BY <1>2, IdleIsTyped DEF Begun, OneAtATime, Confirming
<1>7. Counted'
  <2> SUFFICES ASSUME NEW b \in Bundles, HasPending(wal'[b])
               PROVE  clean'[b][wal'[b].pending] >= wal'[b].confirms
    BY DEF Counted, HasPending
  <2>1. CASE b \in bs
    <3>1. vs[b] \in Versions
      BY <2>1
    <3> QED
      BY <1>4, <1>9, <2>1, <3>1
  <2>2. CASE b \notin bs
    <3>1. wal'[b] = wal[b] /\ wal[b].pending \in Versions
      BY <1>3, <2>2, Constants DEF CountInv, TypeOK, BundleStates, HasPending
    <3> QED
      BY <1>9, <2>2, <3>1 DEF CountInv, Counted, HasPending
  <2> QED
    BY <2>1, <2>2
<1>8. FloorIsGood' /\ ProvenFloor'
  <2>1. FloorIsGood'
    BY <1>4 DEF CountInv, FloorIsGood
  <2> SUFFICES ASSUME NEW b \in Bundles, NEW v \in {wal'[b].lkg, wal'[b].min} \ {None}
               PROVE  clean'[b][v] >= StableThreshold
    BY <2>1 DEF ProvenFloor
  <2>2. v = wal[b].min /\ v \in {wal[b].lkg, wal[b].min} \ {None}
    BY <1>4 DEF CountInv, FloorIsGood
  <2>3. v \in Versions /\ v \in Nat
    BY <2>2, Constants DEF CountInv, TypeOK, BundleStates
  <2>4. ~(b \in bs /\ v = vs[b])
    BY <1>10, <2>2, <2>3
  <2> QED
    BY <1>9, <2>2, <2>3, <2>4 DEF CountInv, ProvenFloor
<1> QED
  BY <1>5, <1>6, <1>7, <1>8 DEF CountInv

LEMMA CountConfirm ==
  ASSUME CountInv, NEW bs \in SUBSET PendingBundles, NEW ok \in BOOLEAN,
         ConfirmBegins(bs, ok)
  PROVE  CountInv'
<1>1. bs \in SUBSET Bundles /\ NoVersions \in [Bundles -> Content]
  BY Constants DEF PendingBundles, NoVersions
<1>2. Begun("confirm", bs, NoVersions, ok)
  BY <1>1, BeginEffect DEF ConfirmBegins, Kinds
<1>3. UNCHANGED <<wal, active, bak, mounted, stages, faults, recent, clean, blind>>
  BY DEF ConfirmBegins
<1>4. TypeOK'
  BY <1>1, <1>2, <1>3 DEF CountInv, TypeOK, Begun
<1>5. OneAtATime'
  BY <1>1, <1>2, IdleIsTyped DEF Begun, OneAtATime
<1>6. \A b \in bs : HasPending(wal[b])
  BY DEF PendingBundles
<1>7. Confirming'
  BY <1>2, <1>3, <1>6, IdleIsTyped DEF Begun, Confirming, Waiting, HasPending
<1>8. Counted' /\ FloorIsGood' /\ ProvenFloor'
  BY <1>3 DEF CountInv, Counted, FloorIsGood, ProvenFloor, HasPending
<1> QED
  BY <1>4, <1>5, <1>7, <1>8 DEF CountInv

(* The steps that move files go on with the operation and leave the record.*)
LEMMA CountFiles ==
  ASSUME CountInv, KeepActive \/ InstallNext \/ RestoreBackup \/ DropBackup
  PROVE  CountInv'
<1>1. UNCHANGED <<wal, mounted, stages, faults, recent, clean, blind>>
  BY DEF KeepActive, InstallNext, RestoreBackup, DropBackup
<1>2. op.kind # "none" /\ op.bundle \in Bundles \ op.todo /\ op \in Ops
  BY DEF KeepActive, InstallNext, RestoreBackup, DropBackup, CountInv, OneAtATime, TypeOK
<1>3. op.part \in Parts /\ op.ver[op.bundle] \in Content /\ op.todo \in SUBSET Bundles
  BY <1>2 DEF Ops
<1>4. active' \in [Bundles -> [Parts -> Content]] /\ bak' \in [Bundles -> [Parts -> Content]]
  <2> active \in [Bundles -> [Parts -> Content]] /\ bak \in [Bundles -> [Parts -> Content]]
    BY DEF CountInv, TypeOK
  <2>1. CASE KeepActive
    <3>1. active[op.bundle][op.part] \in Content
      BY <1>2, <1>3
    <3>2. \/ UNCHANGED <<active, bak>>
          \/ /\ bak' = [bak EXCEPT ![op.bundle][op.part] = active[op.bundle][op.part]]
             /\ active' = [active EXCEPT ![op.bundle][op.part] = None]
      BY <2>1, Zenon DEF KeepActive
    <3>3. None \in Content
      BY Constants
    <3>4. [active EXCEPT ![op.bundle][op.part] = None] \in [Bundles -> [Parts -> Content]]
      BY <1>2, <1>3, <3>1, <3>3, SetPart
    <3>5. [bak EXCEPT ![op.bundle][op.part] = active[op.bundle][op.part]] \in [Bundles -> [Parts -> Content]]
      BY <1>2, <1>3, <3>1, <3>3, SetPart
    <3> QED
      BY <3>2, <3>4, <3>5
  <2>2. CASE InstallNext
    BY <1>2, <1>3, <2>2, SetPart DEF InstallNext
  <2>3. CASE RestoreBackup
    <3>1. bak[op.bundle][op.part] \in Content
      BY <1>2, <1>3
    <3>2. \/ UNCHANGED <<active, bak>>
          \/ /\ active' = [active EXCEPT ![op.bundle][op.part] = bak[op.bundle][op.part]]
             /\ bak' = [bak EXCEPT ![op.bundle][op.part] = None]
      BY <2>3, Zenon DEF RestoreBackup
    <3>3. None \in Content
      BY Constants
    <3>4. [active EXCEPT ![op.bundle][op.part] = bak[op.bundle][op.part]] \in [Bundles -> [Parts -> Content]]
      BY <1>2, <1>3, <3>1, <3>3, SetPart
    <3>5. [bak EXCEPT ![op.bundle][op.part] = None] \in [Bundles -> [Parts -> Content]]
      BY <1>2, <1>3, <3>1, <3>3, SetPart
    <3> QED
      BY <3>2, <3>4, <3>5
  <2>4. CASE DropBackup
    BY <1>2, <1>3, <2>4, SetPart, Constants DEF DropBackup
  <2> QED
    BY <2>1, <2>2, <2>3, <2>4
<1>5. PICK kind \in {"activate", "confirm"} :
        /\ \/ /\ op'.kind = op.kind /\ op'.bundle = op.bundle /\ op'.todo = op.todo
              /\ op'.ok = op.ok /\ op' \in Ops
           \/ Begun(kind, op.todo, op.ver, op.ok)
        /\ kind = "activate" => op.kind = "activate"
        /\ kind = "confirm" => op.kind \in {"restore", "finalize"}
  <2>1. CASE KeepActive
    BY <1>2, <2>1 DEF KeepActive, Ops
  <2>2. CASE InstallNext
    BY <2>2, ContinueEffect, OrdersAreOrders DEF InstallNext, CountInv, Ops, Kinds
  <2>3. CASE RestoreBackup
    BY <2>3, ContinueEffect, OrdersAreOrders DEF RestoreBackup, CountInv, Ops, Kinds
  <2>4. CASE DropBackup
    BY <2>4, ContinueEffect, OrdersAreOrders DEF DropBackup, CountInv, Ops, Kinds
  <2> QED
    BY <2>1, <2>2, <2>3, <2>4
<1>6. TypeOK'
  BY <1>1, <1>4, <1>5 DEF CountInv, TypeOK, Begun
<1>7. OneAtATime'
  BY <1>2, <1>3, <1>5, IdleIsTyped DEF OneAtATime, Begun
<1>8. Confirming'
  <2>1. CASE op.kind = "activate" \/ op' = Idle
    BY <1>5, <2>1, IdleIsTyped DEF Confirming, Begun, KeepActive, InstallNext, RestoreBackup, DropBackup
  <2>2. CASE op.kind \in {"restore", "finalize"} /\ op' # Idle
    <3>1. \A b \in op.todo : HasPending(wal[b])
      BY <2>2 DEF CountInv, Confirming, Waiting
    <3>2. Waiting' \subseteq op.todo /\ op'.ok = op.ok
      BY <1>5, <2>2 DEF Waiting, Begun
    <3> QED
      BY <1>1, <3>1, <3>2 DEF Confirming, HasPending
  <2> QED
    BY <2>1, <2>2 DEF KeepActive, InstallNext, RestoreBackup, DropBackup
<1>9. Counted' /\ FloorIsGood' /\ ProvenFloor'
  BY <1>1 DEF CountInv, Counted, FloorIsGood, ProvenFloor, HasPending
<1> QED
  BY <1>6, <1>7, <1>8, <1>9 DEF CountInv

LEMMA CountFailedProbe ==
  ASSUME CountInv, ProbeFails
  PROVE  CountInv'
<1>1. /\ op.kind = "confirm" /\ ~op.ok
      /\ wal' = [wal EXCEPT ![op.bundle] = RollbackFirmware(wal[op.bundle])]
      /\ op' = [op EXCEPT !.kind = "restore", !.part = "manifest"]
      /\ UNCHANGED <<active, bak, mounted, stages, faults, recent, clean, blind>>
  BY DEF ProbeFails
<1>2. op.bundle \in Bundles \ op.todo /\ op \in Ops
  BY <1>1 DEF CountInv, OneAtATime, TypeOK
<1>3. /\ op' \in Ops /\ op'.kind = "restore" /\ op'.bundle = op.bundle
      /\ op'.todo = op.todo /\ op'.ok = op.ok
  BY <1>1, <1>2 DEF Ops, Kinds, Parts
<1>5. \A b \in Bundles :
        /\ wal'[b] \in BundleStates(Content)
        /\ wal'[b].lkg = wal[b].lkg /\ wal'[b].min = wal[b].min
        /\ b # op.bundle => wal'[b] = wal[b]
        /\ b = op.bundle => wal'[b].pending = None
  <2> SUFFICES ASSUME NEW b \in Bundles
               PROVE  /\ wal'[b] \in BundleStates(Content)
                      /\ wal'[b].lkg = wal[b].lkg /\ wal'[b].min = wal[b].min
                      /\ b # op.bundle => wal'[b] = wal[b]
                      /\ b = op.bundle => wal'[b].pending = None
    OBVIOUS
  <2>1. wal[b] \in BundleStates(Content)
    BY DEF CountInv, TypeOK
  <2>2. CASE b # op.bundle
    BY <1>1, <2>1, <2>2 DEF CountInv, TypeOK
  <2>3. CASE b = op.bundle
    <3>1. wal'[b] = RollbackFirmware(wal[b])
      BY <1>1, <2>3 DEF CountInv, TypeOK
    <3>2. /\ RollbackFirmware(wal[b]) \in BundleStates(Content)
          /\ RollbackFirmware(wal[b]).pending = None
          /\ RollbackFirmware(wal[b]).lkg = wal[b].lkg
          /\ RollbackFirmware(wal[b]).min = wal[b].min
      BY <2>1, RollbackTypes
    <3> QED
      BY <2>3, <3>1, <3>2
  <2> QED
    BY <2>2, <2>3
<1>6. TypeOK'
  <2>1. wal' \in [Bundles -> BundleStates(Content)]
    BY <1>1, <1>5 DEF CountInv, TypeOK
  <2> QED
    BY <1>1, <1>3, <2>1 DEF CountInv, TypeOK
<1>7. OneAtATime'
  BY <1>2, <1>3 DEF OneAtATime
<1>8. Confirming'
  <2>1. \A b \in op.todo : HasPending(wal[b])
    BY <1>1 DEF CountInv, Confirming, Waiting
  <2>2. op.todo \subseteq Bundles \ {op.bundle}
    BY <1>2 DEF Ops
  <2>3. Waiting' = op.todo
    BY <1>3 DEF Waiting
  <2> QED
    BY <1>1, <1>3, <1>5, <2>1, <2>2, <2>3 DEF Confirming, HasPending
<1>9. Counted' /\ FloorIsGood' /\ ProvenFloor'
  BY <1>1, <1>5 DEF CountInv, Counted, FloorIsGood, ProvenFloor, HasPending
<1> QED
  BY <1>6, <1>7, <1>8, <1>9 DEF CountInv

LEMMA CountCleanProbe ==
  ASSUME CountInv, ProbeClean
  PROVE  CountInv'
<1> DEFINE b == op.bundle
           w == wal[b]
<1>1. /\ op.kind = "confirm" /\ op.ok
      /\ wal' = [wal EXCEPT ![b] = RecordProbe(w)]
      /\ IF DropsBackups(w) THEN op' = [op EXCEPT !.kind = "finalize"]
         ELSE Begin("confirm", op.todo, NoVersions, op.ok)
      /\ clean' = IF clean[b][w.pending] < StableThreshold
                  THEN [clean EXCEPT ![b][w.pending] = clean[b][w.pending] + 1] ELSE clean
      /\ blind' \in {blind, blind \ {b}, blind \cup {b}}
      /\ UNCHANGED <<active, bak, mounted, stages, faults, recent>>
  BY DEF ProbeClean
<1>2. b \in Bundles \ op.todo /\ op \in Ops /\ op.todo \in SUBSET Bundles
  BY <1>1 DEF CountInv, OneAtATime, TypeOK, Ops
<1>3. w \in BundleStates(Content)
  BY <1>2 DEF CountInv, TypeOK
<1>4. \A c \in op.todo \cup {b} : HasPending(wal[c])
  BY <1>1 DEF CountInv, Confirming, Waiting
<1>5. w.pending \in Versions /\ w.confirms \in Nat
  <2>1. w.pending \in Content /\ w.confirms \in 0..(StableThreshold - 1)
    BY <1>3 DEF BundleStates
  <2>2. w.pending # None
    BY <1>4 DEF HasPending
  <2>3. w.pending \in Versions
    BY <2>1, <2>2, Constants
  <2>4. w.confirms \in Nat
    BY <2>1, ThresholdAssumption
  <2> QED
    BY <2>3, <2>4
<1>6. \/ op' = [op EXCEPT !.kind = "finalize"]
      \/ Begun("confirm", op.todo, NoVersions, op.ok)
  <2>1. NoVersions \in [Bundles -> Content] /\ op.ok \in BOOLEAN
    BY <1>2, Constants DEF NoVersions, Ops
  <2> QED
    BY <1>1, <1>2, <2>1, BeginEffect DEF Kinds
<1>7. \A c \in Bundles : wal'[c] = IF c = b THEN RecordProbe(w) ELSE wal[c]
  BY <1>1, <1>2 DEF CountInv, TypeOK
<1>8. /\ clean' \in [Bundles -> [Versions -> 0..StableThreshold]]
      /\ \A c \in Bundles, v \in Versions :
           clean'[c][v] = IF c = b /\ v = w.pending /\ clean[c][v] < StableThreshold
                          THEN clean[c][v] + 1 ELSE clean[c][v]
  <2>1. clean \in [Bundles -> [Versions -> 0..StableThreshold]]
    BY DEF CountInv, TypeOK
  <2>2. CASE clean[b][w.pending] < StableThreshold
    <3>1. clean' = [clean EXCEPT ![b][w.pending] = clean[b][w.pending] + 1]
      BY <1>1, <1>2, <1>4, <2>2
    <3>2. clean[b][w.pending] + 1 \in 0..StableThreshold
      BY <1>2, <1>5, <2>1, <2>2, ThresholdAssumption
    <3>3. [clean[b] EXCEPT ![w.pending] = clean[b][w.pending] + 1]
             \in [Versions -> 0..StableThreshold]
      BY <1>2, <2>1, <3>2
    <3> QED
      BY <1>2, <1>5, <2>1, <2>2, <3>1, <3>3
  <2>3. CASE ~(clean[b][w.pending] < StableThreshold)
    BY <1>1, <2>1, <2>3
  <2> QED
    BY <2>2, <2>3
<1>9. \A c \in Bundles, v \in Versions : clean[c][v] \in 0..StableThreshold
  BY DEF CountInv, TypeOK
<1>10. TypeOK'
  <2>1. wal' \in [Bundles -> BundleStates(Content)]
    BY <1>1, <1>2, <1>3, ProbeTypes DEF CountInv, TypeOK
  <2>2. op' \in Ops
    BY <1>2, <1>6 DEF Ops, Kinds, Begun
  <2>3. blind' \subseteq Bundles
    BY <1>1, <1>2 DEF CountInv, TypeOK
  <2> QED
    BY <1>1, <1>8, <2>1, <2>2, <2>3 DEF CountInv, TypeOK
<1>11. OneAtATime'
  <2>1. CASE op' = [op EXCEPT !.kind = "finalize"]
    BY <1>2, <2>1 DEF OneAtATime, Ops
  <2>2. CASE Begun("confirm", op.todo, NoVersions, op.ok)
    BY <1>2, <2>2, IdleIsTyped DEF OneAtATime, Begun
  <2> QED
    BY <1>6, <2>1, <2>2
<1>12. Confirming'
  <2>1. \A c \in op.todo : c \in Bundles /\ c # b
    BY <1>2
  <2>2. \A c \in op.todo : HasPending(wal'[c])
    BY <1>1, <1>4, <1>7, <2>1
  <2>3. CASE op' = [op EXCEPT !.kind = "finalize"]
    <3>1. op'.kind = "finalize" /\ op'.todo = op.todo
      BY <1>2, <2>3 DEF Ops
    <3> QED
      BY <2>2, <3>1 DEF Confirming, Waiting, HasPending
  <2>4. CASE Begun("confirm", op.todo, NoVersions, op.ok)
    <3>1. op' = Idle \/ (op'.kind = "confirm" /\ Waiting' \subseteq op.todo)
      BY <2>4 DEF Begun, Waiting
    <3> QED
      BY <2>2, <3>1, IdleIsTyped DEF Confirming, HasPending
  <2> QED
    BY <1>6, <2>3, <2>4
<1>13. Counted'
  <2> SUFFICES ASSUME NEW c \in Bundles, HasPending(wal'[c])
               PROVE  clean'[c][wal'[c].pending] >= wal'[c].confirms
    BY DEF Counted, HasPending
  <2>1. CASE c # b
    <3>1. wal'[c] = wal[c] /\ wal[c] \in BundleStates(Content)
      BY <1>7, <2>1 DEF CountInv, TypeOK
    <3>2. wal[c].pending \in Versions
      BY <3>1, Constants DEF HasPending, BundleStates
    <3>3. clean'[c][wal[c].pending] = clean[c][wal[c].pending]
      BY <1>8, <2>1, <3>2
    <3> QED
      BY <3>1, <3>3 DEF CountInv, Counted, HasPending
  <2>2. CASE c = b
    <3>1. wal'[b] = RecordProbe(w)
      BY <1>2, <1>7
    <3>2. ~Promotes(w)
      BY <1>3, <2>2, <3>1, ProbeTypes DEF HasPending
    <3>3. wal'[b].pending = w.pending /\ wal'[b].confirms = w.confirms + 1
      BY <1>3, <3>1, <3>2, ProbeTypes
    <3>4. clean[b][w.pending] >= w.confirms
      BY <1>2, <1>4 DEF CountInv, Counted
    <3>5. w.confirms + 1 < StableThreshold
      BY <1>5, <3>2, ThresholdAssumption DEF Promotes
    <3>6. clean'[b][w.pending] = IF clean[b][w.pending] < StableThreshold
                                 THEN clean[b][w.pending] + 1 ELSE clean[b][w.pending]
      BY <1>2, <1>5, <1>8
    <3>7. clean[b][w.pending] \in 0..StableThreshold
      BY <1>2, <1>5, <1>9
    <3> QED
      BY <1>5, <2>2, <3>3, <3>4, <3>5, <3>6, <3>7, ThresholdAssumption
  <2> QED
    BY <2>1, <2>2
<1>14. FloorIsGood'
  BY <1>1, <1>2, <1>3, <1>7, ProbeTypes DEF CountInv, FloorIsGood
<1>15. ProvenFloor'
  <2> SUFFICES ASSUME NEW c \in Bundles, NEW v \in {wal'[c].lkg, wal'[c].min} \ {None}
               PROVE  clean'[c][v] >= StableThreshold
    BY DEF ProvenFloor
  <2>1. wal[c] \in BundleStates(Content)
    BY DEF CountInv, TypeOK
  <2>2. CASE v \in {wal[c].lkg, wal[c].min}
    <3>1. clean[c][v] >= StableThreshold
      BY <2>2 DEF CountInv, ProvenFloor
    <3>2. v \in Versions
      BY <2>1, <2>2, Constants DEF BundleStates
    <3>3. clean[c][v] \in 0..StableThreshold
      BY <1>9, <3>2
    <3> QED
      BY <1>8, <3>1, <3>2, <3>3, ThresholdAssumption
  <2>3. CASE v \notin {wal[c].lkg, wal[c].min}
    <3>1. c = b /\ wal'[b] = RecordProbe(w)
      BY <1>2, <1>7, <2>3
    <3>2. Promotes(w) /\ v = w.pending
      BY <1>3, <2>3, <3>1, ProbeTypes
    <3>3. clean[b][w.pending] >= w.confirms
      BY <1>2, <1>4 DEF CountInv, Counted
    <3>4. clean[b][w.pending] \in 0..StableThreshold
      BY <1>2, <1>5, <1>9
    <3>5. w.confirms + 1 >= StableThreshold
      BY <3>2 DEF Promotes
    <3>6. clean'[b][w.pending] = IF clean[b][w.pending] < StableThreshold
                                 THEN clean[b][w.pending] + 1 ELSE clean[b][w.pending]
      BY <1>2, <1>5, <1>8
    <3> QED
      BY <1>5, <3>1, <3>2, <3>3, <3>4, <3>5, <3>6, ThresholdAssumption
  <2> QED
    BY <2>2, <2>3
<1> QED
  BY <1>10, <1>11, <1>12, <1>13, <1>14, <1>15 DEF CountInv

LEMMA CountBoot ==
  ASSUME CountInv, Boot \/ OperationFails
  PROVE  CountInv'
<1>1. UNCHANGED <<wal, active, bak, stages, clean, blind>> /\ op' = Idle
  BY DEF Boot, OperationFails
<1>2. mounted' \in [Bundles -> Content] /\ recent' \subseteq Bundles
  <2>1. \A b \in Bundles : active[b]["img"] \in Content
    BY DEF CountInv, TypeOK, Parts
  <2> QED
    BY <2>1, Constants DEF Boot, OperationFails, CountInv, TypeOK
<1>3. faults' \in 0..MaxFaults
  BY BoundAssumption DEF Boot, OperationFails, CountInv, TypeOK
<1>4. TypeOK'
  BY <1>1, <1>2, <1>3, IdleIsTyped DEF CountInv, TypeOK
<1>5. OneAtATime' /\ Confirming' /\ Counted' /\ FloorIsGood' /\ ProvenFloor'
  BY <1>1, IdleIsTyped DEF CountInv, OneAtATime, Confirming, Counted, FloorIsGood, ProvenFloor, HasPending
<1> QED
  BY <1>4, <1>5 DEF CountInv

LEMMA CountNext ==
  ASSUME CountInv, [Next]_vars
  PROVE  CountInv'
<1>1. CASE UNCHANGED vars
  BY <1>1
  DEF vars, CountInv, TypeOK, OneAtATime, Confirming, Waiting, Counted, FloorIsGood,
      ProvenFloor, HasPending
<1>2. ASSUME NEW vs \in Manifests, StageSaves(vs)
      PROVE  CountInv'
  <2>1. PICK bs \in SUBSET Bundles : vs \in [bs -> Versions]
    BY ManifestAssumption
  <2> QED
    BY <1>2, <2>1, CountStage
<1>3. CASE Confirm
  <2>1. \A b \in PendingBundles : {b} \in SUBSET PendingBundles
    OBVIOUS
  <2> QED
    BY <1>3, <2>1, CountConfirm DEF Confirm
<1>4. CASE DaemonStep
  BY <1>4, CountFiles, CountFailedProbe, CountCleanProbe DEF DaemonStep
<1>5. CASE Boot \/ OperationFails
  BY <1>5, CountBoot
<1> QED
  BY <1>1, <1>2, <1>3, <1>4, <1>5 DEF Next

THEOREM FirmwareInvariant == Spec => []CountInv
<1>1. CountInv /\ [Next]_vars => CountInv'
  BY CountNext
<1> QED
  BY <1>1, CountInit, PTL DEF Spec

(* Every variable of the firmware track keeps its type: the records of     *)
(* deployment.json count below the threshold, an operation names a bundle. *)
THEOREM FirmwareTypes == Spec => []TypeOK
<1>1. CountInv => TypeOK
  BY DEF CountInv
<1> QED
  BY <1>1, FirmwareInvariant, PTL

(* The floor and last_known_good name only versions that probed clean      *)
(* stable_threshold times since they were staged last, for any stagings,   *)
(* crashes, failed steps and probe results: no confirmation is inherited.  *)
THEOREM FloorIsProven == Spec => []ProvenFloor
<1>1. CountInv => ProvenFloor
  BY DEF CountInv
<1> QED
  BY <1>1, FirmwareInvariant, PTL

-----------------------------------------------------------------------------
(* The first update of a machine, cut anywhere: what each file of a bundle *)
(* can be.  A candidate that mounted is whole in the active slot, since an *)
(* activation never runs in the boot that mounted it.                      *)

After == [img |-> {"hash", "manifest", "sig"}, hash |-> {"manifest", "sig"},
          manifest |-> {"sig"}, sig |-> {}]

(* A file the activation in progress has still to come to. *)
Untouched(b, p) ==
  /\ op.kind = "activate"
  /\ \/ b \in op.todo
     \/ b = op.bundle /\ (p \in After[op.part] \/ (p = op.part /\ ~op.kept))

Fresh(b) ==
  /\ wal[b] = Provisioned(Installed) /\ mounted[b] \in {None, Installed}
  /\ \A p \in Parts : active[b][p] = Installed /\ bak[b][p] = None

Files(b) ==
  \A p \in Parts :
    /\ bak[b][p] \in {None, Installed}
    /\ wal[b].lkg = Installed => Installed \in {active[b][p], bak[b][p]}
    /\ wal[b].lkg # Installed => active[b][p] = wal[b].lkg
    /\ HasPending(wal[b]) /\ mounted[b] = wal[b].pending => active[b][p] = wal[b].pending
    /\ Untouched(b, p) => active[b][p] = Installed /\ bak[b][p] = None

Turns(b) ==
  /\ op.kind = "activate" => mounted[b] \in {None, Installed} /\ wal[b].lkg = Installed
  /\ op.kind = "activate" /\ b = op.bundle /\ op.kept => bak[b][op.part] = Installed
  /\ op.kind = "restore" /\ b = op.bundle => ~HasPending(wal[b]) /\ wal[b].lkg = Installed
  /\ op.kind = "finalize" /\ b = op.bundle => wal[b].lkg # Installed

Newer(b) ==
  HasPending(wal[b]) => wal[b].pending > Installed /\ wal[b].lkg = Installed

FirstUpdate ==
  /\ stages = 0 => op = Idle /\ blind = {} /\ \A b \in Bundles : Fresh(b)
  /\ stages <= 1 => /\ op.kind = "activate" => blind = {}
                    /\ \A b \in blind : ~HasPending(wal[b])
                    /\ \A b \in Bundles \ blind : Files(b) /\ Turns(b) /\ Newer(b)

LEMMA FirstInit == Init => FirstUpdate
<1> SUFFICES ASSUME Init PROVE FirstUpdate
  OBVIOUS
<1>1. stages = 0 /\ op = Idle /\ op.kind = "none" /\ blind = {}
  BY IdleIsTyped DEF Init
<1>2. \A b \in Bundles : Fresh(b)
  BY DEF Init, Fresh
<1>3. \A b \in Bundles : wal[b].lkg = Installed /\ wal[b].pending = None
  BY DEF Init, Provisioned
<1>4. \A b \in Bundles : Files(b) /\ Turns(b) /\ Newer(b)
  BY <1>1, <1>2, <1>3 DEF Files, Turns, Newer, Fresh, Untouched, HasPending
<1> QED
  BY <1>1, <1>2, <1>4 DEF FirstUpdate

LEMMA FirstStage ==
  ASSUME CountInv, FirstUpdate, NEW bs \in SUBSET Bundles, NEW vs \in [bs -> Versions],
         StageSaves(vs)
  PROVE  FirstUpdate'
<1> DEFINE ver == [b \in Bundles |-> IF b \in DOMAIN vs THEN vs[b] ELSE None]
<1>1. stages \in Nat /\ stages' = stages + 1
  BY BoundAssumption DEF StageSaves, CountInv, TypeOK
<1> SUFFICES ASSUME stages = 0, NEW b \in Bundles PROVE (Files(b) /\ Turns(b) /\ Newer(b))'
  <2>1. stages = 0 => blind' = {}
    BY DEF FirstUpdate, StageSaves
  <2> QED
    BY <1>1, <2>1 DEF FirstUpdate
<1>2. DOMAIN vs = bs /\ ver \in [Bundles -> Content]
  BY Constants
<1>3. Begun("activate", bs, ver, FALSE)
  BY <1>2, BeginEffect DEF StageSaves, Kinds
<1>4. Fresh(b)
  BY DEF FirstUpdate
<1>5. wal[b].lkg = Installed /\ wal[b].min = Installed /\ wal[b].pending = None
  BY <1>4 DEF Fresh, Provisioned
<1>6. wal[b] \in BundleStates(Content)
  BY DEF CountInv, TypeOK
<1>7. /\ wal'[b].lkg = Installed
      /\ HasPending(wal'[b]) => wal'[b].pending > Installed
  <2>1. CASE b \in bs
    <3>1. wal'[b] = DeployFirmware(wal[b], vs[b]) /\ vs[b] > wal[b].min
      BY <1>2, <2>1 DEF StageSaves, Accepted, AboveFloor
    <3> QED
      BY <1>5, <1>6, <2>1, <3>1, DeployTypes
  <2>2. CASE b \notin bs
    <3>1. wal'[b] = wal[b]
      BY <1>2, <2>2 DEF StageSaves
    <3> QED
      BY <1>5, <3>1 DEF HasPending
  <2> QED
    BY <2>1, <2>2
<1>8. UNCHANGED <<active, bak, mounted>>
  BY DEF StageSaves
<1>9. op' = Idle \/ (op'.kind = "activate" /\ op'.kept = FALSE)
  BY <1>3 DEF Begun
<1>10. Files(b)'
  <2>1. HasPending(wal'[b]) => mounted'[b] # wal'[b].pending
    BY <1>4, <1>7, <1>8, Constants DEF Fresh, HasPending
  <2> QED
    BY <1>4, <1>7, <1>8, <2>1 DEF Files, Fresh, HasPending
<1>11. Turns(b)'
  BY <1>4, <1>7, <1>8, <1>9, IdleIsTyped DEF Turns, Fresh
<1>12. Newer(b)'
  BY <1>7 DEF Newer, HasPending
<1> QED
  BY <1>10, <1>11, <1>12

(* An action that leaves the files alone and starts or ends an operation   *)
(* other than a staging.                                                   *)
LEMMA FilesKept ==
  ASSUME NEW b \in Bundles, Files(b), UNCHANGED <<active, bak, mounted>>,
         wal'[b] = wal[b], op'.kind # "activate"
  PROVE  Files(b)'
BY DEF Files, Untouched, HasPending

LEMMA FirstConfirm ==
  ASSUME CountInv, FirstUpdate, NEW bs \in SUBSET PendingBundles,
         NEW ok \in BOOLEAN, ConfirmBegins(bs, ok)
  PROVE  FirstUpdate'
<1>1. bs \in SUBSET Bundles /\ NoVersions \in [Bundles -> Content]
  BY Constants DEF PendingBundles, NoVersions
<1>2. Begun("confirm", bs, NoVersions, ok)
  BY <1>1, BeginEffect DEF ConfirmBegins, Kinds
<1>3. UNCHANGED <<wal, active, bak, mounted, stages, blind>>
  BY DEF ConfirmBegins
<1>4. op'.kind \in {"none", "confirm"}
  BY <1>2, IdleIsTyped DEF Begun
<1>5. stages # 0
  <2>1. PICK b \in bs : b \in Bundles /\ HasPending(wal[b])
    BY DEF ConfirmBegins, PendingBundles
  <2>2. ~Fresh(b)
    BY <2>1 DEF Fresh, Provisioned, HasPending
  <2> QED
    BY <2>1, <2>2 DEF FirstUpdate
<1>6. ASSUME stages <= 1, NEW b \in Bundles \ blind' PROVE (Files(b) /\ Turns(b) /\ Newer(b))'
  <2>1. Files(b) /\ Newer(b)
    BY <1>3, <1>6 DEF FirstUpdate
  <2>2. Files(b)'
    BY <1>3, <1>4, <2>1, FilesKept
  <2> QED
    BY <1>3, <1>4, <2>1, <2>2 DEF Turns, Newer, HasPending
<1> QED
  BY <1>3, <1>4, <1>5, <1>6 DEF FirstUpdate, HasPending

LEMMA FirstFailedProbe ==
  ASSUME CountInv, FirstUpdate, ProbeFails
  PROVE  FirstUpdate'
<1>1. /\ op.kind = "confirm"
      /\ wal' = [wal EXCEPT ![op.bundle] = RollbackFirmware(wal[op.bundle])]
      /\ op' = [op EXCEPT !.kind = "restore", !.part = "manifest"]
      /\ UNCHANGED <<active, bak, mounted, stages, blind>>
  BY DEF ProbeFails
<1>2. op.bundle \in Bundles /\ op \in Ops
  BY <1>1 DEF CountInv, OneAtATime, TypeOK
<1>3. op'.kind = "restore" /\ op'.bundle = op.bundle
  BY <1>1, <1>2 DEF Ops
<1>4. stages # 0
  BY <1>1, IdleIsTyped DEF FirstUpdate
<1>5. ASSUME stages <= 1, NEW b \in Bundles \ blind' PROVE (Files(b) /\ Turns(b) /\ Newer(b))'
  <2>1. Files(b) /\ Newer(b) /\ wal[b] \in BundleStates(Content)
    BY <1>1, <1>5 DEF FirstUpdate, CountInv, TypeOK
  <2>2. CASE b # op.bundle
    <3>1. wal'[b] = wal[b]
      BY <1>1, <2>2 DEF CountInv, TypeOK
    <3>2. Files(b)'
      BY <1>1, <1>3, <2>1, <3>1, FilesKept
    <3> QED
      BY <1>3, <2>1, <2>2, <3>1, <3>2 DEF Turns, Newer, HasPending
  <2>3. CASE b = op.bundle
    <3>1. wal'[b] = RollbackFirmware(wal[b])
      BY <1>1, <2>3 DEF CountInv, TypeOK
    <3>2. wal'[b].pending = None /\ wal'[b].lkg = wal[b].lkg
      BY <2>1, <3>1, RollbackTypes
    <3>3. HasPending(wal[b])
      BY <1>1, <2>3 DEF CountInv, Confirming, Waiting
    <3>4. wal[b].lkg = Installed
      BY <2>1, <3>3 DEF Newer
    <3>5. Files(b)'
      BY <1>1, <1>3, <2>1, <3>2 DEF Files, Untouched, HasPending
    <3> QED
      BY <1>3, <2>3, <3>2, <3>4, <3>5 DEF Turns, Newer, HasPending
  <2> QED
    BY <2>2, <2>3
<1>6. ASSUME stages <= 1, NEW b \in blind PROVE ~HasPending(wal'[b])
  <2>1. b \in Bundles /\ ~HasPending(wal[b])
    BY <1>6 DEF FirstUpdate, CountInv, TypeOK
  <2>2. HasPending(wal[op.bundle])
    BY <1>1 DEF CountInv, Confirming, Waiting
  <2>3. wal'[b] = wal[b]
    BY <1>1, <2>1, <2>2 DEF CountInv, TypeOK
  <2> QED
    BY <2>1, <2>3
<1> QED
  BY <1>1, <1>3, <1>4, <1>5, <1>6 DEF FirstUpdate, HasPending

LEMMA FirstCleanProbe ==
  ASSUME CountInv, FirstUpdate, ProbeClean
  PROVE  FirstUpdate'
<1> DEFINE c == op.bundle
           w == wal[c]
<1>1. /\ op.kind = "confirm" /\ op.ok
      /\ wal' = [wal EXCEPT ![c] = RecordProbe(w)]
      /\ IF DropsBackups(w) THEN op' = [op EXCEPT !.kind = "finalize"]
         ELSE Begin("confirm", op.todo, NoVersions, op.ok)
      /\ blind' = IF ~Promotes(w) THEN blind
                  ELSE IF Running(c) THEN blind \ {c} ELSE blind \cup {c}
      /\ UNCHANGED <<active, bak, mounted, stages>>
  BY DEF ProbeClean
<1>2. c \in Bundles /\ op \in Ops /\ op.todo \in SUBSET Bundles
  BY <1>1 DEF CountInv, OneAtATime, TypeOK, Ops
<1>3. w \in BundleStates(Content) /\ HasPending(w)
  BY <1>1, <1>2 DEF CountInv, TypeOK, Confirming, Waiting
<1>4. \/ Promotes(w) /\ op'.kind = "finalize" /\ op'.bundle = c
      \/ ~Promotes(w) /\ op'.kind \in {"none", "confirm"}
  <2>1. CASE Promotes(w)
    BY <1>1, <1>2, <2>1 DEF DropsBackups, Ops
  <2>2. CASE ~Promotes(w)
    <3>1. NoVersions \in [Bundles -> Content] /\ op.ok \in BOOLEAN
      BY <1>2, Constants DEF NoVersions, Ops
    <3>2. Begun("confirm", op.todo, NoVersions, op.ok)
      BY <1>1, <1>2, <2>2, <3>1, BeginEffect DEF Kinds, DropsBackups
    <3> QED
      BY <2>2, <3>2, IdleIsTyped DEF Begun
  <2> QED
    BY <2>1, <2>2
<1>5. stages # 0
  BY <1>1, IdleIsTyped DEF FirstUpdate
<1>6. ASSUME stages <= 1, NEW b \in Bundles \ blind' PROVE (Files(b) /\ Turns(b) /\ Newer(b))'
  <2>1. Files(b) /\ Newer(b)
    <3>1. c \notin blind
      BY <1>3, <1>6 DEF FirstUpdate
    <3> QED
      BY <1>1, <1>6, <3>1 DEF FirstUpdate
  <2>2. CASE b # c
    <3>1. wal'[b] = wal[b]
      BY <1>1, <2>2 DEF CountInv, TypeOK
    <3>2. Files(b)'
      BY <1>1, <1>4, <2>1, <3>1, FilesKept
    <3> QED
      BY <1>4, <2>1, <2>2, <3>1, <3>2 DEF Turns, Newer, HasPending
  <2>3. CASE b = c
    <3>1. wal'[b] = RecordProbe(w)
      BY <1>1, <1>2, <2>3 DEF CountInv, TypeOK
    <3>2. /\ w.pending > Installed /\ w.pending # Installed /\ w.lkg = Installed
      <4>1. w.pending \in Nat /\ Installed \in Nat
        BY <1>3, Constants DEF BundleStates
      <4> QED
        BY <1>3, <2>1, <2>3, <4>1 DEF Newer
    <3>3. \A p \in Parts : /\ mounted[b] = w.pending => active[b][p] = w.pending
                           /\ bak[b][p] \in {None, Installed}
                           /\ Installed \in {active[b][p], bak[b][p]}
      BY <1>3, <2>1, <2>3, <3>2 DEF Files
    <3>4. CASE Promotes(w)
      <4>3. mounted[b] = w.pending
        BY <1>1, <1>6, <2>3, <3>4 DEF Running
      <4>1. wal'[b].pending = None /\ wal'[b].lkg = w.pending
        BY <1>3, <3>1, <3>4, ProbeTypes
      <4>2. Files(b)'
        BY <1>1, <1>4, <3>2, <3>3, <3>4, <4>1, <4>3 DEF Files, Untouched, HasPending
      <4> QED
        BY <1>4, <3>2, <3>4, <4>1, <4>2 DEF Turns, Newer, HasPending
    <3>5. CASE ~Promotes(w)
      <4>1. wal'[b].pending = w.pending /\ wal'[b].lkg = w.lkg
        BY <1>3, <3>1, <3>5, ProbeTypes
      <4>2. Files(b)'
        BY <1>1, <1>4, <3>2, <3>3, <3>5, <4>1 DEF Files, Untouched, HasPending
      <4> QED
        BY <1>4, <3>2, <3>5, <4>1, <4>2 DEF Turns, Newer, HasPending
    <3> QED
      BY <3>4, <3>5
  <2> QED
    BY <2>2, <2>3
<1>7. ASSUME stages <= 1, NEW b \in blind' PROVE ~HasPending(wal'[b])
  <2>1. CASE b = c
    <3>1. Promotes(w)
      BY <1>1, <1>3, <1>7, <2>1 DEF FirstUpdate
    <3>2. wal'[b] = RecordProbe(w)
      BY <1>1, <1>2, <2>1 DEF CountInv, TypeOK
    <3> QED
      BY <1>3, <3>1, <3>2, ProbeTypes DEF HasPending
  <2>2. CASE b # c
    <3>1. b \in blind /\ b \in Bundles
      BY <1>1, <1>7, <2>2 DEF CountInv, TypeOK
    <3>2. wal'[b] = wal[b]
      BY <1>1, <2>2, <3>1 DEF CountInv, TypeOK
    <3> QED
      BY <1>1, <1>7, <3>1, <3>2 DEF FirstUpdate
  <2> QED
    BY <2>1, <2>2
<1> QED
  BY <1>1, <1>4, <1>5, <1>6, <1>7 DEF FirstUpdate

(* The steps of an operation on the files, one file of one bundle each.    *)

LEMMA FirstKeepActive ==
  ASSUME CountInv, FirstUpdate, KeepActive
  PROVE  FirstUpdate'
<1> DEFINE c == op.bundle
           q == op.part
<1>1. op.kind = "activate" /\ ~op.kept /\ UNCHANGED <<wal, mounted, stages, blind>>
  BY DEF KeepActive
<1>2. c \in Bundles \ op.todo /\ op \in Ops /\ q \in Parts
  BY <1>1 DEF CountInv, OneAtATime, TypeOK, Ops
<1>3. /\ op'.kind = op.kind /\ op'.bundle = c /\ op'.todo = op.todo /\ op'.part = q
      /\ op'.kept = TRUE
  BY <1>2 DEF KeepActive, Ops
<1>4. stages # 0
  BY <1>1, IdleIsTyped DEF FirstUpdate
<1>5. ASSUME stages <= 1, NEW b \in Bundles \ blind' PROVE (Files(b) /\ Turns(b) /\ Newer(b))'
  <2>1. Files(b) /\ Turns(b) /\ Newer(b) /\ Files(c) /\ Turns(c)
    BY <1>1, <1>2, <1>5 DEF FirstUpdate
  <2>2. active[c][q] = Installed /\ bak[c][q] = None
    BY <1>1, <1>2, <2>1 DEF Files, Untouched
  <2>3. \/ Installed = None /\ UNCHANGED <<active, bak>>
        \/ /\ Installed # None
           /\ bak' = [bak EXCEPT ![c][q] = Installed]
           /\ active' = [active EXCEPT ![c][q] = None]
    BY <2>2, Zenon DEF KeepActive
  <2>4. \A p \in Parts :
          /\ bak'[b][p] = IF b = c /\ p = q THEN Installed ELSE bak[b][p]
          /\ active'[b][p] = IF b = c /\ p = q THEN None ELSE active[b][p]
    <3>1. CASE Installed = None
      BY <2>2, <2>3, <3>1
    <3>2. CASE Installed # None
      <4>1. /\ active \in [Bundles -> [Parts -> Content]]
            /\ bak \in [Bundles -> [Parts -> Content]]
            /\ None \in Content /\ Installed \in Content
        BY Constants DEF CountInv, TypeOK
      <4>2. \A p \in Parts : [bak EXCEPT ![c][q] = Installed][b][p]
                               = IF b = c /\ p = q THEN Installed ELSE bak[b][p]
        BY <1>2, <4>1, SetPart
      <4>3. \A p \in Parts : [active EXCEPT ![c][q] = None][b][p]
                               = IF b = c /\ p = q THEN None ELSE active[b][p]
        BY <1>2, <4>1, SetPart
      <4> QED
        BY <2>3, <3>2, <4>2, <4>3
    <3> QED
      BY <3>1, <3>2
  <2>5. \A p \in Parts : Untouched(b, p)' => Untouched(b, p) /\ ~(b = c /\ p = q)
    BY <1>1, <1>2, <1>3 DEF Untouched, After, Parts
  <2>6. wal[b].lkg = Installed /\ mounted[b] \in {None, Installed}
    BY <1>1, <2>1 DEF Turns
  <2>7. HasPending(wal[b]) => mounted[b] # wal[b].pending
    <3>1. wal[b].pending \in Nat /\ Installed \in Nat
      BY Constants DEF CountInv, TypeOK, BundleStates
    <3> QED
      BY <2>1, <2>6, <3>1 DEF Newer, HasPending
  <2>8. Files(b)'
    <3> SUFFICES ASSUME NEW p \in Parts
                 PROVE  /\ bak'[b][p] \in {None, Installed}
                        /\ Installed \in {active'[b][p], bak'[b][p]}
                        /\ Untouched(b, p)' => active'[b][p] = Installed /\ bak'[b][p] = None
      BY <1>1, <2>6, <2>7 DEF Files, HasPending
    <3>1. /\ bak[b][p] \in {None, Installed} /\ Installed \in {active[b][p], bak[b][p]}
          /\ Untouched(b, p) => active[b][p] = Installed /\ bak[b][p] = None
      BY <2>1, <2>6 DEF Files
    <3> QED
      BY <2>4, <2>5, <3>1
  <2>9. Turns(b)' /\ Newer(b)'
    BY <1>1, <1>2, <1>3, <2>1, <2>4 DEF Turns, Newer, HasPending
  <2> QED
    BY <2>8, <2>9
<1>6. stages <= 1 => blind' = {}
  BY <1>1 DEF FirstUpdate
<1> QED
  BY <1>1, <1>4, <1>5, <1>6 DEF FirstUpdate

LEMMA FirstInstall ==
  ASSUME CountInv, FirstUpdate, InstallNext
  PROVE  FirstUpdate'
<1> DEFINE c == op.bundle
           q == op.part
           v == op.ver[c]
<1>1. /\ op.kind = "activate" /\ op.kept
      /\ active' = [active EXCEPT ![c][q] = v]
      /\ UNCHANGED <<wal, bak, mounted, stages, blind>>
  BY DEF InstallNext
<1>2. c \in Bundles \ op.todo /\ op \in Ops /\ q \in Parts /\ v \in Content
  BY <1>1 DEF CountInv, OneAtATime, TypeOK, Ops
<1>3. \/ /\ Activated[q] \in Parts
         /\ op'.kind = "activate" /\ op'.bundle = c /\ op'.todo = op.todo
         /\ op'.part = Activated[q] /\ op'.kept = FALSE
      \/ Activated[q] = "end" /\ Begun("activate", op.todo, op.ver, op.ok)
  <2>1. \/ /\ Activated[q] \in Parts
           /\ op' = [op EXCEPT !.part = Activated[q], !.kept = FALSE]
        \/ Activated[q] = "end" /\ Begun("activate", op.todo, op.ver, op.ok)
    BY ContinueEffect, OrdersAreOrders DEF InstallNext, CountInv, Kinds
  <2> QED
    BY <1>1, <1>2, <2>1 DEF Ops
<1>4. stages # 0
  BY <1>1, IdleIsTyped DEF FirstUpdate
<1>5. ASSUME stages <= 1, NEW b \in Bundles \ blind' PROVE (Files(b) /\ Turns(b) /\ Newer(b))'
  <2>1. Files(b) /\ Turns(b) /\ Newer(b) /\ Files(c) /\ Turns(c)
    BY <1>1, <1>2, <1>5 DEF FirstUpdate
  <2>2. bak[c][q] = Installed
    BY <1>1, <2>1 DEF Turns
  <2>3. \A p \in Parts : active'[b][p] = IF b = c /\ p = q THEN v ELSE active[b][p]
    <3>1. active \in [Bundles -> [Parts -> Content]]
      BY DEF CountInv, TypeOK
    <3>2. \A p \in Parts : [active EXCEPT ![c][q] = v][b][p]
                             = IF b = c /\ p = q THEN v ELSE active[b][p]
      BY <1>2, <3>1, SetPart
    <3> QED
      BY <1>1, <3>2
  <2>4. \A p \in Parts : Untouched(b, p)' => Untouched(b, p) /\ ~(b = c /\ p = q)
    <3>1. CASE Activated[q] # "end"
      <4>1. \A p \in Parts :
              p \in After[Activated[q]] \/ p = Activated[q] => p \in After[q] /\ p # q
        BY <1>2, <1>3, <3>1 DEF After, Activated, Parts
      <4> QED
        BY <1>1, <1>2, <1>3, <3>1, <4>1 DEF Untouched
    <3>2. CASE Activated[q] = "end"
      <4>1. Begun("activate", op.todo, op.ver, op.ok)
        BY <1>3, <3>2 DEF Parts
      <4>2. op' = Idle \/ (op'.bundle \in op.todo /\ op'.todo \subseteq op.todo)
        BY <4>1 DEF Begun
      <4> QED
        BY <1>1, <1>2, <4>2, IdleIsTyped DEF Untouched
    <3> QED
      BY <3>1, <3>2
  <2>5. wal[b].lkg = Installed /\ mounted[b] \in {None, Installed}
    BY <1>1, <2>1 DEF Turns
  <2>6. HasPending(wal[b]) => mounted[b] # wal[b].pending
    <3>1. wal[b].pending \in Nat /\ Installed \in Nat
      BY Constants DEF CountInv, TypeOK, BundleStates
    <3> QED
      BY <2>1, <2>5, <3>1 DEF Newer, HasPending
  <2>7. Files(b)'
    <3> SUFFICES ASSUME NEW p \in Parts
                 PROVE  /\ bak'[b][p] \in {None, Installed}
                        /\ Installed \in {active'[b][p], bak'[b][p]}
                        /\ Untouched(b, p)' => active'[b][p] = Installed /\ bak'[b][p] = None
      BY <1>1, <2>5, <2>6 DEF Files, HasPending
    <3>1. /\ bak[b][p] \in {None, Installed} /\ Installed \in {active[b][p], bak[b][p]}
          /\ Untouched(b, p) => active[b][p] = Installed /\ bak[b][p] = None
      BY <2>1, <2>5 DEF Files
    <3> QED
      BY <1>1, <2>2, <2>3, <2>4, <3>1
  <2>8. (op'.kind = "activate" /\ op'.kept = FALSE) \/ op' = Idle
    BY <1>3 DEF Begun
  <2>9. Turns(b)' /\ Newer(b)'
    BY <1>1, <2>1, <2>5, <2>8, IdleIsTyped DEF Turns, Newer, HasPending
  <2> QED
    BY <2>7, <2>9
<1>6. stages <= 1 => blind' = {}
  BY <1>1 DEF FirstUpdate
<1> QED
  BY <1>1, <1>4, <1>5, <1>6 DEF FirstUpdate

(* Going on after a file was restored or its backup dropped.               *)
LEMMA NextTurn ==
  ASSUME CountInv, op.kind \in {"restore", "finalize"},
         NEW order \in Orders, Continue(order, "confirm")
  PROVE  \/ op'.kind = op.kind /\ op'.bundle = op.bundle
         \/ op'.kind \in {"none", "confirm"}
<1>1. op \in Ops /\ "confirm" \in Kinds \ {"none"}
  BY DEF CountInv, TypeOK, Kinds
<1>2. \/ op' = [op EXCEPT !.part = order[op.part], !.kept = FALSE]
      \/ Begun("confirm", op.todo, op.ver, op.ok)
  BY <1>1, ContinueEffect DEF CountInv
<1> QED
  BY <1>1, <1>2, IdleIsTyped DEF Begun, Ops

LEMMA FirstRestore ==
  ASSUME CountInv, FirstUpdate, RestoreBackup
  PROVE  FirstUpdate'
<1> DEFINE c == op.bundle
           q == op.part
<1>1. op.kind = "restore" /\ UNCHANGED <<wal, mounted, stages, blind>>
  BY DEF RestoreBackup
<1>2. c \in Bundles /\ op \in Ops /\ q \in Parts
  BY <1>1 DEF CountInv, OneAtATime, TypeOK, Ops
<1>3. \/ op'.kind = "restore" /\ op'.bundle = c
      \/ op'.kind \in {"none", "confirm"}
  BY <1>1, NextTurn, OrdersAreOrders DEF RestoreBackup
<1>4. stages # 0
  BY <1>1, IdleIsTyped DEF FirstUpdate
<1>5. ASSUME stages <= 1, NEW b \in Bundles \ blind', b = c PROVE (Files(b) /\ Turns(b) /\ Newer(b))'
  <2>1. Files(b) /\ Turns(b) /\ Newer(b) /\ Files(c) /\ Turns(c)
    BY <1>1, <1>2, <1>5 DEF FirstUpdate
  <2>2. ~HasPending(wal[c]) /\ wal[c].lkg = Installed
    BY <1>1, <2>1 DEF Turns
  <2>3. bak[c][q] \in {None, Installed} /\ Installed \in {active[c][q], bak[c][q]}
    BY <1>2, <2>1, <2>2 DEF Files
  <2>4. \/ UNCHANGED <<active, bak>>
        \/ /\ bak[c][q] = Installed
           /\ active' = [active EXCEPT ![c][q] = Installed]
           /\ bak' = [bak EXCEPT ![c][q] = None]
    <3>1. \/ bak[c][q] = None /\ UNCHANGED <<active, bak>>
          \/ /\ bak[c][q] # None
             /\ active' = [active EXCEPT ![c][q] = bak[c][q]]
             /\ bak' = [bak EXCEPT ![c][q] = None]
      BY Zenon DEF RestoreBackup
    <3> QED
      BY <2>3, <3>1
  <2>5. \A p \in Parts :
          \/ active'[b][p] = active[b][p] /\ bak'[b][p] = bak[b][p]
          \/ b = c /\ active'[b][p] = Installed /\ bak'[b][p] = None
    <3>1. CASE UNCHANGED <<active, bak>>
      BY <3>1
    <3>2. CASE /\ active' = [active EXCEPT ![c][q] = Installed]
               /\ bak' = [bak EXCEPT ![c][q] = None]
      <4>1. /\ active \in [Bundles -> [Parts -> Content]]
            /\ bak \in [Bundles -> [Parts -> Content]]
            /\ None \in Content /\ Installed \in Content
        BY Constants DEF CountInv, TypeOK
      <4>2. \A p \in Parts : [bak EXCEPT ![c][q] = None][b][p]
                               = IF b = c /\ p = q THEN None ELSE bak[b][p]
        BY <1>2, <4>1, SetPart
      <4>3. \A p \in Parts : [active EXCEPT ![c][q] = Installed][b][p]
                               = IF b = c /\ p = q THEN Installed ELSE active[b][p]
        BY <1>2, <4>1, SetPart
      <4> QED
        BY <3>2, <4>2, <4>3
    <3> QED
      BY <2>4, <3>1, <3>2
  <2>6. Files(b)'
    <3>1. \A p \in Parts : ~Untouched(b, p)'
      BY <1>3 DEF Untouched
    <3> QED
      BY <1>1, <2>1, <2>2, <2>5, <3>1 DEF Files, HasPending
  <2>7. Turns(b)' /\ Newer(b)'
    BY <1>1, <1>3, <2>1, <2>2 DEF Turns, Newer, HasPending
  <2> QED
    BY <2>6, <2>7
<1>6. ASSUME stages <= 1, NEW b \in Bundles \ blind', b # c
      PROVE  (Files(b) /\ Turns(b) /\ Newer(b))'
  <2>1. Files(b) /\ Turns(b) /\ Newer(b)
    BY <1>1, <1>6 DEF FirstUpdate
  <2>2. active'[b] = active[b] /\ bak'[b] = bak[b]
    BY <1>6 DEF RestoreBackup, CountInv, TypeOK
  <2>3. \A p \in Parts : ~Untouched(b, p)'
    BY <1>3 DEF Untouched
  <2>4. Files(b)'
    BY <1>1, <2>1, <2>2, <2>3 DEF Files, HasPending
  <2> QED
    BY <1>1, <1>3, <1>6, <2>1, <2>4 DEF Turns, Newer, HasPending
<1> QED
  BY <1>1, <1>3, <1>4, <1>5, <1>6 DEF FirstUpdate, HasPending

LEMMA FirstDrop ==
  ASSUME CountInv, FirstUpdate, DropBackup
  PROVE  FirstUpdate'
<1> DEFINE c == op.bundle
           q == op.part
<1>1. /\ op.kind = "finalize" /\ UNCHANGED <<wal, active, mounted, stages, blind>>
      /\ bak' = [bak EXCEPT ![c][q] = None]
  BY DEF DropBackup
<1>2. c \in Bundles /\ op \in Ops /\ q \in Parts
  BY <1>1 DEF CountInv, OneAtATime, TypeOK, Ops
<1>3. \/ op'.kind = "finalize" /\ op'.bundle = c
      \/ op'.kind \in {"none", "confirm"}
  BY <1>1, NextTurn, OrdersAreOrders DEF DropBackup
<1>4. stages # 0
  BY <1>1, IdleIsTyped DEF FirstUpdate
<1>5. ASSUME stages <= 1, NEW b \in Bundles \ blind', b = c PROVE (Files(b) /\ Turns(b) /\ Newer(b))'
  <2>1. Files(b) /\ Turns(b) /\ Newer(b) /\ Turns(c)
    BY <1>1, <1>2, <1>5 DEF FirstUpdate
  <2>2. wal[c].lkg # Installed
    BY <1>1, <2>1 DEF Turns
  <2>3. \A p \in Parts : bak'[b][p] = IF b = c /\ p = q THEN None ELSE bak[b][p]
    <3>1. bak \in [Bundles -> [Parts -> Content]] /\ None \in Content
      BY Constants DEF CountInv, TypeOK
    <3>2. \A p \in Parts : [bak EXCEPT ![c][q] = None][b][p]
                             = IF b = c /\ p = q THEN None ELSE bak[b][p]
      BY <1>2, <3>1, SetPart
    <3> QED
      BY <1>1, <3>2
  <2>4. Files(b)'
    <3>1. \A p \in Parts : ~Untouched(b, p)'
      BY <1>3 DEF Untouched
    <3> QED
      BY <1>1, <2>1, <2>2, <2>3, <3>1 DEF Files, HasPending
  <2>5. Turns(b)' /\ Newer(b)'
    BY <1>1, <1>3, <2>1, <2>2 DEF Turns, Newer, HasPending
  <2> QED
    BY <2>4, <2>5
<1>6. ASSUME stages <= 1, NEW b \in Bundles \ blind', b # c
      PROVE  (Files(b) /\ Turns(b) /\ Newer(b))'
  <2>1. Files(b) /\ Turns(b) /\ Newer(b)
    BY <1>1, <1>6 DEF FirstUpdate
  <2>2. active'[b] = active[b] /\ bak'[b] = bak[b]
    BY <1>6 DEF DropBackup, CountInv, TypeOK
  <2>3. \A p \in Parts : ~Untouched(b, p)'
    BY <1>3 DEF Untouched
  <2>4. Files(b)'
    BY <1>1, <2>1, <2>2, <2>3 DEF Files, HasPending
  <2> QED
    BY <1>1, <1>3, <1>6, <2>1, <2>4 DEF Turns, Newer, HasPending
<1> QED
  BY <1>1, <1>3, <1>4, <1>5, <1>6 DEF FirstUpdate, HasPending

(* A bundle that mounts has four files of one version.                     *)
LEMMA WholeIsOne ==
  ASSUME NEW b, Whole(b)
  PROVE  \A p \in Parts : active[b][p] = active[b]["img"]
<1> DEFINE vs == {active[b][p] : p \in Parts}
<1>1. vs = ((({active[b]["img"]} \cup {active[b]["hash"]})
              \cup {active[b]["manifest"]}) \cup {active[b]["sig"]})
  BY DEF Parts
<1>2. IsFiniteSet(vs)
  <2>1. IsFiniteSet({active[b]["img"]})
    BY FS_Singleton
  <2>2. IsFiniteSet({active[b]["img"]} \cup {active[b]["hash"]})
    BY <2>1, FS_AddElement
  <2>3. IsFiniteSet(({active[b]["img"]} \cup {active[b]["hash"]}) \cup {active[b]["manifest"]})
    BY <2>2, FS_AddElement
  <2>4. IsFiniteSet((({active[b]["img"]} \cup {active[b]["hash"]})
                       \cup {active[b]["manifest"]}) \cup {active[b]["sig"]})
    BY <2>3, FS_AddElement
  <2> QED
    BY <1>1, <2>4
<1>3. PICK v : vs = {v}
  BY <1>2, FS_Singleton DEF Whole
<1>4. \A p \in Parts : active[b][p] = v
  BY <1>3
<1> QED
  BY <1>4 DEF Parts

LEMMA FirstBoot ==
  ASSUME CountInv, FirstUpdate, Boot \/ OperationFails
  PROVE  FirstUpdate'
<1>1. UNCHANGED <<wal, active, bak, stages, blind>> /\ op' = Idle /\ op'.kind = "none"
  BY IdleIsTyped DEF Boot, OperationFails
<1>2. \A b \in Bundles :
        \/ mounted'[b] = mounted[b]
        \/ mounted'[b] = None
        \/ \A p \in Parts : active[b][p] = mounted'[b]
  BY WholeIsOne DEF Boot, OperationFails
<1>3. ASSUME stages = 0, NEW b \in Bundles PROVE Fresh(b)'
  <2>1. Fresh(b)
    BY <1>3 DEF FirstUpdate
  <2> QED
    BY <1>1, <1>2, <2>1 DEF Fresh, Parts
<1>4. ASSUME stages <= 1, NEW b \in Bundles \ blind PROVE (Files(b) /\ Turns(b) /\ Newer(b))'
  <2>1. Files(b) /\ Newer(b)
    BY <1>4 DEF FirstUpdate
  <2>2. Files(b)'
    <3>1. \A p \in Parts : ~Untouched(b, p)'
      BY <1>1 DEF Untouched
    <3> QED
      BY <1>1, <1>2, <2>1, <3>1 DEF Files, HasPending
  <2> QED
    BY <1>1, <2>1, <2>2 DEF Turns, Newer, HasPending
<1> QED
  BY <1>1, <1>3, <1>4 DEF FirstUpdate, HasPending

LEMMA FirstNext ==
  ASSUME CountInv, FirstUpdate, [Next]_vars
  PROVE  FirstUpdate'
<1>1. CASE UNCHANGED vars
  BY <1>1
  DEF vars, FirstUpdate, Fresh, Files, Turns, Newer, Untouched, HasPending
<1>2. ASSUME NEW vs \in Manifests, StageSaves(vs)
      PROVE  FirstUpdate'
  <2>1. PICK bs \in SUBSET Bundles : vs \in [bs -> Versions]
    BY ManifestAssumption
  <2> QED
    BY <1>2, <2>1, FirstStage
<1>3. CASE Confirm
  <2>1. \A b \in PendingBundles : {b} \in SUBSET PendingBundles
    OBVIOUS
  <2> QED
    BY <1>3, <2>1, FirstConfirm DEF Confirm
<1>4. CASE DaemonStep
  BY <1>4, FirstKeepActive, FirstInstall, FirstFailedProbe, FirstCleanProbe, FirstRestore,
     FirstDrop
  DEF DaemonStep
<1>5. CASE Boot \/ OperationFails
  BY <1>5, FirstBoot
<1> QED
  BY <1>1, <1>2, <1>3, <1>4, <1>5 DEF Next

(* However the first update of a machine is cut, by crashes, failed steps  *)
(* and failed probes, each file of the last known good firmware is in the  *)
(* active slot or in its backup, of every bundle that was not promoted in  *)
(* a boot that had not mounted it.                                         *)
THEOREM GoodIsKept == Spec => []GoodKept
<1>1. CountInv /\ FirstUpdate /\ [Next]_vars => FirstUpdate'
  BY FirstNext
<1>2. FirstUpdate => GoodKept
  BY DEF FirstUpdate, Files, GoodKept
<1> QED
  BY <1>1, <1>2, FirstInit, FirmwareInvariant, PTL DEF Spec

-----------------------------------------------------------------------------
(* The floor: what the files of a bundle can be after one fault.           *)

(* The bundles of the operation in progress. *)
InHand == op.todo \cup {op.bundle}

(* A bundle that is being activated was staged in this boot.               *)
Staged ==
  op.kind = "activate" =>
    \A b \in InHand : HasPending(wal[b]) /\ op.ver[b] = wal[b].pending /\ b \in recent

Probing ==
  /\ op.kind = "confirm" => op.part = "img"
  /\ op.kind \in {"restore", "finalize"} => ~HasPending(wal[op.bundle])
  /\ op.kind = "finalize" /\ op.bundle \notin blind =>
       \A p \in Parts : active[op.bundle][p] # None

(* A candidate that this boot mounted is whole in the active slot, however *)
(* often it was probed since.                                              *)
Settled(b) ==
  HasPending(wal[b]) /\ Running(b) => \A p \in Parts : active[b][p] = wal[b].pending

Orderly == Staged /\ Probing /\ \A b \in Bundles : Settled(b)

Above(b, v) == v = None \/ v >= wal[b].min

(* Backups may be below the floor while they are dropped, and after a      *)
(* fault that cut this short until an activation replaces them.            *)
Dropping(b, p) ==
  op.kind = "finalize" /\ b = op.bundle /\ p \in After[op.part] \cup {op.part}

Stale(b, p) ==
  /\ faults = 1 /\ active[b][p] # None
  /\ ~HasPending(wal[b]) \/ Untouched(b, p)
  /\ ~(op.kind = "restore" /\ b = op.bundle)

FloorFiles(b) ==
  /\ HasPending(wal[b]) => wal[b].pending > wal[b].min
  /\ Above(b, mounted[b])
  /\ \A p \in Parts :
       /\ Above(b, active[b][p])
       /\ Above(b, bak[b][p]) \/ Dropping(b, p) \/ Stale(b, p)

Floors == faults <= 1 => \A b \in Bundles \ blind : FloorFiles(b)

FloorInv == Orderly /\ Floors

LEMMA FloorInit == Init => FloorInv
<1> SUFFICES ASSUME Init PROVE FloorInv
  OBVIOUS
<1>1. op.kind = "none" /\ Installed \in Nat
  BY IdleIsTyped, Constants DEF Init
<1>2. blind = {} /\ \A b \in Bundles : wal[b].pending = None /\ wal[b].min = Installed
                         /\ mounted[b] = Installed
  BY DEF Init, Provisioned
<1>3. \A b \in Bundles, p \in Parts : active[b][p] = Installed /\ bak[b][p] = None
  BY DEF Init
<1>4. Orderly
  BY <1>1, <1>2 DEF Orderly, Staged, Probing, Settled, HasPending
<1>5. Floors
  BY <1>1, <1>2, <1>3 DEF Floors, FloorFiles, Above, HasPending
<1> QED
  BY <1>4, <1>5 DEF FloorInv

LEMMA FloorStage ==
  ASSUME CountInv, FloorInv, NEW bs \in SUBSET Bundles, NEW vs \in [bs -> Versions],
         StageSaves(vs)
  PROVE  FloorInv'
<1> DEFINE ver == [b \in Bundles |-> IF b \in DOMAIN vs THEN vs[b] ELSE None]
<1>1. DOMAIN vs = bs /\ ver \in [Bundles -> Content]
  BY Constants
<1>2. Begun("activate", bs, ver, FALSE)
  BY <1>1, BeginEffect DEF StageSaves, Kinds
<1>3. UNCHANGED <<active, bak, mounted, faults, blind>> /\ op.kind = "none"
      /\ recent' = recent \cup bs
  BY <1>1, IdleIsTyped DEF StageSaves
<1>4. \A b \in Bundles : wal[b] \in BundleStates(Content)
  BY DEF CountInv, TypeOK
<1>5. \A b \in Bundles :
        /\ b \in bs => wal'[b] = DeployFirmware(wal[b], vs[b]) /\ vs[b] > wal[b].min
        /\ b \notin bs => wal'[b] = wal[b]
  BY <1>1 DEF StageSaves, Accepted, AboveFloor
<1>6. \A b \in Bundles :
        /\ wal'[b].min = wal[b].min
        /\ b \in bs => /\ wal'[b].pending = vs[b] /\ wal'[b].confirms = 0
                       /\ HasPending(wal'[b]) /\ vs[b] > wal[b].min
  <2> SUFFICES ASSUME NEW b \in Bundles
               PROVE  /\ wal'[b].min = wal[b].min
                      /\ b \in bs => /\ wal'[b].pending = vs[b] /\ wal'[b].confirms = 0
                                     /\ HasPending(wal'[b]) /\ vs[b] > wal[b].min
    OBVIOUS
  <2>1. CASE b \in bs
    <3>1. vs[b] \in Versions /\ vs[b] # None
      BY <2>1, VersionAssumption DEF None
    <3> QED
      BY <1>4, <1>5, <2>1, <3>1, DeployTypes DEF HasPending
  <2>2. CASE b \notin bs
    BY <1>5, <2>2
  <2> QED
    BY <2>1, <2>2
<1>7. \/ op'.kind = "none" /\ Waiting' = {}
      \/ /\ op'.kind = "activate" /\ InHand' = bs /\ op'.ver = ver
         /\ op'.part = "img" /\ ~op'.kept /\ op'.bundle \in bs /\ op'.todo = bs \ {op'.bundle}
  BY <1>2, IdleIsTyped DEF Begun, InHand, Waiting
<1>8. bs # {} => op'.kind = "activate"
  <2>1. CASE bs # {}
    <3>1. PICK b \in InTurn("activate", bs) :
            op' = [Idle EXCEPT !.kind = "activate", !.bundle = b, !.todo = bs \ {b},
                               !.ver = ver, !.ok = FALSE]
      BY <1>1, <2>1 DEF StageSaves, Begin
    <3> QED
      BY <3>1 DEF Idle
  <2> QED
    BY <2>1
<1>9. Orderly'
  <2>1. Staged'
    BY <1>1, <1>3, <1>6, <1>7 DEF Staged, HasPending
  <2>2. Probing'
    BY <1>7 DEF Probing
  <2>3. ASSUME NEW b \in Bundles PROVE Settled(b)'
    <3>1. CASE b \in bs
      BY <1>3, <3>1 DEF Settled, Running
    <3>2. CASE b \notin bs
      <4>1. wal'[b] = wal[b] /\ Settled(b)
        BY <1>5, <3>2 DEF FloorInv, Orderly
      <4> QED
        BY <1>3, <4>1 DEF Settled, Running, HasPending
    <3> QED
      BY <3>1, <3>2
  <2> QED
    BY <2>1, <2>2, <2>3 DEF Orderly
<1>10. ASSUME faults <= 1, NEW b \in Bundles \ blind PROVE FloorFiles(b)'
  <2>1. FloorFiles(b)
    BY <1>10 DEF FloorInv, Floors
  <2>2. HasPending(wal'[b]) => wal'[b].pending > wal'[b].min
    BY <1>5, <1>6, <2>1 DEF FloorFiles, HasPending
  <2>3. ASSUME NEW p \in Parts PROVE Above(b, bak[b][p])' \/ Stale(b, p)'
    <3>1. Above(b, bak[b][p]) \/ Stale(b, p)
      BY <1>3, <2>1 DEF FloorFiles, Dropping
    <3>2. CASE Above(b, bak[b][p])
      BY <1>3, <1>6, <3>2 DEF Above
    <3>3. CASE Stale(b, p)
      <4>1. ~HasPending(wal[b]) /\ faults' = 1 /\ active'[b][p] # None
        BY <1>3, <3>3 DEF Stale, Untouched
      <4>2. ~(op'.kind = "restore" /\ b = op'.bundle)
        BY <1>7
      <4>3. CASE b \in bs
        <5>1. p \in After["img"] \cup {"img"}
          BY DEF After, Parts
        <5>2. Untouched(b, p)'
          BY <1>7, <1>8, <4>3, <5>1 DEF Untouched
        <5> QED
          BY <4>1, <4>2, <5>2 DEF Stale
      <4>4. CASE b \notin bs
        BY <1>5, <4>1, <4>2, <4>4 DEF Stale, HasPending
      <4> QED
        BY <4>3, <4>4
    <3> QED
      BY <3>1, <3>2, <3>3
  <2> QED
    BY <1>3, <1>6, <2>1, <2>2, <2>3 DEF FloorFiles, Above
<1>11. Floors'
  BY <1>3, <1>10 DEF Floors
<1> QED
  BY <1>9, <1>11 DEF FloorInv

(* An action that leaves record, files and mount of a bundle alone.        *)
LEMMA FloorFrame ==
  ASSUME NEW b \in Bundles, FloorFiles(b), wal'[b] = wal[b], mounted'[b] = mounted[b],
         active'[b] = active[b], bak'[b] = bak[b], faults' = faults,
         \A p \in Parts : Dropping(b, p) => Dropping(b, p)',
         \A p \in Parts : Untouched(b, p) => Untouched(b, p)' \/ ~HasPending(wal[b]),
         op'.kind = "restore" /\ b = op'.bundle => op.kind = "restore" /\ b = op.bundle
  PROVE  FloorFiles(b)'
<1>1. ASSUME NEW p \in Parts, Stale(b, p) PROVE Stale(b, p)'
  BY <1>1 DEF Stale, HasPending
<1> QED
  BY <1>1 DEF FloorFiles, Above, HasPending

LEMMA SettledFrame ==
  ASSUME NEW b \in Bundles, Settled(b), wal'[b] = wal[b], mounted'[b] = mounted[b],
         \A p \in Parts : active'[b][p] = active[b][p], recent' = recent
  PROVE  Settled(b)'
BY DEF Settled, Running, HasPending

LEMMA FloorConfirm ==
  ASSUME CountInv, FloorInv, NEW bs \in SUBSET PendingBundles, NEW ok \in BOOLEAN,
         ConfirmBegins(bs, ok)
  PROVE  FloorInv'
<1>1. bs \in SUBSET Bundles /\ NoVersions \in [Bundles -> Content]
  BY Constants DEF PendingBundles, NoVersions
<1>2. Begun("confirm", bs, NoVersions, ok)
  BY <1>1, BeginEffect DEF ConfirmBegins, Kinds
<1>3. UNCHANGED <<wal, active, bak, mounted, faults, recent, blind>> /\ op.kind = "none"
  BY IdleIsTyped DEF ConfirmBegins
<1>4. \/ op'.kind = "none" /\ Waiting' = {}
      \/ op'.kind = "confirm" /\ InHand' = bs /\ Waiting' = bs /\ op'.part = "img"
  BY <1>2, IdleIsTyped DEF Begun, InHand, Waiting
<1>5. Staged' /\ Probing'
  BY <1>3, <1>4 DEF Staged, Probing
<1>6. ASSUME NEW b \in Bundles PROVE Settled(b)'
  BY <1>3, SettledFrame DEF FloorInv, Orderly
<1>7. Floors'
  <2> SUFFICES ASSUME faults <= 1, NEW b \in Bundles \ blind PROVE FloorFiles(b)'
    BY <1>3 DEF Floors
  <2>1. FloorFiles(b)
    BY DEF FloorInv, Floors
  <2>2. \A p \in Parts : ~Dropping(b, p) /\ ~Untouched(b, p)
    BY <1>3 DEF Dropping, Untouched
  <2> QED
    BY <1>3, <1>4, <2>1, <2>2, FloorFrame
<1> QED
  BY <1>5, <1>6, <1>7 DEF FloorInv, Orderly

LEMMA FloorFailedProbe ==
  ASSUME CountInv, FloorInv, ProbeFails
  PROVE  FloorInv'
<1> DEFINE c == op.bundle
<1>1. /\ op.kind = "confirm"
      /\ wal' = [wal EXCEPT ![c] = RollbackFirmware(wal[c])]
      /\ op' = [op EXCEPT !.kind = "restore", !.part = "manifest"]
      /\ UNCHANGED <<active, bak, mounted, faults, recent, blind>>
  BY DEF ProbeFails
<1>2. c \in Bundles \ op.todo /\ op \in Ops
  BY <1>1 DEF CountInv, OneAtATime, TypeOK
<1>3. op'.kind = "restore" /\ op'.bundle = c /\ op'.todo = op.todo
  BY <1>1, <1>2 DEF Ops
<1>4. wal[c] \in BundleStates(Content) /\ HasPending(wal[c])
  BY <1>1, <1>2 DEF CountInv, TypeOK, Confirming, Waiting
<1>5. /\ wal'[c].pending = None /\ wal'[c].min = wal[c].min
      /\ \A b \in Bundles \ {c} : wal'[b] = wal[b]
  <2>1. wal'[c] = RollbackFirmware(wal[c])
    BY <1>1, <1>2 DEF CountInv, TypeOK
  <2>2. \A b \in Bundles \ {c} : wal'[b] = wal[b]
    BY <1>1 DEF CountInv, TypeOK
  <2> QED
    BY <1>4, <2>1, <2>2, RollbackTypes
<1>6. Staged' /\ Probing'
  BY <1>1, <1>3, <1>5 DEF Staged, Probing, HasPending
<1>7. ASSUME NEW b \in Bundles PROVE Settled(b)'
  <2>1. CASE b = c
    BY <1>5, <2>1 DEF Settled, HasPending
  <2>2. CASE b # c
    BY <1>1, <1>5, <2>2, SettledFrame DEF FloorInv, Orderly
  <2> QED
    BY <2>1, <2>2
<1>8. Floors'
  <2> SUFFICES ASSUME faults <= 1, NEW b \in Bundles \ blind PROVE FloorFiles(b)'
    BY <1>1 DEF Floors
  <2>1. FloorFiles(b)
    BY DEF FloorInv, Floors
  <2>2. \A p \in Parts : ~Dropping(b, p) /\ ~Untouched(b, p)
    BY <1>1 DEF Dropping, Untouched
  <2>3. CASE b # c
    BY <1>1, <1>3, <1>5, <2>1, <2>2, <2>3, FloorFrame
  <2>4. CASE b = c
    <3>1. \A p \in Parts : Above(b, active[b][p]) /\ Above(b, bak[b][p])
      BY <1>4, <2>1, <2>2, <2>4 DEF FloorFiles, Stale
    <3> QED
      BY <1>1, <1>5, <2>1, <2>4, <3>1 DEF FloorFiles, Above, HasPending
  <2> QED
    BY <2>3, <2>4
<1> QED
  BY <1>6, <1>7, <1>8 DEF FloorInv, Orderly

(* A promotion finds the candidate whole in the active slot if the boot    *)
(* mounted it.                                                             *)
LEMMA FloorCleanProbe ==
  ASSUME CountInv, FloorInv, ProbeClean
  PROVE  FloorInv'
<1> DEFINE c == op.bundle
           w == wal[c]
<1>1. /\ op.kind = "confirm" /\ op.ok
      /\ wal' = [wal EXCEPT ![c] = RecordProbe(w)]
      /\ IF DropsBackups(w) THEN op' = [op EXCEPT !.kind = "finalize"]
         ELSE Begin("confirm", op.todo, NoVersions, op.ok)
      /\ blind' = IF ~Promotes(w) THEN blind
                  ELSE IF Running(c) THEN blind \ {c} ELSE blind \cup {c}
      /\ UNCHANGED <<active, bak, mounted, faults, recent>>
  BY DEF ProbeClean
<1>2. c \in Bundles \ op.todo /\ op \in Ops /\ op.todo \in SUBSET Bundles
  BY <1>1 DEF CountInv, OneAtATime, TypeOK, Ops
<1>3. w \in BundleStates(Content) /\ HasPending(w)
  BY <1>1, <1>2 DEF CountInv, TypeOK, Confirming, Waiting
<1>4. op.part = "img"
  BY <1>1 DEF FloorInv, Orderly, Probing
<1>5. \/ /\ Promotes(w) /\ op'.kind = "finalize" /\ op'.bundle = c
         /\ op'.todo = op.todo /\ op'.part = "img"
      \/ ~Promotes(w) /\ op'.kind = "none" /\ Waiting' = {}
      \/ /\ ~Promotes(w) /\ op'.kind = "confirm"
         /\ InHand' = op.todo /\ Waiting' = op.todo /\ op'.part = "img"
  <2>1. CASE Promotes(w)
    BY <1>1, <1>2, <1>4, <2>1 DEF DropsBackups, Ops
  <2>2. CASE ~Promotes(w)
    <3>1. NoVersions \in [Bundles -> Content] /\ op.ok \in BOOLEAN
      BY <1>2, Constants DEF NoVersions, Ops
    <3>2. Begun("confirm", op.todo, NoVersions, op.ok)
      <4>1. Begin("confirm", op.todo, NoVersions, op.ok)
        BY <1>1, <2>2 DEF DropsBackups
      <4> QED
        BY <1>2, <3>1, <4>1, BeginEffect DEF Kinds
    <3>3. CASE op' = Idle
      BY <2>2, <3>3, IdleIsTyped DEF Waiting
    <3>4. CASE op' # Idle
      BY <2>2, <3>2, <3>4 DEF Begun, InHand, Waiting
    <3> QED
      BY <3>3, <3>4
  <2> QED
    BY <2>1, <2>2
<1>6. /\ wal'[c] = RecordProbe(w)
      /\ \A b \in Bundles \ {c} : wal'[b] = wal[b]
  BY <1>1, <1>2 DEF CountInv, TypeOK
<1>7. ASSUME Promotes(w), c \notin blind'
      PROVE  mounted[c] = w.pending /\ \A p \in Parts : active[c][p] = w.pending
  BY <1>1, <1>2, <1>3, <1>7 DEF FloorInv, Orderly, Settled, Running
<1>8. Staged' /\ Probing'
  <2>1. Promotes(w) => /\ ~HasPending(wal'[c])
                       /\ c \notin blind' => \A p \in Parts : active[c][p] # None
    BY <1>3, <1>6, <1>7, ProbeTypes DEF HasPending
  <2> QED
    BY <1>1, <1>4, <1>5, <2>1 DEF Staged, Probing, HasPending
<1>9. ASSUME NEW b \in Bundles PROVE Settled(b)'
  <2>1. CASE b = c /\ Promotes(w)
    BY <1>3, <1>6, <2>1, ProbeTypes DEF Settled, HasPending
  <2>2. CASE b = c /\ ~Promotes(w)
    <3>1. wal'[b].pending = w.pending
      BY <1>3, <1>6, <2>2, ProbeTypes
    <3> QED
      BY <1>1, <2>2, <3>1 DEF FloorInv, Orderly, Settled, Running, HasPending
  <2>3. CASE b # c
    BY <1>1, <1>6, <2>3, SettledFrame DEF FloorInv, Orderly
  <2> QED
    BY <2>1, <2>2, <2>3
<1>10. Floors'
  <2> SUFFICES ASSUME faults <= 1, NEW b \in Bundles \ blind' PROVE FloorFiles(b)'
    BY <1>1 DEF Floors
  <2>1. b # c \/ ~Promotes(w) => FloorFiles(b)
    BY <1>1 DEF FloorInv, Floors
  <2>2. \A p \in Parts : ~Dropping(b, p) /\ ~Untouched(b, p)
    BY <1>1 DEF Dropping, Untouched
  <2>3. CASE b # c
    BY <1>1, <1>5, <1>6, <2>1, <2>2, <2>3, FloorFrame
  <2>4. CASE b = c /\ Promotes(w)
    <3>1. wal'[c].pending = None /\ wal'[c].min = w.pending /\ w.pending \in Nat
      BY <1>3, <1>6, <2>4, ProbeTypes, Constants DEF BundleStates
    <3>2. ASSUME NEW p \in Parts PROVE Dropping(b, p)' /\ Above(b, active[b][p])'
      <4>1. p \in After["img"] \cup {"img"}
        BY DEF After, Parts
      <4>2. Dropping(b, p)'
        BY <1>5, <2>4, <4>1 DEF Dropping
      <4>3. Above(b, active[b][p])'
        BY <1>1, <1>7, <2>4, <3>1 DEF Above
      <4> QED
        BY <4>2, <4>3
    <3>3. Above(b, mounted[b])'
      BY <1>1, <1>7, <2>4, <3>1 DEF Above
    <3> QED
      BY <2>4, <3>1, <3>2, <3>3 DEF FloorFiles, HasPending
  <2>5. CASE b = c /\ ~Promotes(w)
    <3>1. wal'[c].pending = w.pending /\ wal'[c].min = w.min
      BY <1>3, <1>6, <2>5, ProbeTypes
    <3>2. \A p \in Parts : Above(c, bak[c][p])
      BY <1>3, <2>1, <2>2, <2>5 DEF FloorFiles, Stale
    <3> QED
      BY <1>1, <2>1, <2>5, <3>1, <3>2 DEF FloorFiles, Above, HasPending
  <2> QED
    BY <2>3, <2>4, <2>5
<1> QED
  BY <1>8, <1>9, <1>10 DEF FloorInv, Orderly

(* ActivateFirmwareSlot: what it puts aside is at the floor or above it. *)
LEMMA FloorKeepActive ==
  ASSUME CountInv, FloorInv, KeepActive
  PROVE  FloorInv'
<1> DEFINE c == op.bundle
           q == op.part
<1>1. op.kind = "activate" /\ ~op.kept /\ UNCHANGED <<wal, mounted, faults, recent, blind>>
  BY DEF KeepActive
<1>2. c \in Bundles \ op.todo /\ op \in Ops /\ q \in Parts
  BY <1>1 DEF CountInv, OneAtATime, TypeOK, Ops
<1>3. /\ op'.kind = op.kind /\ op'.bundle = c /\ op'.todo = op.todo /\ op'.part = q
      /\ op'.kept = TRUE /\ op'.ver = op.ver
  BY <1>2 DEF KeepActive, Ops
<1>4. ASSUME NEW b \in Bundles, NEW p \in Parts
      PROVE  /\ ~(b = c /\ p = q) => active'[b][p] = active[b][p] /\ bak'[b][p] = bak[b][p]
             /\ active'[c][q] = None
             /\ \/ active[c][q] = None /\ bak'[c][q] = bak[c][q]
                \/ active[c][q] # None /\ bak'[c][q] = active[c][q]
  <2>1. \/ active[c][q] = None /\ UNCHANGED <<active, bak>>
        \/ /\ active[c][q] # None
           /\ bak' = [bak EXCEPT ![c][q] = active[c][q]]
           /\ active' = [active EXCEPT ![c][q] = None]
    BY Zenon DEF KeepActive
  <2>2. CASE active[c][q] = None /\ UNCHANGED <<active, bak>>
    BY <2>2
  <2>3. CASE /\ active[c][q] # None
             /\ bak' = [bak EXCEPT ![c][q] = active[c][q]]
             /\ active' = [active EXCEPT ![c][q] = None]
    <3>1. /\ active \in [Bundles -> [Parts -> Content]]
          /\ bak \in [Bundles -> [Parts -> Content]]
          /\ None \in Content /\ active[c][q] \in Content
      BY <1>2, Constants DEF CountInv, TypeOK
    <3>2. /\ [bak EXCEPT ![c][q] = active[c][q]][b][p]
               = IF b = c /\ p = q THEN active[c][q] ELSE bak[b][p]
          /\ [bak EXCEPT ![c][q] = active[c][q]][c][q] = active[c][q]
      BY <1>2, <3>1, SetPart
    <3>3. /\ [active EXCEPT ![c][q] = None][b][p]
               = IF b = c /\ p = q THEN None ELSE active[b][p]
          /\ [active EXCEPT ![c][q] = None][c][q] = None
      BY <1>2, <3>1, SetPart
    <3> QED
      BY <2>3, <3>2, <3>3
  <2> QED
    BY <2>1, <2>2, <2>3
<1>5. Staged' /\ Probing'
  BY <1>1, <1>3 DEF FloorInv, Orderly, Staged, Probing, InHand, HasPending
<1>6. \A b \in InHand : b \in recent
  BY <1>1 DEF FloorInv, Orderly, Staged
<1>7. ASSUME NEW b \in Bundles PROVE Settled(b)'
  <2>1. CASE b = c
    BY <1>1, <1>6, <2>1 DEF Settled, Running, InHand
  <2>2. CASE b # c
    BY <1>1, <1>4, <2>2, SettledFrame DEF FloorInv, Orderly
  <2> QED
    BY <2>1, <2>2
<1>8. Floors'
  <2> SUFFICES ASSUME faults <= 1, NEW b \in Bundles \ blind PROVE FloorFiles(b)'
    BY <1>1 DEF Floors
  <2>1. FloorFiles(b)
    BY DEF FloorInv, Floors
  <2>2. ASSUME NEW p \in Parts
        PROVE  /\ Above(b, active[b][p])'
               /\ Above(b, bak[b][p])' \/ Stale(b, p)'
    <3>1. /\ Above(b, active[b][p])
          /\ Above(b, bak[b][p]) \/ Stale(b, p)
      BY <1>1, <2>1 DEF FloorFiles, Dropping
    <3>2. CASE b = c /\ p = q
      <4>1. Above(b, bak[b][p])'
        BY <1>1, <1>4, <3>1, <3>2 DEF Above, Stale
      <4>2. Above(b, active[b][p])'
        BY <1>4, <3>2 DEF Above
      <4> QED
        BY <4>1, <4>2
    <3>3. CASE ~(b = c /\ p = q)
      <4>1. active'[b][p] = active[b][p] /\ bak'[b][p] = bak[b][p]
        BY <1>4, <3>3
      <4>2. Untouched(b, p) => Untouched(b, p)'
        BY <1>1, <1>3, <3>3 DEF Untouched
      <4>3. Stale(b, p) => Stale(b, p)'
        BY <1>1, <1>3, <4>1, <4>2 DEF Stale, HasPending
      <4> QED
        BY <1>1, <3>1, <4>1, <4>3 DEF Above
    <3> QED
      BY <3>2, <3>3
  <2> QED
    BY <1>1, <2>1, <2>2 DEF FloorFiles, Above, HasPending
<1> QED
  BY <1>5, <1>7, <1>8 DEF FloorInv, Orderly

LEMMA FloorInstall ==
  ASSUME CountInv, FloorInv, InstallNext
  PROVE  FloorInv'
<1> DEFINE c == op.bundle
           q == op.part
           v == op.ver[c]
<1>1. /\ op.kind = "activate" /\ op.kept
      /\ active' = [active EXCEPT ![c][q] = v]
      /\ UNCHANGED <<wal, bak, mounted, faults, recent, blind>>
  BY DEF InstallNext
<1>2. c \in Bundles \ op.todo /\ op \in Ops /\ q \in Parts /\ v \in Content
  BY <1>1 DEF CountInv, OneAtATime, TypeOK, Ops
<1>3. \/ /\ Activated[q] \in Parts
         /\ op'.kind = "activate" /\ op'.bundle = c /\ op'.todo = op.todo
         /\ op'.part = Activated[q] /\ op'.kept = FALSE /\ op'.ver = op.ver
      \/ Activated[q] = "end" /\ Begun("activate", op.todo, op.ver, op.ok)
  <2>1. \/ /\ Activated[q] \in Parts
           /\ op' = [op EXCEPT !.part = Activated[q], !.kept = FALSE]
        \/ Activated[q] = "end" /\ Begun("activate", op.todo, op.ver, op.ok)
    BY ContinueEffect, OrdersAreOrders DEF InstallNext, CountInv, Kinds
  <2> QED
    BY <1>1, <1>2, <2>1 DEF Ops
<1>4. \/ op'.kind = "none" /\ Waiting' = {}
      \/ op'.kind = "activate" /\ InHand' \subseteq InHand /\ op'.ver = op.ver
  BY <1>3, IdleIsTyped DEF Begun, InHand, Waiting
<1>5. \A b \in Bundles, p \in Parts :
        active'[b][p] = IF b = c /\ p = q THEN v ELSE active[b][p]
  <2>1. active \in [Bundles -> [Parts -> Content]]
    BY DEF CountInv, TypeOK
  <2>2. \A b \in Bundles, p \in Parts :
          [active EXCEPT ![c][q] = v][b][p] = IF b = c /\ p = q THEN v ELSE active[b][p]
    BY <1>2, <2>1, SetPart
  <2> QED
    BY <1>1, <2>2
<1>6. \A b \in InHand : HasPending(wal[b]) /\ op.ver[b] = wal[b].pending /\ b \in recent
  BY <1>1 DEF FloorInv, Orderly, Staged
<1>7. Staged' /\ Probing'
  BY <1>1, <1>4, <1>6 DEF Staged, Probing, HasPending
<1>8. ASSUME NEW b \in Bundles PROVE Settled(b)'
  <2>1. CASE b = c
    BY <1>1, <1>6, <2>1 DEF Settled, Running, InHand
  <2>2. CASE b # c
    <3>1. \A p \in Parts : active'[b][p] = active[b][p]
      BY <1>5, <2>2
    <3> QED
      BY <1>1, <3>1, SettledFrame DEF FloorInv, Orderly
  <2> QED
    BY <2>1, <2>2
<1>9. ASSUME NEW b \in Bundles, NEW p \in Parts, Untouched(b, p)
      PROVE  Untouched(b, p)' /\ ~(b = c /\ p = q)
  <2>1. ~(b = c /\ p = q)
    <3>1. q \notin After[q]
      BY <1>2 DEF After, Parts
    <3> QED
      BY <1>1, <1>2, <1>9, <3>1 DEF Untouched
  <2>2. CASE b = c
    <3>1. p \in After[q] /\ Activated[q] # "end"
      BY <1>1, <1>2, <1>9, <2>1, <2>2 DEF Untouched, After, Activated, Parts
    <3>2. p \in After[Activated[q]] \/ p = Activated[q]
      BY <1>2, <3>1 DEF After, Activated, Parts
    <3> QED
      BY <1>3, <2>1, <2>2, <3>1, <3>2 DEF Untouched
  <2>3. CASE b # c
    <3>1. b \in op.todo
      BY <1>9, <2>3 DEF Untouched
    <3>2. CASE Activated[q] # "end"
      BY <1>3, <2>1, <3>1, <3>2 DEF Untouched
    <3>3. CASE Activated[q] = "end"
      <4>1. Begun("activate", op.todo, op.ver, op.ok) /\ op' # Idle
        <5>1. Continue(Activated, "activate")
          BY DEF InstallNext
        <5>2. Begin("activate", op.todo, op.ver, op.ok)
          BY <3>3, <5>1 DEF Continue
        <5>3. PICK d \in InTurn("activate", op.todo) :
                op' = [Idle EXCEPT !.kind = "activate", !.bundle = d, !.todo = op.todo \ {d},
                                   !.ver = op.ver, !.ok = op.ok]
          BY <3>1, <5>2 DEF Begin
        <5>4. op'.kind = "activate"
          BY <5>3 DEF Idle
        <5> QED
          BY <1>3, <3>3, <5>4, IdleIsTyped DEF Parts
      <4>2. p \in After["img"] \cup {"img"}
        BY DEF After, Parts
      <4> QED
        BY <2>1, <3>1, <4>1, <4>2 DEF Untouched, Begun
    <3> QED
      BY <3>2, <3>3
  <2> QED
    BY <2>2, <2>3
<1>10. Floors'
  <2> SUFFICES ASSUME faults <= 1, NEW b \in Bundles \ blind PROVE FloorFiles(b)'
    BY <1>1 DEF Floors
  <2>1. FloorFiles(b)
    BY DEF FloorInv, Floors
  <2>2. ASSUME NEW p \in Parts
        PROVE  /\ Above(b, active[b][p])'
               /\ Above(b, bak[b][p])' \/ Stale(b, p)'
    <3>1. /\ Above(b, active[b][p])
          /\ Above(b, bak[b][p]) \/ Stale(b, p)
      BY <1>1, <2>1 DEF FloorFiles, Dropping
    <3>2. Above(b, active[b][p])'
      <4>1. CASE b = c /\ p = q
        <5>1. v = wal[b].pending /\ v > wal[b].min
          BY <1>6, <2>1, <4>1 DEF InHand, FloorFiles
        <5>2. wal[b].min \in Nat /\ v \in Nat
          BY <1>2, Constants DEF CountInv, TypeOK, BundleStates
        <5> QED
          BY <1>1, <1>5, <4>1, <5>1, <5>2 DEF Above
      <4>2. CASE ~(b = c /\ p = q)
        BY <1>1, <1>5, <3>1, <4>2 DEF Above
      <4> QED
        BY <4>1, <4>2
    <3>3. Stale(b, p) => Stale(b, p)'
      <4> SUFFICES ASSUME Stale(b, p) PROVE Stale(b, p)'
        OBVIOUS
      <4>1. CASE Untouched(b, p)
        BY <1>1, <1>4, <1>5, <1>9, <4>1 DEF Stale
      <4>2. CASE ~HasPending(wal[b])
        <5>1. b # c
          BY <1>6, <4>2 DEF InHand
        <5> QED
          BY <1>1, <1>4, <1>5, <4>2, <5>1 DEF Stale, HasPending
      <4> QED
        BY <4>1, <4>2 DEF Stale
    <3> QED
      BY <1>1, <3>1, <3>2, <3>3 DEF Above
  <2> QED
    BY <1>1, <2>1, <2>2 DEF FloorFiles, Above, HasPending
<1> QED
  BY <1>7, <1>8, <1>10 DEF FloorInv, Orderly

(* Going on after a file was restored or its backup dropped.               *)
LEMMA FloorGoesOn ==
  ASSUME CountInv, op.kind \in {"restore", "finalize"},
         NEW order \in Orders, Continue(order, "confirm")
  PROVE  \/ op'.kind = "none" /\ Waiting' = {}
         \/ op'.kind = op.kind /\ op'.bundle = op.bundle /\ op'.todo = op.todo
         \/ /\ op'.kind = "confirm" /\ InHand' = op.todo /\ Waiting' = op.todo
            /\ op'.part = "img"
<1>1. op \in Ops /\ "confirm" \in Kinds \ {"none"}
  BY DEF CountInv, TypeOK, Kinds
<1>2. \/ op' = [op EXCEPT !.part = order[op.part], !.kept = FALSE]
      \/ op' = Idle
      \/ Begun("confirm", op.todo, op.ver, op.ok) /\ op' # Idle
  BY <1>1, ContinueEffect DEF CountInv
<1>3. op' = [op EXCEPT !.part = order[op.part], !.kept = FALSE] =>
        op'.kind = op.kind /\ op'.bundle = op.bundle /\ op'.todo = op.todo
  BY <1>1 DEF Ops
<1>4. op' = Idle => op'.kind = "none" /\ Waiting' = {}
  BY IdleIsTyped DEF Waiting
<1>5. Begun("confirm", op.todo, op.ver, op.ok) /\ op' # Idle =>
        /\ op'.kind = "confirm" /\ InHand' = op.todo /\ Waiting' = op.todo
        /\ op'.part = "img"
  BY DEF Begun, InHand, Waiting
<1> QED
  BY <1>2, <1>3, <1>4, <1>5

(* RollbackFirmwareSlot: what it restores is at the floor or above it. *)
LEMMA FloorRestore ==
  ASSUME CountInv, FloorInv, RestoreBackup
  PROVE  FloorInv'
<1> DEFINE c == op.bundle
           q == op.part
<1>1. op.kind = "restore" /\ UNCHANGED <<wal, mounted, faults, recent, blind>>
  BY DEF RestoreBackup
<1>2. c \in Bundles \ op.todo /\ op \in Ops /\ q \in Parts
  BY <1>1 DEF CountInv, OneAtATime, TypeOK, Ops
<1>3. \/ op'.kind = "none" /\ Waiting' = {}
      \/ op'.kind = "restore" /\ op'.bundle = c /\ op'.todo = op.todo
      \/ /\ op'.kind = "confirm" /\ InHand' = op.todo /\ Waiting' = op.todo
         /\ op'.part = "img"
  BY <1>1, FloorGoesOn, OrdersAreOrders DEF RestoreBackup
<1>4. ASSUME NEW b \in Bundles, NEW p \in Parts
      PROVE  \/ active'[b][p] = active[b][p] /\ bak'[b][p] = bak[b][p]
             \/ b = c /\ active'[b][p] = bak[b][p] /\ bak'[b][p] = None
  <2>1. \/ UNCHANGED <<active, bak>>
        \/ /\ active' = [active EXCEPT ![c][q] = bak[c][q]]
           /\ bak' = [bak EXCEPT ![c][q] = None]
    BY Zenon DEF RestoreBackup
  <2>2. CASE UNCHANGED <<active, bak>>
    BY <2>2
  <2>3. CASE /\ active' = [active EXCEPT ![c][q] = bak[c][q]]
             /\ bak' = [bak EXCEPT ![c][q] = None]
    <3>1. /\ active \in [Bundles -> [Parts -> Content]]
          /\ bak \in [Bundles -> [Parts -> Content]]
          /\ None \in Content /\ bak[c][q] \in Content
      BY <1>2, Constants DEF CountInv, TypeOK
    <3>2. [bak EXCEPT ![c][q] = None][b][p] = IF b = c /\ p = q THEN None ELSE bak[b][p]
      BY <1>2, <3>1, SetPart
    <3>3. [active EXCEPT ![c][q] = bak[c][q]][b][p]
            = IF b = c /\ p = q THEN bak[c][q] ELSE active[b][p]
      BY <1>2, <3>1, SetPart
    <3> QED
      BY <2>3, <3>2, <3>3
  <2> QED
    BY <2>1, <2>2, <2>3
<1>5. ~HasPending(wal[c])
  BY <1>1 DEF FloorInv, Orderly, Probing
<1>6. Staged' /\ Probing'
  BY <1>1, <1>3, <1>5 DEF Staged, Probing, InHand, HasPending
<1>7. ASSUME NEW b \in Bundles PROVE Settled(b)'
  <2>1. CASE b = c
    BY <1>1, <1>5, <2>1 DEF Settled, HasPending
  <2>2. CASE b # c
    <3>1. \A p \in Parts : active'[b][p] = active[b][p]
      BY <1>4, <2>2
    <3> QED
      BY <1>1, <3>1, SettledFrame DEF FloorInv, Orderly
  <2> QED
    BY <2>1, <2>2
<1>8. Floors'
  <2> SUFFICES ASSUME faults <= 1, NEW b \in Bundles \ blind PROVE FloorFiles(b)'
    BY <1>1 DEF Floors
  <2>1. FloorFiles(b)
    BY DEF FloorInv, Floors
  <2>2. ASSUME NEW p \in Parts
        PROVE  /\ Above(b, active[b][p])'
               /\ Above(b, bak[b][p])' \/ Stale(b, p)'
    <3>1. /\ Above(b, active[b][p])
          /\ Above(b, bak[b][p]) \/ Stale(b, p)
      BY <1>1, <2>1 DEF FloorFiles, Dropping
    <3>2. CASE b = c
      <4>1. Above(b, bak[b][p])
        BY <1>1, <3>1, <3>2 DEF Stale
      <4> QED
        BY <1>1, <1>4, <3>1, <4>1 DEF Above
    <3>3. CASE b # c
      <4>1. active'[b][p] = active[b][p] /\ bak'[b][p] = bak[b][p]
        BY <1>4, <3>3
      <4>2. Stale(b, p) => Stale(b, p)'
        BY <1>1, <1>3, <3>3, <4>1 DEF Stale, HasPending, Untouched
      <4> QED
        BY <1>1, <3>1, <4>1, <4>2 DEF Above
    <3> QED
      BY <3>2, <3>3
  <2> QED
    BY <1>1, <2>1, <2>2 DEF FloorFiles, Above, HasPending
<1> QED
  BY <1>6, <1>7, <1>8 DEF FloorInv, Orderly

(* FinalizeFirmwareSlot: one backup less that may be below the floor. *)
LEMMA FloorDrop ==
  ASSUME CountInv, FloorInv, DropBackup
  PROVE  FloorInv'
<1> DEFINE c == op.bundle
           q == op.part
<1>1. /\ op.kind = "finalize" /\ UNCHANGED <<wal, active, mounted, faults, recent, blind>>
      /\ bak' = [bak EXCEPT ![c][q] = None]
  BY DEF DropBackup
<1>2. c \in Bundles \ op.todo /\ op \in Ops /\ q \in Parts
  BY <1>1 DEF CountInv, OneAtATime, TypeOK, Ops
<1>3. \/ op'.kind = "none" /\ Waiting' = {}
      \/ op'.kind = "finalize" /\ op'.bundle = c /\ op'.todo = op.todo
      \/ /\ op'.kind = "confirm" /\ InHand' = op.todo /\ Waiting' = op.todo
         /\ op'.part = "img"
  BY <1>1, FloorGoesOn, OrdersAreOrders DEF DropBackup
<1>4. /\ ~HasPending(wal[c])
      /\ c \notin blind => \A p \in Parts : active[c][p] # None
  BY <1>1 DEF FloorInv, Orderly, Probing
<1>5. \A b \in Bundles, p \in Parts :
        bak'[b][p] = IF b = c /\ p = q THEN None ELSE bak[b][p]
  <2>1. bak \in [Bundles -> [Parts -> Content]] /\ None \in Content
    BY Constants DEF CountInv, TypeOK
  <2>2. \A b \in Bundles, p \in Parts :
          [bak EXCEPT ![c][q] = None][b][p] = IF b = c /\ p = q THEN None ELSE bak[b][p]
    BY <1>2, <2>1, SetPart
  <2> QED
    BY <1>1, <2>2
<1>6. ASSUME NEW b \in Bundles, NEW p \in Parts, ~(b = c /\ p = q), Dropping(b, p)
      PROVE  Dropping(b, p)'
  <2>1. b = c /\ p \in After[q]
    BY <1>6 DEF Dropping
  <2>2. Activated[q] # "end" /\ p \in After[Activated[q]] \cup {Activated[q]}
    BY <1>2, <2>1 DEF After, Activated, Parts
  <2>3. op' = [op EXCEPT !.part = Activated[q], !.kept = FALSE]
    BY <2>2 DEF DropBackup, Continue
  <2> QED
    BY <1>1, <1>2, <2>1, <2>2, <2>3 DEF Dropping, Ops
<1>7. Staged' /\ Probing'
  BY <1>1, <1>3, <1>4 DEF Staged, Probing, InHand, HasPending
<1>8. ASSUME NEW b \in Bundles PROVE Settled(b)'
  BY <1>1, SettledFrame DEF FloorInv, Orderly
<1>9. Floors'
  <2> SUFFICES ASSUME faults <= 1, NEW b \in Bundles \ blind PROVE FloorFiles(b)'
    BY <1>1 DEF Floors
  <2>1. FloorFiles(b)
    BY DEF FloorInv, Floors
  <2>2. ASSUME NEW p \in Parts
        PROVE  Above(b, bak[b][p])' \/ Dropping(b, p)' \/ Stale(b, p)'
    <3>1. Above(b, bak[b][p]) \/ Dropping(b, p) \/ Stale(b, p)
      BY <2>1 DEF FloorFiles
    <3>2. CASE b = c /\ p = q
      BY <1>5, <3>2 DEF Above
    <3>3. CASE ~(b = c /\ p = q)
      <4>1. bak'[b][p] = bak[b][p]
        BY <1>5, <3>3
      <4>2. Dropping(b, p) => Dropping(b, p)'
        BY <1>6, <3>3
      <4>3. Stale(b, p) => Stale(b, p)'
        BY <1>1, <1>3 DEF Stale, HasPending, Untouched
      <4> QED
        BY <1>1, <3>1, <4>1, <4>2, <4>3 DEF Above
    <3> QED
      BY <3>2, <3>3
  <2> QED
    BY <1>1, <2>1, <2>2 DEF FloorFiles, Above, HasPending
<1> QED
  BY <1>7, <1>8, <1>9 DEF FloorInv, Orderly

(* A fault that cuts the dropping short is the one fault there may be.     *)
LEMMA FloorBoot ==
  ASSUME CountInv, FloorInv, Boot \/ OperationFails
  PROVE  FloorInv'
<1>1. UNCHANGED <<wal, active, bak, blind>> /\ op' = Idle /\ op'.kind = "none"
  BY IdleIsTyped DEF Boot, OperationFails
<1>2. \A b \in Bundles :
        \/ mounted'[b] = mounted[b] /\ recent' = recent
        \/ mounted'[b] = None
        \/ \A p \in Parts : active[b][p] = mounted'[b]
  BY WholeIsOne DEF Boot, OperationFails
<1>3. \/ faults' = faults /\ op = Idle
      \/ faults' = faults + 1
  BY DEF Boot, OperationFails
<1>4. Staged' /\ Probing'
  BY <1>1 DEF Staged, Probing
<1>5. ASSUME NEW b \in Bundles PROVE Settled(b)'
  <2>1. Settled(b)
    BY DEF FloorInv, Orderly
  <2>2. CASE mounted'[b] = mounted[b] /\ recent' = recent
    BY <1>1, <2>1, <2>2 DEF Settled, Running, HasPending
  <2>3. CASE mounted'[b] = None
    BY <1>1, <2>3 DEF Settled, Running, HasPending
  <2>4. CASE \A p \in Parts : active[b][p] = mounted'[b]
    BY <1>1, <2>4 DEF Settled, Running
  <2> QED
    BY <1>2, <2>2, <2>3, <2>4
<1>6. Floors'
  <2> SUFFICES ASSUME faults' <= 1, NEW b \in Bundles \ blind PROVE FloorFiles(b)'
    BY <1>1 DEF Floors
  <2>1. faults \in Nat /\ faults <= 1 /\ (faults' = faults + 1 => faults = 0 /\ faults' = 1)
    BY <1>3, BoundAssumption DEF CountInv, TypeOK
  <2>2. FloorFiles(b)
    BY <2>1 DEF FloorInv, Floors
  <2>3. Above(b, mounted[b])'
    BY <1>1, <1>2, <2>2 DEF FloorFiles, Above, Parts
  <2>4. ASSUME NEW p \in Parts PROVE Above(b, bak[b][p])' \/ Stale(b, p)'
    <3>1. Above(b, bak[b][p]) \/ Dropping(b, p) \/ Stale(b, p)
      BY <2>2 DEF FloorFiles
    <3>2. CASE Dropping(b, p)
      <4>1. op # Idle
        BY <3>2, IdleIsTyped DEF Dropping
      <4>2. faults' = 1
        BY <1>3, <2>1, <4>1
      <4>3. ~HasPending(wal[b]) /\ active[b][p] # None
        BY <3>2 DEF Dropping, FloorInv, Orderly, Probing
      <4> QED
        BY <1>1, <4>2, <4>3 DEF Stale, HasPending
    <3>3. CASE Stale(b, p)
      <4>1. op = Idle /\ faults' = 1
        BY <1>3, <2>1, <3>3 DEF Stale
      <4> QED
        BY <1>1, <3>3, <4>1, IdleIsTyped DEF Stale, HasPending, Untouched
    <3> QED
      BY <1>1, <3>1, <3>2, <3>3 DEF Above
  <2> QED
    BY <1>1, <2>2, <2>3, <2>4 DEF FloorFiles, Above, HasPending
<1> QED
  BY <1>4, <1>5, <1>6 DEF FloorInv, Orderly

LEMMA FloorNext ==
  ASSUME CountInv, FloorInv, [Next]_vars
  PROVE  FloorInv'
<1>1. CASE UNCHANGED vars
  BY <1>1
  DEF vars, FloorInv, Orderly, Staged, Probing, Settled, Running, InHand, Floors,
      FloorFiles, Above, Dropping, Stale, Untouched, HasPending
<1>2. ASSUME NEW vs \in Manifests, StageSaves(vs)
      PROVE  FloorInv'
  <2>1. PICK bs \in SUBSET Bundles : vs \in [bs -> Versions]
    BY ManifestAssumption
  <2> QED
    BY <1>2, <2>1, FloorStage
<1>3. CASE Confirm
  <2>1. \A b \in PendingBundles : {b} \in SUBSET PendingBundles
    OBVIOUS
  <2> QED
    BY <1>3, <2>1, FloorConfirm DEF Confirm
<1>4. CASE DaemonStep
  BY <1>4, FloorKeepActive, FloorInstall, FloorFailedProbe, FloorCleanProbe, FloorRestore,
     FloorDrop
  DEF DaemonStep
<1>5. CASE Boot \/ OperationFails
  BY <1>5, FloorBoot
<1> QED
  BY <1>1, <1>2, <1>3, <1>4, <1>5 DEF Next

(* With at most one crash or failed step, nothing below the anti-rollback  *)
(* floor ever mounts, for any number of stagings and probes over each      *)
(* other, in one boot or many, of a bundle whose last promotion was not on *)
(* a probe of a boot that had not mounted the candidate.                   *)
THEOREM FloorIsKept == Spec => []FloorKept
<1>1. CountInv /\ FloorInv /\ [Next]_vars => FloorInv'
  BY FloorNext
<1>2. FloorInv => FloorKept
  BY DEF FloorInv, Floors, FloorFiles, Above, FloorKept
<1> QED
  BY <1>1, <1>2, FloorInit, FirmwareInvariant, PTL DEF Spec
=============================================================================
