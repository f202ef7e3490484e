-------------------------- MODULE AtomUpdateProofs --------------------------
(***************************************************************************)
(* Proofs about the update cycle for every set of releases, every budget   *)
(* and every bound.                                                        *)
(***************************************************************************)
EXTENDS AtomUpdate, DeploymentProofs

(* An operation in flight: the copy it will save is a good record, it has  *)
(* a release to fetch when it fetches, and only stage fetches.             *)
OpOK(o) ==
  /\ o \in Ops
  /\ GoodRecord(o.copy)
  /\ o.kind \in {"stage", "stagePromote"} => o.rel \in Releases
  /\ o.step \in {"check", "fetch", "reject"} => o.kind = "stage"

(* TypeOK is not inductive alone: RecordGoodBoot copies kcPending into     *)
(* kcCurrent, which is a release only because the record is coherent.      *)
TypeInv ==
  /\ TypeOK
  /\ GoodRecord(wal)
  /\ OpOK(op)
  /\ mode = "off" => op.step = "idle"

-----------------------------------------------------------------------------
(* Lemmas about operations. *)

LEMMA IdleOK == OpOK(Idle) /\ Idle.step = "idle" /\ Idle.kind = "none"
<1>1. New(Factory) = [New(Factory) EXCEPT !.lkg = Factory]
  BY DEF New
<1>2. GoodRecord(New(Factory))
  BY <1>1, NewRecord, FactoryAssumption
<1> QED
  BY <1>2 DEF OpOK, Idle, Ops, Kinds, Steps, Files, RootFiles, KernelFiles, GoodRecord

LEMMA GotoOK ==
  ASSUME NEW o \in Ops, NEW step \in Steps, GoodRecord(o.copy),
         o.kind \in {"stage", "stagePromote"} => o.rel \in Releases,
         step = "check" => o.kind \in {"stage", "stagePromote"},
         step \in {"fetch", "reject"} => o.kind = "stage"
  PROVE  OpOK(Goto(o, step)) /\ Goto(o, step).step = step
<1>1. CASE step = "idle"
  BY <1>1, IdleOK DEF Goto
<1>2. CASE step # "idle"
  <2> DEFINE k == IF step = "check" THEN "stage" ELSE o.kind
             f == IF step = "clean" THEN "efi" ELSE "erofs"
             g == [kind |-> k, step |-> step, file |-> f, copy |-> o.copy, rel |-> o.rel]
  <2>1. Goto(o, step) = g
    BY <1>2 DEF Goto, Ops
  <2>2. k \in Kinds /\ f \in Files
    BY DEF Ops, Kinds, Files, RootFiles, KernelFiles
  <2>3. g \in Ops
    BY <2>2 DEF Ops
  <2> QED
    BY <2>1, <2>3 DEF OpOK
<1> QED
  BY <1>1, <1>2

(* The steps an operation goes to after a durable write are steps. *)
LEMMA NextSteps ==
  ASSUME NEW o \in Ops
  PROVE  /\ AfterArm(o) \in {"clean", "idle", "save"}
         /\ AfterSave(o) \in {"clean", "arm", "idle"}
         /\ AfterClean(o) \in {"advance", "check", "idle"}
         /\ AfterClean(o) = "check" => o.kind = "stagePromote"
BY DEF AfterArm, AfterSave, AfterClean

(* A new operation on a good record is well formed. *)
LEMMA StartOK ==
  ASSUME NEW kind \in Kinds, NEW step \in Steps \ {"fetch", "reject"},
         NEW copy, GoodRecord(copy), NEW rel \in Releases \cup {None},
         kind \in {"stage", "stagePromote"} => rel \in Releases,
         step = "check" => kind = "stage",
         Start(kind, step, copy, rel)
  PROVE  OpOK(op')
<1> DEFINE o == [kind |-> kind, step |-> step, file |-> "erofs", copy |-> copy,
                 rel |-> rel]
<1>1. o \in Ops
  BY DEF Ops, GoodRecord, Files, RootFiles, KernelFiles
<1>2. op' = Goto(o, step)
  BY DEF Start
<1> QED
  BY <1>1, <1>2, GotoOK DEF Steps

-----------------------------------------------------------------------------
(* The initial state. *)
LEMMA InitTypeInv == Init => TypeInv
<1> SUFFICES ASSUME Init PROVE TypeInv
  OBVIOUS
<1>1. PICK l \in InitialLkg : wal = [New(Factory) EXCEPT !.lkg = l]
  BY DEF Init
<1>2. l \in {Factory, None}
  BY LkgAssumption
<1>3. GoodRecord(wal)
  BY <1>1, <1>2, NewRecord, FactoryAssumption
<1>4. slot \in [Slots -> [Files -> Contents]]
  <2>1. \A f \in Files : Artifact(Factory, f) \in Nat
    BY FactoryAssumption, ReleasesAssumption, RootOfAssumption DEF Artifact
  <2> QED
    BY <2>1 DEF Init, Contents, None
<1>5. OpOK(op) /\ op.step = "idle"
  BY IdleOK DEF Init
<1>6. boot \in BootStates
  BY DEF Init, ActiveState, BootStates
<1>7. used \in [Events -> Nat]
  BY DEF Init
<1> QED
  BY <1>3, <1>4, <1>5, <1>6, <1>7, FactoryAssumption
     DEF Init, TypeInv, TypeOK, GoodRecord, OpOK, None

-----------------------------------------------------------------------------
(* Lemmas about the loader and the bounded events. *)

(* The loader only hands control to a slot whose image is a release. *)
LEMMA LoaderSlotOK ==
  /\ LoaderSlot \in Slots \cup {"recovery"}
  /\ LoaderSlot # "recovery" => slot[LoaderSlot]["efi"] \in Releases
BY DEF LoaderSlot, StableSlot, FirstOf, Chainable, Slots

LEMMA EnterSlotOK ==
  ASSUME NEW s, s # "recovery" => slot[s]["efi"] \in Releases, EnterSlot(s)
  PROVE  /\ running' \in Releases \cup {None}
         /\ mode' \in {"up", "recovery", "halted"}
BY DEF EnterSlot

LEMMA SpendOK ==
  ASSUME used \in [Events -> Nat], NEW what \in Events, Spend(what)
  PROVE  used' \in [Events -> Nat]
BY DEF Spend

-----------------------------------------------------------------------------
(* Every step preserves TypeInv. *)

LEMMA LoaderTypeInv == TypeInv /\ LoaderBoot => TypeInv'
<1> SUFFICES ASSUME TypeInv, LoaderBoot PROVE TypeInv'
  OBVIOUS
<1>1. running' \in Releases \cup {None} /\ mode' \in {"up", "recovery", "halted"}
  BY LoaderSlotOK, EnterSlotOK DEF LoaderBoot
<1>2. boot' \in BootStates
  <2>1. boot \in BootStates
    BY DEF TypeInv, TypeOK
  <2>2. CASE OnTrial
    <3>1. boot.attempts \in Nat /\ boot.attempts > 0
      BY <2>1, <2>2 DEF OnTrial, BootStates
    <3>2. boot.attempts - 1 \in Nat
      BY <3>1
    <3>3. boot' = [boot EXCEPT !.attempts = boot.attempts - 1]
      BY <2>2 DEF LoaderBoot
    <3> QED
      BY <2>1, <3>2, <3>3 DEF BootStates
  <2>3. CASE ~OnTrial
    BY <2>1, <2>3 DEF LoaderBoot
  <2> QED
    BY <2>2, <2>3
<1>3. tries' \in Nat
  BY DEF LoaderBoot, TypeInv, TypeOK
<1>4. UNCHANGED <<wal, slot, linked, hw, checked, op, used, proven, boots>>
  BY DEF LoaderBoot
<1> QED
  BY <1>1, <1>2, <1>3, <1>4 DEF TypeInv, TypeOK, OpOK

LEMMA ChooserTypeInv ==
  ASSUME TypeInv, NEW s \in {"active", "prev", "recovery"}, ChooserBoot(s)
  PROVE  TypeInv'
<1> DEFINE pick == IF s # "recovery" /\ ~Chainable(s) THEN "active" ELSE s
<1>1. running' \in Releases \cup {None} /\ mode' \in {"up", "recovery", "halted"}
  <2>1. CASE pick = "recovery" \/ Chainable(pick)
    <3>1. EnterSlot(pick)
      BY <2>1 DEF ChooserBoot
    <3>2. pick # "recovery" => slot[pick]["efi"] \in Releases
      BY <2>1 DEF Chainable
    <3> HIDE DEF pick
    <3> QED
      BY <3>1, <3>2, EnterSlotOK
  <2>2. CASE ~(pick = "recovery" \/ Chainable(pick))
    BY <2>2 DEF ChooserBoot
  <2> QED
    BY <2>1, <2>2
<1>2. used' \in [Events -> Nat]
  BY SpendOK DEF ChooserBoot, TypeInv, TypeOK, Events
<1>3. UNCHANGED <<wal, boot, slot, linked, hw, checked, op, proven, boots, tries>>
  BY DEF ChooserBoot, history
<1> QED
  BY <1>1, <1>2, <1>3 DEF TypeInv, TypeOK, OpOK

LEMMA PowerOffTypeInv == TypeInv /\ PowerOff => TypeInv'
<1> SUFFICES ASSUME TypeInv, PowerOff PROVE TypeInv'
  OBVIOUS
<1>1. used' \in [Events -> Nat]
  <2>1. CASE IsFault
    BY <2>1, SpendOK DEF PowerOff, TypeInv, TypeOK, Events
  <2>2. CASE ~IsFault
    BY <2>2 DEF PowerOff, TypeInv, TypeOK
  <2> QED
    BY <2>1, <2>2
<1>2. OpOK(op') /\ op'.step = "idle"
  BY IdleOK DEF PowerOff
<1>3. mode' = "off" /\ running' = None /\ checked' = FALSE
  BY DEF PowerOff
<1>4. UNCHANGED <<wal, boot, slot, linked, hw, proven, boots, tries>>
  BY DEF PowerOff, durable, history
<1> QED
  BY <1>1, <1>2, <1>3, <1>4 DEF TypeInv, TypeOK, OpOK

LEMMA RunsOK ==
  ASSUME TypeInv, BootSuccessRuns
  PROVE  used' \in [Events -> Nat] /\ checked' = TRUE /\ mode = "up"
<1>1. CASE checked
  BY <1>1, SpendOK DEF BootSuccessRuns, TypeInv, TypeOK, Events
<1>2. CASE ~checked
  BY <1>2 DEF BootSuccessRuns, TypeInv, TypeOK
<1> QED
  BY <1>1, <1>2 DEF BootSuccessRuns

LEMMA BootStableTypeInv == TypeInv /\ BootStable => TypeInv'
<1> SUFFICES ASSUME TypeInv, BootStable PROVE TypeInv'
  OBVIOUS
<1>1. used' \in [Events -> Nat] /\ checked' = TRUE /\ mode = "up"
  BY RunsOK DEF BootStable
<1>2. OpOK(op')
  BY StartOK DEF BootStable, TypeInv, Kinds, Steps
<1>3. UNCHANGED <<wal, boot, slot, linked, hw, mode, running, proven, boots, tries>>
  BY DEF BootStable, durable, history
<1> QED
  BY <1>1, <1>2, <1>3 DEF TypeInv, TypeOK, OpOK

LEMMA BootUnhealthyTypeInv == TypeInv /\ BootUnhealthy => TypeInv'
<1> SUFFICES ASSUME TypeInv, BootUnhealthy PROVE TypeInv'
  OBVIOUS
<1>1. used' \in [Events -> Nat]
  <2>1. CASE running \in Good
    BY <2>1, SpendOK DEF BootUnhealthy, TypeInv, TypeOK, Events
  <2>2. CASE running \notin Good
    BY <2>2 DEF BootUnhealthy, TypeInv, TypeOK
  <2> QED
    BY <2>1, <2>2
<1>2. checked' = TRUE
  BY DEF BootUnhealthy
<1>3. UNCHANGED <<wal, boot, slot, linked, hw, mode, running, op, proven, boots, tries>>
  BY DEF BootUnhealthy, durable, history
<1> QED
  BY <1>1, <1>2, <1>3 DEF TypeInv, TypeOK, OpOK

LEMMA BootConfirmedTypeInv == TypeInv /\ BootConfirmed => TypeInv'
<1> SUFFICES ASSUME TypeInv, BootConfirmed PROVE TypeInv'
  OBVIOUS
<1>1. used' \in [Events -> Nat] /\ checked' = TRUE /\ mode = "up"
  BY RunsOK DEF BootConfirmed, BootHealthy
<1>2. running \in Releases
  BY DEF BootConfirmed, IdentityConfirmed
<1>3. OpOK(op')
  <2> DEFINE d == RecordGoodBoot(wal)
  <2>1. GoodRecord(d)
    BY RecordGoodBootRecord DEF TypeInv, BootConfirmed, BootHealthy
  <2> HIDE DEF d
  <2>2. \/ Start("confirm", "arm", d, None)
        \/ Start("promote", "keep", d, None)
        \/ op' = Idle
    BY DEF BootConfirmed, d
  <2> QED
    BY <2>1, <2>2, StartOK, IdleOK DEF Kinds, Steps
<1>4. proven' \subseteq Releases /\ boots' \in Nat
  BY <1>2 DEF BootConfirmed, CountSession, TypeInv, TypeOK
<1>5. UNCHANGED <<wal, boot, slot, linked, hw, mode, running, tries>>
  BY DEF BootConfirmed, durable
<1> QED
  BY <1>1, <1>3, <1>4, <1>5 DEF TypeInv, TypeOK, OpOK

LEMMA BootFallbackTypeInv == TypeInv /\ BootFallback => TypeInv'
<1> SUFFICES ASSUME TypeInv, BootFallback PROVE TypeInv'
  OBVIOUS
<1>1. used' \in [Events -> Nat] /\ checked' = TRUE /\ mode = "up"
  BY RunsOK DEF BootFallback, BootHealthy
<1>2. OpOK(op')
  <2> DEFINE d == RecordFailedBoot(wal, boot)
  <2>1. GoodRecord(d)
    BY FailedBootRecord DEF TypeInv, TypeOK, BootFallback, BootHealthy
  <2> HIDE DEF d
  <2>2. Start("fallback", "arm", d, None)
    BY DEF BootFallback, d
  <2> QED
    BY <2>1, <2>2, StartOK DEF Kinds, Steps
<1>3. running \in Releases
  BY HealthGateOnReleases DEF BootFallback, BootHealthy
<1>4. proven' \subseteq Releases /\ boots' \in Nat
  BY <1>3 DEF BootFallback, TypeInv, TypeOK
<1>5. UNCHANGED <<wal, boot, slot, linked, hw, mode, running, tries>>
  BY DEF BootFallback, durable
<1> QED
  BY <1>1, <1>2, <1>4, <1>5 DEF TypeInv, TypeOK, OpOK

LEMMA ReconcileTypeInv == TypeInv /\ ReconcileCounter => TypeInv'
<1> SUFFICES ASSUME TypeInv, ReconcileCounter PROVE TypeInv'
  OBVIOUS
<1>1. OpOK(op')
  BY GotoOK DEF ReconcileCounter, TypeInv, OpOK, Steps
<1>2. hw' \in Releases \cup {None}
  BY DEF ReconcileCounter, TypeInv, TypeOK, GoodRecord, OpOK, Wal
<1>3. UNCHANGED <<wal, boot, slot, linked, mode, running, checked, used, proven, boots, tries>>
  BY DEF ReconcileCounter, session, history
<1>4. mode # "off"
  BY DEF ReconcileCounter, TypeInv
<1> QED
  BY <1>1, <1>2, <1>3, <1>4 DEF TypeInv, TypeOK, OpOK

LEMMA AdvanceTypeInv == TypeInv /\ AdvanceCounter => TypeInv'
<1> SUFFICES ASSUME TypeInv, AdvanceCounter PROVE TypeInv'
  OBVIOUS
<1>1. OpOK(op')
  BY IdleOK DEF AdvanceCounter
<1>2. hw' \in Releases \cup {None}
  BY DEF AdvanceCounter, TypeInv, TypeOK, GoodRecord, OpOK, Wal
<1>3. UNCHANGED <<wal, boot, slot, linked, mode, running, checked, used, proven, boots, tries>>
  BY DEF AdvanceCounter, session, history
<1>4. mode # "off"
  BY DEF AdvanceCounter, TypeInv
<1> QED
  BY <1>1, <1>2, <1>3, <1>4 DEF TypeInv, TypeOK, OpOK

LEMMA NextToPromoteOK ==
  ASSUME TypeInv, op.step \in {"keep", "install"}, NextToPromote(op.file)
  PROVE  OpOK(op')
<1>1. op \in Ops /\ GoodRecord(op.copy)
  BY DEF TypeInv, OpOK
<1>2. CASE NextFile[op.file] = "end"
  BY <1>1, <1>2, GotoOK DEF NextToPromote, TypeInv, OpOK, Steps
<1>3. CASE NextFile[op.file] # "end"
  <2>1. op' = [op EXCEPT !.step = "keep", !.file = NextFile[op.file]]
    BY <1>3 DEF NextToPromote
  <2>2. NextFile[op.file] \in Files
    BY <1>1, <1>3 DEF NextFile, Ops, Files, RootFiles, KernelFiles
  <2>3. op' \in Ops
    BY <1>1, <2>1, <2>2 DEF Ops, Steps
  <2>4. op'.kind = op.kind /\ op'.rel = op.rel /\ op'.copy = op.copy /\ op'.step = "keep"
    BY <1>1, <2>1 DEF Ops
  <2> QED
    BY <2>3, <2>4 DEF TypeInv, OpOK
<1> QED
  BY <1>2, <1>3

LEMMA SkipFileTypeInv == TypeInv /\ SkipFile => TypeInv'
<1> SUFFICES ASSUME TypeInv, SkipFile PROVE TypeInv'
  OBVIOUS
<1>1. OpOK(op')
  BY NextToPromoteOK DEF SkipFile
<1>2. UNCHANGED <<wal, boot, slot, linked, hw, mode, running, checked, used,
                  proven, boots, tries>>
  BY DEF SkipFile, durable, session, history
<1>3. mode # "off"
  BY DEF SkipFile, TypeInv
<1> QED
  BY <1>1, <1>2, <1>3 DEF TypeInv, TypeOK, OpOK

LEMMA KeepPreviousTypeInv == TypeInv /\ KeepPrevious => TypeInv'
<1> SUFFICES ASSUME TypeInv, KeepPrevious PROVE TypeInv'
  OBVIOUS
<1>1. op \in Ops
  BY DEF TypeInv, OpOK
<1>2. op' = [op EXCEPT !.step = "install"]
  BY DEF KeepPrevious
<1>3. OpOK(op')
  BY <1>1, <1>2 DEF TypeInv, OpOK, Ops, Steps
<1>4. slot' \in [Slots -> [Files -> Contents]]
  BY <1>1 DEF KeepPrevious, TypeInv, TypeOK, Slots, Ops
<1>5. UNCHANGED <<wal, boot, linked, hw, mode, running, checked, used,
                  proven, boots, tries>>
  BY DEF KeepPrevious, session, history
<1>6. mode # "off"
  BY DEF KeepPrevious, TypeInv
<1> QED
  BY <1>3, <1>4, <1>5, <1>6 DEF TypeInv, TypeOK, OpOK

LEMMA InstallActiveTypeInv == TypeInv /\ InstallActive => TypeInv'
<1> SUFFICES ASSUME TypeInv, InstallActive PROVE TypeInv'
  OBVIOUS
<1>1. op \in Ops
  BY DEF TypeInv, OpOK
<1>2. OpOK(op')
  BY NextToPromoteOK DEF InstallActive
<1>3. slot' \in [Slots -> [Files -> Contents]]
  BY <1>1 DEF InstallActive, TypeInv, TypeOK, Slots, Ops
<1>4. linked' \subseteq RootFiles
  BY DEF InstallActive, TypeInv, TypeOK
<1>5. UNCHANGED <<wal, boot, hw, mode, running, checked, used, proven, boots, tries>>
  BY DEF InstallActive, session, history
<1>6. mode # "off"
  BY DEF InstallActive, TypeInv
<1> QED
  BY <1>2, <1>3, <1>4, <1>5, <1>6 DEF TypeInv, TypeOK, OpOK

LEMMA ArmTypeInv == TypeInv /\ ArmBootState => TypeInv'
<1> SUFFICES ASSUME TypeInv, ArmBootState PROVE TypeInv'
  OBVIOUS
<1>1. op \in Ops /\ GoodRecord(op.copy)
  BY DEF TypeInv, OpOK
<1>2. OpOK(op')
  BY <1>1, NextSteps, GotoOK DEF ArmBootState, TypeInv, OpOK, Steps
<1>3. boot' \in BootStates
  BY <1>1, BootStateOfGood DEF ArmBootState
<1>4. tries' \in Nat
  BY DEF ArmBootState, TypeInv, TypeOK
<1>5. UNCHANGED <<wal, slot, linked, hw, mode, running, checked, used, proven, boots>>
  BY DEF ArmBootState, session
<1>6. mode # "off"
  BY DEF ArmBootState, TypeInv
<1> QED
  BY <1>2, <1>3, <1>4, <1>5, <1>6 DEF TypeInv, TypeOK, OpOK

LEMMA SaveTypeInv == TypeInv /\ SaveWal => TypeInv'
<1> SUFFICES ASSUME TypeInv, SaveWal PROVE TypeInv'
  OBVIOUS
<1>1. op \in Ops /\ GoodRecord(op.copy)
  BY DEF TypeInv, OpOK
<1>2. OpOK(op')
  BY <1>1, NextSteps, GotoOK DEF SaveWal, TypeInv, OpOK, Steps
<1>3. wal' \in Wal /\ GoodRecord(wal')
  BY <1>1 DEF SaveWal, GoodRecord
<1>4. boots' \in Nat
  BY DEF SaveWal, TypeInv, TypeOK
<1>5. UNCHANGED <<boot, slot, linked, hw, mode, running, checked, used, proven, tries>>
  BY DEF SaveWal, session
<1>6. mode # "off"
  BY DEF SaveWal, TypeInv
<1> QED
  BY <1>2, <1>3, <1>4, <1>5, <1>6 DEF TypeInv, TypeOK, OpOK

LEMMA CleanTypeInv == TypeInv /\ CleanNext => TypeInv'
<1> SUFFICES ASSUME TypeInv, CleanNext PROVE TypeInv'
  OBVIOUS
<1>1. op \in Ops /\ GoodRecord(op.copy)
  BY DEF TypeInv, OpOK
<1>2. OpOK(op')
  <2>1. CASE NextCleaned[op.file] = "end"
    BY <1>1, <2>1, NextSteps, GotoOK DEF CleanNext, TypeInv, OpOK, Steps
  <2>2. CASE NextCleaned[op.file] # "end"
    <3>1. op' = [op EXCEPT !.file = NextCleaned[op.file]]
      BY <2>2 DEF CleanNext
    <3>2. NextCleaned[op.file] \in Files
      BY <1>1, <2>2 DEF NextCleaned, Ops, Files, RootFiles, KernelFiles
    <3> QED
      BY <1>1, <3>1, <3>2 DEF TypeInv, OpOK, Ops
  <2> QED
    BY <2>1, <2>2
<1>3. slot' \in [Slots -> [Files -> Contents]]
  BY <1>1 DEF CleanNext, TypeInv, TypeOK, Slots, Ops, Contents, None
<1>4. linked' \subseteq RootFiles
  BY DEF CleanNext, TypeInv, TypeOK
<1>5. UNCHANGED <<wal, boot, hw, mode, running, checked, used, proven, boots, tries>>
  BY DEF CleanNext, session, history
<1>6. mode # "off"
  BY DEF CleanNext, TypeInv
<1> QED
  BY <1>2, <1>3, <1>4, <1>5, <1>6 DEF TypeInv, TypeOK, OpOK

LEMMA BeginStageTypeInv ==
  ASSUME TypeInv, NEW v \in Releases, BeginStage(v)
  PROVE  TypeInv'
<1>1. used' \in [Events -> Nat]
  BY SpendOK DEF BeginStage, TypeInv, TypeOK, Events
<1>2. OpOK(op')
  <2>1. GoodRecord(wal) /\ GoodRecord(Promote(wal))
    BY PromoteRecord DEF TypeInv
  <2>2. \/ Start("stage", "check", wal, v)
        \/ Start("stagePromote", "keep", Promote(wal), v)
        \/ op' = Idle
    BY DEF BeginStage
  <2> QED
    BY <2>1, <2>2, StartOK, IdleOK DEF Kinds, Steps
<1>3. UNCHANGED <<wal, boot, slot, linked, hw, mode, running, checked, proven, boots, tries>>
  BY DEF BeginStage, durable, session, history
<1>4. mode # "off"
  BY DEF BeginStage
<1> QED
  BY <1>1, <1>2, <1>3, <1>4 DEF TypeInv, TypeOK, OpOK

LEMMA CheckTypeInv == TypeInv /\ CheckDowngrade => TypeInv'
<1> SUFFICES ASSUME TypeInv, CheckDowngrade PROVE TypeInv'
  OBVIOUS
<1>1. OpOK(op')
  BY GotoOK, IdleOK DEF CheckDowngrade, TypeInv, OpOK, Steps
<1>2. UNCHANGED <<wal, boot, slot, linked, hw, mode, running, checked, used,
                  proven, boots, tries>>
  BY DEF CheckDowngrade, durable, session, history
<1>3. mode # "off"
  BY DEF CheckDowngrade, TypeInv
<1> QED
  BY <1>1, <1>2, <1>3 DEF TypeInv, TypeOK, OpOK

(* Filling and emptying files of -next. *)
LEMMA WriteOK ==
  ASSUME TypeInv, NEW f \in Files, NEW content \in Nat, Write(f, content)
  PROVE  slot' \in [Slots -> [Files -> Contents]] /\ linked' \subseteq RootFiles
BY DEF Write, TypeInv, TypeOK, Slots, Contents

LEMMA RemoveOK ==
  ASSUME TypeInv, NEW fs, Remove(fs)
  PROVE  slot' \in [Slots -> [Files -> Contents]] /\ linked' \subseteq RootFiles
<1> DEFINE g == [f \in Files |-> IF f \in fs THEN None ELSE slot["next"][f]]
<1>1. g \in [Files -> Contents]
  BY DEF TypeInv, TypeOK, Slots, Contents, None
<1>2. slot' = [slot EXCEPT !["next"] = g]
  BY DEF Remove
<1> HIDE DEF g
<1> QED
  BY <1>1, <1>2 DEF Remove, TypeInv, TypeOK, Slots

LEMMA FetchFileTypeInv == TypeInv /\ FetchFile => TypeInv'
<1> SUFFICES ASSUME TypeInv, FetchFile PROVE TypeInv'
  OBVIOUS
<1>1. op \in Ops /\ op.kind = "stage" /\ op.rel \in Releases /\ op.step = "fetch"
  BY DEF TypeInv, OpOK, FetchFile
<1>2. Artifact(op.rel, op.file) \in Nat
  BY <1>1, ReleasesAssumption, RootOfAssumption DEF Artifact
<1>3. slot' \in [Slots -> [Files -> Contents]] /\ linked' \subseteq RootFiles
  BY <1>1, <1>2, WriteOK DEF FetchFile, Ops
<1>4. OpOK(op')
  <2>1. CASE NextFile[op.file] # "end"
    <3>1. op' = [op EXCEPT !.file = NextFile[op.file]]
      BY <2>1 DEF FetchFile
    <3>2. NextFile[op.file] \in Files
      BY <1>1, <2>1 DEF NextFile, Ops, Files, RootFiles, KernelFiles
    <3> QED
      BY <1>1, <3>1, <3>2 DEF TypeInv, OpOK, Ops
  <2>2. CASE NextFile[op.file] = "end"
    <3> DEFINE g == Goto(op, "save")
               d == StagedDeploy(wal, op.rel)
    <3>1. OpOK(g) /\ g.step = "save"
      BY <1>1, GotoOK DEF TypeInv, OpOK, Steps
    <3>2. GoodRecord(d)
      BY <1>1, StagedDeployRecord DEF TypeInv
    <3>3. op' = [g EXCEPT !.copy = d]
      BY <2>2 DEF FetchFile
    <3> HIDE DEF g, d
    <3>4. op' \in Ops
      BY <3>1, <3>2, <3>3 DEF OpOK, Ops, GoodRecord
    <3>5. op'.kind = g.kind /\ op'.step = "save" /\ op'.rel = g.rel /\ op'.copy = d
      BY <3>1, <3>3 DEF OpOK, Ops
    <3> QED
      BY <3>1, <3>2, <3>4, <3>5 DEF OpOK
  <2> QED
    BY <2>1, <2>2
<1>5. UNCHANGED <<wal, boot, hw, mode, running, checked, used, proven, boots, tries>>
  BY DEF FetchFile, session, history
<1>6. mode # "off"
  BY <1>1 DEF TypeInv
<1> QED
  BY <1>3, <1>4, <1>5, <1>6 DEF TypeInv, TypeOK, OpOK

LEMMA FetchErrorTypeInv == TypeInv /\ FetchError => TypeInv'
<1> SUFFICES ASSUME TypeInv, FetchError PROVE TypeInv'
  OBVIOUS
<1>1. slot' \in [Slots -> [Files -> Contents]] /\ linked' \subseteq RootFiles
  BY RemoveOK DEF FetchError
<1>2. OpOK(op')
  BY IdleOK DEF FetchError
<1>3. UNCHANGED <<wal, boot, hw, mode, running, checked, used, proven, boots, tries>>
  BY DEF FetchError, session, history
<1>4. mode # "off"
  BY DEF FetchError, TypeInv
<1> QED
  BY <1>1, <1>2, <1>3, <1>4 DEF TypeInv, TypeOK, OpOK

LEMMA FetchCorruptTypeInv == TypeInv /\ FetchCorrupt => TypeInv'
<1> SUFFICES ASSUME TypeInv, FetchCorrupt PROVE TypeInv'
  OBVIOUS
<1>1. op \in Ops /\ op.kind = "stage" /\ op.step = "fetch"
  BY DEF TypeInv, OpOK, FetchCorrupt
<1>2. slot' \in [Slots -> [Files -> Contents]] /\ linked' \subseteq RootFiles
  BY <1>1, WriteOK, GarbageAssumption DEF FetchCorrupt, Ops
<1>3. OpOK(op')
  BY <1>1 DEF FetchCorrupt, TypeInv, OpOK, Ops, Steps
<1>4. UNCHANGED <<wal, boot, hw, mode, running, checked, used, proven, boots, tries>>
  BY DEF FetchCorrupt, session, history
<1>5. mode # "off"
  BY <1>1 DEF TypeInv
<1> QED
  BY <1>2, <1>3, <1>4, <1>5 DEF TypeInv, TypeOK, OpOK

LEMMA RejectTypeInv == TypeInv /\ RejectFile => TypeInv'
<1> SUFFICES ASSUME TypeInv, RejectFile PROVE TypeInv'
  OBVIOUS
<1>1. slot' \in [Slots -> [Files -> Contents]] /\ linked' \subseteq RootFiles
  BY RemoveOK DEF RejectFile
<1>2. OpOK(op')
  BY IdleOK DEF RejectFile
<1>3. UNCHANGED <<wal, boot, hw, mode, running, checked, used, proven, boots, tries>>
  BY DEF RejectFile, session, history
<1>4. mode # "off"
  BY DEF RejectFile, TypeInv
<1> QED
  BY <1>1, <1>2, <1>3, <1>4 DEF TypeInv, TypeOK, OpOK

LEMMA DaemonFailsTypeInv == TypeInv /\ DaemonFails => TypeInv'
<1> SUFFICES ASSUME TypeInv, DaemonFails PROVE TypeInv'
  OBVIOUS
<1>1. used' \in [Events -> Nat]
  BY SpendOK DEF DaemonFails, TypeInv, TypeOK, Events
<1>2. OpOK(op')
  BY IdleOK DEF DaemonFails
<1>3. UNCHANGED <<wal, boot, slot, linked, hw, mode, running, checked, proven, boots, tries>>
  BY DEF DaemonFails, durable, session, history
<1>4. mode # "off"
  BY DEF DaemonFails, TypeInv
<1> QED
  BY <1>1, <1>2, <1>3, <1>4 DEF TypeInv, TypeOK, OpOK

LEMMA BeginRollbackTypeInv == TypeInv /\ BeginRollback => TypeInv'
<1> SUFFICES ASSUME TypeInv, BeginRollback PROVE TypeInv'
  OBVIOUS
<1>1. used' \in [Events -> Nat]
  BY SpendOK DEF BeginRollback, TypeInv, TypeOK, Events
<1>2. OpOK(op')
  BY StartOK, RollbackRecord DEF BeginRollback, TypeInv, GoodRecord, Kinds, Steps
<1>3. UNCHANGED <<wal, boot, slot, linked, hw, mode, running, checked, proven, boots, tries>>
  BY DEF BeginRollback, durable, session, history
<1>4. mode # "off"
  BY DEF BeginRollback
<1> QED
  BY <1>1, <1>2, <1>3, <1>4 DEF TypeInv, TypeOK, OpOK

LEMMA CliDeployTypeInv ==
  ASSUME TypeInv, NEW v \in Releases, CliDeploy(v)
  PROVE  TypeInv'
<1>1. used' \in [Events -> Nat]
  BY SpendOK DEF CliDeploy, TypeInv, TypeOK, Events
<1>2. wal' \in Wal /\ GoodRecord(wal')
  BY DeployRecord DEF CliDeploy, TypeInv, GoodRecord
<1>3. boots' = 0
  BY DEF CliDeploy
<1>4. UNCHANGED <<boot, slot, linked, hw, mode, running, checked, op, proven, tries>>
  BY DEF CliDeploy, session
<1> QED
  BY <1>1, <1>2, <1>3, <1>4 DEF TypeInv, TypeOK, OpOK

LEMMA StepTypeInv == TypeInv /\ [Next]_vars => TypeInv'
<1> SUFFICES ASSUME TypeInv, [Next]_vars PROVE TypeInv'
  OBVIOUS
<1>1. CASE UNCHANGED vars
  BY <1>1 DEF vars, TypeInv, TypeOK, OpOK
<1>2. CASE \/ LoaderBoot \/ PowerOff \/ BootSuccess \/ DaemonFails
           \/ \E s \in {"active", "prev", "recovery"} : ChooserBoot(s)
  BY <1>2, LoaderTypeInv, PowerOffTypeInv, BootStableTypeInv, BootUnhealthyTypeInv,
     BootConfirmedTypeInv, BootFallbackTypeInv, DaemonFailsTypeInv, ChooserTypeInv
     DEF BootSuccess
<1>3. CASE DaemonStep
  BY <1>3, ReconcileTypeInv, AdvanceTypeInv, SkipFileTypeInv, KeepPreviousTypeInv,
     InstallActiveTypeInv, ArmTypeInv, SaveTypeInv, CleanTypeInv, CheckTypeInv,
     FetchFileTypeInv, FetchErrorTypeInv, FetchCorruptTypeInv, RejectTypeInv
     DEF DaemonStep
<1>4. CASE \/ BeginRollback \/ \E v \in Releases : BeginStage(v) \/ CliDeploy(v)
  BY <1>4, BeginRollbackTypeInv, BeginStageTypeInv, CliDeployTypeInv
<1> QED
  BY <1>1, <1>2, <1>3, <1>4 DEF Next

(* The update cycle never leaves its types, and what is on disk or about   *)
(* to be saved is always a good record.                                    *)
THEOREM TypeInvariance == Spec => []TypeInv
BY InitTypeInv, StepTypeInv, PTL DEF Spec

(* TypeOK: every file and field keeps its type. *)
THEOREM TypeCorrect == Spec => []TypeOK
<1>1. TypeInv => TypeOK
  BY DEF TypeInv
<1> QED
  BY <1>1, TypeInvariance, PTL

(* CoherentWal: no interleaving of updates, crashes and commands leaves    *)
(* the WAL, or the copy about to replace it, contradicting itself.         *)
THEOREM WalCoherent == Spec => []CoherentWal
<1>1. TypeInv => CoherentWal
  BY DEF TypeInv, OpOK, GoodRecord, CoherentWal
<1> QED
  BY <1>1, TypeInvariance, PTL

-----------------------------------------------------------------------------
(* The fallback has always proven itself. *)

(* Every version a record can fall back to has passed its health gate. *)
RunRecord(d, p) ==
  /\ d.current \in p
  /\ d.lkg \in p \cup {None}
  /\ d.rollback \in p \cup {None}

(* ProvenFallback speaks of two fields of the WAL.  It is inductive with   *)
(* the third version a rollback may choose, and for the copy an operation  *)
(* is about to save.                                                       *)
ProvenInv ==
  /\ Factory \in proven
  /\ RunRecord(wal, proven)
  /\ RunRecord(op.copy, proven)

(* The steps that neither save the WAL nor compute a new record. *)
QuietStep ==
  \/ LoaderBoot \/ (\E s \in {"active", "prev", "recovery"} : ChooserBoot(s))
  \/ PowerOff \/ BootUnhealthy \/ DaemonFails \/ ReconcileCounter
  \/ SkipFile \/ KeepPrevious \/ InstallActive \/ ArmBootState \/ CleanNext
  \/ AdvanceCounter \/ CheckDowngrade \/ FetchError \/ FetchCorrupt \/ RejectFile

LEMMA GotoCopy ==
  ASSUME NEW o \in Ops, NEW step
  PROVE  Goto(o, step).copy \in {o.copy, Idle.copy}
BY DEF Goto, Ops

LEMMA NextToPromoteCopy ==
  ASSUME op \in Ops, NEW f, NextToPromote(f)
  PROVE  op'.copy \in {op.copy, Idle.copy}
<1>1. CASE NextFile[f] = "end"
  BY <1>1, GotoCopy DEF NextToPromote
<1>2. CASE NextFile[f] # "end"
  BY <1>2 DEF NextToPromote, Ops
<1> QED
  BY <1>1, <1>2

LEMMA QuietKeeps ==
  ASSUME TypeInv, QuietStep
  PROVE  wal' = wal /\ proven' = proven /\ op'.copy \in {op.copy, Idle.copy}
<1>1. op \in Ops
  BY DEF TypeInv, OpOK
<1>2. CASE LoaderBoot \/ \E s \in {"active", "prev", "recovery"} : ChooserBoot(s)
  BY <1>2 DEF LoaderBoot, ChooserBoot, history
<1>3. CASE PowerOff \/ BootUnhealthy \/ DaemonFails
  BY <1>3 DEF PowerOff, BootUnhealthy, DaemonFails, durable, history
<1>4. CASE ReconcileCounter
  BY <1>1, <1>4, GotoCopy DEF ReconcileCounter, history
<1>5. CASE SkipFile \/ InstallActive
  BY <1>1, <1>5, NextToPromoteCopy DEF SkipFile, InstallActive, durable, history
<1>6. CASE KeepPrevious
  BY <1>1, <1>6 DEF KeepPrevious, history, Ops
<1>7. CASE ArmBootState
  BY <1>1, <1>7, GotoCopy DEF ArmBootState
<1>8. CASE CleanNext
  <2>1. wal' = wal /\ proven' = proven
    BY <1>8 DEF CleanNext, history
  <2>2. CASE NextCleaned[op.file] = "end"
    BY <1>1, <1>8, <2>1, <2>2, GotoCopy DEF CleanNext
  <2>3. CASE NextCleaned[op.file] # "end"
    BY <1>1, <1>8, <2>1, <2>3 DEF CleanNext, Ops
  <2> QED
    BY <2>2, <2>3
<1>9. CASE AdvanceCounter \/ FetchError \/ RejectFile
  BY <1>9 DEF AdvanceCounter, FetchError, RejectFile, history
<1>10. CASE CheckDowngrade
  BY <1>1, <1>10, GotoCopy DEF CheckDowngrade, durable, history
<1>11. CASE FetchCorrupt
  BY <1>1, <1>11 DEF FetchCorrupt, history, Ops
<1> QED
  BY <1>2, <1>3, <1>4, <1>5, <1>6, <1>7, <1>8, <1>9, <1>10, <1>11 DEF QuietStep

LEMMA IdleRun == Factory \in proven => RunRecord(Idle.copy, proven)
BY DEF RunRecord, Idle, New

(* What an operation starts with. *)
LEMMA StartCopy ==
  ASSUME NEW kind \in Kinds, NEW step \in Steps, NEW copy, GoodRecord(copy),
         NEW rel \in Releases \cup {None}, Start(kind, step, copy, rel)
  PROVE  op'.copy \in {copy, Idle.copy}
<1> DEFINE o == [kind |-> kind, step |-> step, file |-> "erofs", copy |-> copy,
                 rel |-> rel]
<1>1. o \in Ops /\ o.copy = copy
  BY DEF Ops, GoodRecord, Files, RootFiles, KernelFiles
<1>2. op' = Goto(o, step)
  BY DEF Start
<1> QED
  BY <1>1, <1>2, GotoCopy

LEMMA InitProvenInv == Init => ProvenInv
<1> SUFFICES ASSUME Init PROVE ProvenInv
  OBVIOUS
<1>1. PICK l \in InitialLkg : wal = [New(Factory) EXCEPT !.lkg = l]
  BY DEF Init
<1>2. l \in {Factory, None} /\ proven = {Factory}
  BY LkgAssumption DEF Init
<1>3. RunRecord(wal, proven)
  BY <1>1, <1>2 DEF RunRecord, New
<1> QED
  BY <1>2, <1>3, IdleRun DEF Init, ProvenInv

(* A boot that confirms the candidate adds it to the proven releases       *)
(* before any record names it; the image that passed is the candidate      *)
(* because IdentityConfirmed compares its release.                         *)
LEMMA ConfirmedProvenInv == TypeInv /\ ProvenInv /\ BootConfirmed => ProvenInv'
<1> SUFFICES ASSUME TypeInv, ProvenInv, BootConfirmed PROVE ProvenInv'
  OBVIOUS
<1> DEFINE d == RecordGoodBoot(wal)
<1>1. /\ GoodRecord(d)
      /\ d.current = wal.pending
      /\ d.lkg \in {wal.lkg, wal.pending}
      /\ d.rollback \in {wal.rollback, wal.current}
  BY RecordGoodBootRecord DEF TypeInv, BootConfirmed, BootHealthy
<1>2. proven' = proven \cup {wal.pending} /\ wal' = wal
  BY DEF BootConfirmed, IdentityConfirmed, CountSession, durable
<1> HIDE DEF d
<1>3. RunRecord(d, proven') /\ RunRecord(wal, proven') /\ Factory \in proven'
  BY <1>1, <1>2 DEF ProvenInv, RunRecord
<1>4. \/ Start("confirm", "arm", d, None)
      \/ Start("promote", "keep", d, None)
      \/ op' = Idle
  BY DEF BootConfirmed, d
<1>5. op'.copy \in {d, Idle.copy}
  BY <1>1, <1>4, StartCopy DEF Kinds, Steps
<1>6. RunRecord(Idle.copy, proven')
  BY <1>3 DEF RunRecord, Idle, New
<1> QED
  BY <1>2, <1>3, <1>5, <1>6 DEF ProvenInv

LEMMA FallbackProvenInv == TypeInv /\ ProvenInv /\ BootFallback => ProvenInv'
<1> SUFFICES ASSUME TypeInv, ProvenInv, BootFallback PROVE ProvenInv'
  OBVIOUS
<1> DEFINE d == RecordFailedBoot(wal, boot)
<1>1. /\ GoodRecord(d)
      /\ d.current \in {wal.lkg, wal.rollback, wal.current} \ {None}
      /\ d.lkg = wal.lkg
      /\ d.rollback = wal.rollback
  BY FailedBootRecord DEF TypeInv, TypeOK, BootFallback, BootHealthy
<1>2. proven \subseteq proven' /\ wal' = wal
  BY DEF BootFallback, durable
<1> HIDE DEF d
<1>3. RunRecord(d, proven') /\ RunRecord(wal, proven') /\ Factory \in proven'
  BY <1>1, <1>2 DEF ProvenInv, RunRecord
<1>4. Start("fallback", "arm", d, None)
  BY DEF BootFallback, d
<1>5. op'.copy \in {d, Idle.copy}
  BY <1>1, <1>4, StartCopy DEF Kinds, Steps
<1>6. RunRecord(Idle.copy, proven')
  BY <1>3 DEF RunRecord, Idle, New
<1> QED
  BY <1>2, <1>3, <1>5, <1>6 DEF ProvenInv

(* stage promotes the candidate that runs: its first good boot is on disk, *)
(* so it is already current.                                               *)
LEMMA StageProvenInv ==
  ASSUME TypeInv, ProvenInv, NEW v \in Releases, BeginStage(v)
  PROVE  ProvenInv'
<1>1. GoodRecord(wal) /\ GoodRecord(Promote(wal))
  BY PromoteRecord DEF TypeInv
<1>2. /\ Promote(wal).current = wal.current
      /\ Promote(wal).lkg = wal.current
      /\ Promote(wal).rollback = wal.rollback
  BY <1>1 DEF GoodRecord, Promote, Wal
<1>3. wal' = wal /\ proven' = proven
  BY DEF BeginStage, durable, history
<1>4. \/ Start("stage", "check", wal, v)
      \/ Start("stagePromote", "keep", Promote(wal), v)
      \/ op' = Idle
  BY DEF BeginStage
<1>5. op'.copy \in {wal, Promote(wal), Idle.copy}
  BY <1>1, <1>4, StartCopy DEF Kinds, Steps
<1>6. RunRecord(Promote(wal), proven) /\ RunRecord(Idle.copy, proven)
  BY <1>2, IdleRun DEF ProvenInv, RunRecord
<1> QED
  BY <1>3, <1>5, <1>6 DEF ProvenInv

LEMMA FetchProvenInv == TypeInv /\ ProvenInv /\ FetchFile => ProvenInv'
<1> SUFFICES ASSUME TypeInv, ProvenInv, FetchFile PROVE ProvenInv'
  OBVIOUS
<1>1. op \in Ops /\ GoodRecord(wal) /\ op.rel \in Releases
  BY DEF TypeInv, OpOK, FetchFile
<1>2. wal' = wal /\ proven' = proven
  BY DEF FetchFile, history
<1>3. CASE NextFile[op.file] # "end"
  <2>1. op'.copy = op.copy
    BY <1>1, <1>3 DEF FetchFile, Ops
  <2> QED
    BY <1>2, <2>1 DEF ProvenInv
<1>4. CASE NextFile[op.file] = "end"
  <2> DEFINE g == Goto(op, "save")
             d == StagedDeploy(wal, op.rel)
  <2>1. g \in Ops
    BY <1>1, GotoOK DEF TypeInv, OpOK, FetchFile, Steps
  <2>2. op' = [g EXCEPT !.copy = d]
    BY <1>4 DEF FetchFile
  <2>3. d.current = wal.current /\ d.lkg = wal.lkg /\ d.rollback = wal.rollback
    BY <1>1 DEF StagedDeploy, Deploy, GoodRecord, Wal
  <2> HIDE DEF g, d
  <2>4. op'.copy = d
    BY <2>1, <2>2 DEF Ops
  <2> QED
    BY <1>2, <2>3, <2>4 DEF ProvenInv, RunRecord
<1> QED
  BY <1>3, <1>4

LEMMA RollbackProvenInv == TypeInv /\ ProvenInv /\ BeginRollback => ProvenInv'
<1> SUFFICES ASSUME TypeInv, ProvenInv, BeginRollback PROVE ProvenInv'
  OBVIOUS
<1>1. wal \in Wal
  BY DEF TypeInv, GoodRecord
<1>2. /\ GoodRecord(Rollback(wal))
      /\ RollbackTo(wal) \in {wal.lkg, wal.rollback, wal.current} \ {None}
  BY <1>1, RollbackRecord
<1>3. /\ Rollback(wal).current = RollbackTo(wal)
      /\ Rollback(wal).lkg = wal.lkg
      /\ Rollback(wal).rollback = wal.rollback
  BY <1>1 DEF Rollback, Wal
<1>4. wal' = wal /\ proven' = proven
  BY DEF BeginRollback, durable, history
<1>5. op'.copy \in {Rollback(wal), Idle.copy}
  BY <1>2, StartCopy DEF BeginRollback, Kinds, Steps
<1>6. RunRecord(Rollback(wal), proven) /\ RunRecord(Idle.copy, proven)
  BY <1>2, <1>3, IdleRun DEF ProvenInv, RunRecord
<1> QED
  BY <1>4, <1>5, <1>6 DEF ProvenInv

LEMMA StepProvenInv == TypeInv /\ ProvenInv /\ [Next]_vars => ProvenInv'
<1> SUFFICES ASSUME TypeInv, ProvenInv, [Next]_vars PROVE ProvenInv'
  OBVIOUS
<1>1. CASE UNCHANGED vars
  BY <1>1 DEF vars, ProvenInv
<1>2. CASE QuietStep
  BY <1>2, QuietKeeps, IdleRun DEF ProvenInv
<1>3. CASE BootStable
  <2>1. GoodRecord(wal) /\ wal' = wal /\ proven' = proven
    BY <1>3 DEF BootStable, TypeInv, durable, history
  <2>2. op'.copy \in {wal, Idle.copy}
    BY <1>3, <2>1, StartCopy DEF BootStable, Kinds, Steps
  <2> QED
    BY <2>1, <2>2, IdleRun DEF ProvenInv
<1>4. CASE SaveWal
  <2>1. op \in Ops /\ wal' = op.copy /\ proven' = proven
    BY <1>4 DEF SaveWal, TypeInv, OpOK
  <2>2. op'.copy \in {op.copy, Idle.copy}
    BY <1>4, <2>1, GotoCopy DEF SaveWal
  <2> QED
    BY <2>1, <2>2, IdleRun DEF ProvenInv
<1>5. CASE \E v \in Releases : CliDeploy(v)
  <2>1. PICK v \in Releases : CliDeploy(v)
    BY <1>5
  <2>2. wal \in Wal /\ wal' = Deploy(wal, v) /\ op' = op /\ proven' = proven
    BY <2>1 DEF CliDeploy, TypeInv, GoodRecord
  <2>3. /\ wal'.current = wal.current /\ wal'.lkg = wal.lkg
        /\ wal'.rollback = wal.rollback
    BY <2>2 DEF Deploy, Wal
  <2> QED
    BY <2>2, <2>3 DEF ProvenInv, RunRecord
<1> QED
  BY <1>1, <1>2, <1>3, <1>4, <1>5, ConfirmedProvenInv, FallbackProvenInv,
     StageProvenInv, FetchProvenInv, RollbackProvenInv
     DEF Next, BootSuccess, DaemonStep, QuietStep

(* ProvenFallback: whatever is lost or repeated, the device only falls     *)
(* back to, and only calls current, a release that ran here and passed.    *)
THEOREM FallbackIsProven == Spec => []ProvenFallback
<1>1. ProvenInv => ProvenFallback
  BY DEF ProvenInv, RunRecord, ProvenFallback
<1>2. Spec => []ProvenInv
  BY InitProvenInv, StepProvenInv, TypeInvariance, PTL DEF Spec
<1> QED
  BY <1>1, <1>2, PTL

-----------------------------------------------------------------------------
(* The trial budget. *)

(* An operation that promotes, or that starts on a stable boot, is not a   *)
(* fallback, so only BootFallback itself leads to its arm step.            *)
KindFits(o) == o.step \in {"reconcile", "keep", "install"} => o.kind # "fallback"

(* The boot-state tries -next or starts the stable slots, never recovery.  *)
BootShape ==
  /\ boot.target # "recovery"
  /\ boot.target = "next" => boot.trial

(* A fallback boot hands the loader no more attempts than it had left. *)
FallbackArms ==
  op.kind = "fallback" /\ op.step = "arm" /\ HasPending(op.copy) =>
    boot.target = "next" /\ op.copy.attempts <= boot.attempts

BudgetInv == KindFits(op) /\ BootShape /\ FallbackArms /\ TrialBudget

LEMMA GotoKind ==
  ASSUME NEW o \in Ops, NEW step \in Steps
  PROVE  /\ Goto(o, step).step = step
         /\ Goto(o, step).kind \in {o.kind, "stage", "none"}
BY DEF Goto, Ops, Idle

LEMMA NextToPromoteKind ==
  ASSUME op \in Ops, NEW f, NextToPromote(f), op.kind # "fallback"
  PROVE  op'.kind # "fallback"
<1>1. CASE NextFile[f] = "end"
  BY <1>1, GotoKind DEF NextToPromote, Steps
<1>2. CASE NextFile[f] # "end"
  BY <1>2 DEF NextToPromote, Ops
<1> QED
  BY <1>1, <1>2

LEMMA StartKind ==
  ASSUME NEW kind \in Kinds, NEW step \in Steps, NEW copy, GoodRecord(copy),
         NEW rel \in Releases \cup {None}, Start(kind, step, copy, rel)
  PROVE  op'.step = step /\ op'.kind \in {kind, "stage", "none"}
<1> DEFINE o == [kind |-> kind, step |-> step, file |-> "erofs", copy |-> copy,
                 rel |-> rel]
<1>1. o \in Ops /\ o.kind = kind
  BY DEF Ops, GoodRecord, Files, RootFiles, KernelFiles
<1>2. op' = Goto(o, step)
  BY DEF Start
<1> QED
  BY <1>1, <1>2, GotoKind

(* No step but BootFallback starts the arm step of a fallback. *)
Elsewhere == UNCHANGED op \/ op'.kind # "fallback" \/ op'.step \in {"idle", "save", "clean"}

LEMMA ElsewhereKeeps ==
  ASSUME BudgetInv, Elsewhere, boot' = boot, tries' = tries
  PROVE  BudgetInv'
BY DEF BudgetInv, Elsewhere, KindFits, BootShape, FallbackArms, TrialBudget, OnTrial

LEMMA FileStepsElsewhere ==
  ASSUME TypeInv, BudgetInv,
         ReconcileCounter \/ SkipFile \/ KeepPrevious \/ InstallActive \/ CleanNext
         \/ SaveWal \/ AdvanceCounter
  PROVE  Elsewhere /\ boot' = boot /\ tries' = tries
<1>1. op \in Ops /\ KindFits(op)
  BY DEF TypeInv, OpOK, BudgetInv
<1>2. CASE ReconcileCounter
  BY <1>1, <1>2, GotoKind DEF ReconcileCounter, Elsewhere, KindFits, Steps, history
<1>3. CASE SkipFile \/ InstallActive
  BY <1>1, <1>3, NextToPromoteKind
     DEF SkipFile, InstallActive, Elsewhere, KindFits, durable, history
<1>4. CASE KeepPrevious
  <2>1. op'.kind = op.kind
    BY <1>1, <1>4 DEF KeepPrevious, Ops
  <2> QED
    BY <1>1, <1>4, <2>1 DEF KeepPrevious, Elsewhere, KindFits, history
<1>5. CASE CleanNext
  <2>1. CASE NextCleaned[op.file] = "end"
    <3>1. op' = Goto(op, AfterClean(op)) /\ boot' = boot /\ tries' = tries
      BY <1>5, <2>1 DEF CleanNext, history
    <3>2. /\ AfterClean(op) \in {"advance", "check", "idle"}
          /\ op.kind = "fallback" => AfterClean(op) = "idle"
      BY DEF AfterClean
    <3> QED
      BY <1>1, <3>1, <3>2, GotoKind DEF Elsewhere, Steps
  <2>2. CASE NextCleaned[op.file] # "end"
    <3>1. op' = [op EXCEPT !.file = NextCleaned[op.file]] /\ boot' = boot /\ tries' = tries
      BY <1>5, <2>2 DEF CleanNext, history
    <3>2. op'.step = "clean"
      BY <1>1, <1>5, <3>1 DEF CleanNext, Ops
    <3> QED
      BY <3>1, <3>2 DEF Elsewhere
  <2> QED
    BY <2>1, <2>2
<1>6. CASE SaveWal
  <2>1. op' = Goto(op, AfterSave(op)) /\ boot' = boot /\ tries' = tries
    BY <1>6 DEF SaveWal
  <2>2. /\ AfterSave(op) \in {"clean", "arm", "idle"}
        /\ AfterSave(op) = "arm" => op.kind = "stage"
    BY DEF AfterSave
  <2> QED
    BY <1>1, <2>1, <2>2, GotoKind DEF Elsewhere, Steps
<1>7. CASE AdvanceCounter
  BY <1>7, IdleOK DEF AdvanceCounter, Elsewhere, history
<1> QED
  BY <1>2, <1>3, <1>4, <1>5, <1>6, <1>7

LEMMA StageStepsElsewhere ==
  ASSUME TypeInv, CheckDowngrade \/ FetchFile \/ FetchError \/ FetchCorrupt \/ RejectFile
  PROVE  Elsewhere /\ boot' = boot /\ tries' = tries
<1>1. op \in Ops /\ op.kind = "stage"
  BY DEF TypeInv, OpOK, CheckDowngrade, FetchFile, FetchError, FetchCorrupt, RejectFile
<1>2. CASE CheckDowngrade
  BY <1>1, <1>2, IdleOK, GotoKind DEF CheckDowngrade, Elsewhere, durable, history, Steps
<1>3. CASE FetchFile
  <2>1. CASE NextFile[op.file] # "end"
    BY <1>1, <1>3, <2>1 DEF FetchFile, Elsewhere, history, Ops
  <2>2. CASE NextFile[op.file] = "end"
    <3> DEFINE g == Goto(op, "save")
    <3>1. g \in Ops /\ g.step = "save"
      BY <1>1, GotoOK DEF TypeInv, OpOK, Steps
    <3>2. op' = [g EXCEPT !.copy = StagedDeploy(wal, op.rel)]
      BY <1>3, <2>2 DEF FetchFile
    <3> HIDE DEF g
    <3>3. op'.step = "save"
      BY <3>1, <3>2 DEF Ops
    <3> QED
      BY <1>3, <3>3 DEF FetchFile, Elsewhere, history
  <2> QED
    BY <2>1, <2>2
<1>4. CASE FetchError \/ RejectFile
  BY <1>4, IdleOK DEF FetchError, RejectFile, Elsewhere, history
<1>5. CASE FetchCorrupt
  BY <1>1, <1>5 DEF FetchCorrupt, Elsewhere, history, Ops
<1> QED
  BY <1>2, <1>3, <1>4, <1>5

LEMMA StartsElsewhere ==
  ASSUME TypeInv,
         BootStable \/ BootUnhealthy \/ BootConfirmed \/ DaemonFails
         \/ \E v \in Releases : BeginStage(v) \/ CliDeploy(v)
  PROVE  Elsewhere /\ boot' = boot /\ tries' = tries
<1>1. GoodRecord(wal)
  BY DEF TypeInv
<1>2. CASE BootStable
  BY <1>1, <1>2, StartKind DEF BootStable, Elsewhere, durable, history, Kinds, Steps
<1>3. CASE BootUnhealthy
  BY <1>3 DEF BootUnhealthy, Elsewhere, durable, history
<1>4. CASE BootConfirmed
  <2> DEFINE d == RecordGoodBoot(wal)
  <2>1. GoodRecord(d)
    BY <1>4, RecordGoodBootRecord DEF TypeInv, BootConfirmed, BootHealthy
  <2>2. /\ boot' = boot
        /\ tries' = tries
        /\ \/ Start("confirm", "arm", d, None)
           \/ Start("promote", "keep", d, None)
           \/ op' = Idle
    BY <1>4 DEF BootConfirmed, durable
  <2> HIDE DEF d
  <2> QED
    BY <2>1, <2>2, StartKind, IdleOK DEF Elsewhere, Kinds, Steps
<1>5. CASE DaemonFails
  BY <1>5, IdleOK DEF DaemonFails, Elsewhere, durable, history
<1>6. ASSUME NEW v \in Releases, BeginStage(v)
      PROVE  Elsewhere /\ boot' = boot /\ tries' = tries
  <2>1. GoodRecord(Promote(wal))
    BY <1>1, PromoteRecord
  <2>2. /\ boot' = boot
        /\ tries' = tries
        /\ \/ Start("stage", "check", wal, v)
           \/ Start("stagePromote", "keep", Promote(wal), v)
           \/ op' = Idle
    BY <1>6 DEF BeginStage, durable, history
  <2> QED
    BY <1>1, <2>1, <2>2, StartKind, IdleOK DEF Elsewhere, Kinds, Steps
<1>7. ASSUME NEW v \in Releases, CliDeploy(v)
      PROVE  Elsewhere /\ boot' = boot /\ tries' = tries
  BY <1>7 DEF CliDeploy, Elsewhere
<1> QED
  BY <1>2, <1>3, <1>4, <1>5, <1>6, <1>7

LEMMA InitBudgetInv == Init => BudgetInv
<1> SUFFICES ASSUME Init PROVE BudgetInv
  OBVIOUS
<1>1. boot = ActiveState /\ tries = 0 /\ op = Idle
  BY DEF Init
<1>2. MaxAttempts \in Nat
  BY BudgetAssumption
<1> QED
  BY <1>1, <1>2, IdleOK
     DEF BudgetInv, KindFits, BootShape, FallbackArms, TrialBudget, OnTrial, ActiveState

(* The loader spends one attempt for each trial boot. *)
LEMMA LoaderBudgetInv == TypeInv /\ BudgetInv /\ LoaderBoot => BudgetInv'
<1> SUFFICES ASSUME TypeInv, BudgetInv, LoaderBoot PROVE BudgetInv'
  OBVIOUS
<1>1. op' = op /\ op.step = "idle"
  BY DEF LoaderBoot, TypeInv
<1>2. boot \in BootStates /\ tries \in Nat /\ MaxAttempts \in Nat
  BY BudgetAssumption DEF TypeInv, TypeOK
<1>3. CASE OnTrial
  <2>1. boot.attempts \in Nat /\ boot.attempts > 0 /\ boot.target = "next" /\ boot.trial
    BY <1>2, <1>3 DEF OnTrial, BootStates
  <2>2. boot' = [boot EXCEPT !.attempts = boot.attempts - 1] /\ tries' = tries + 1
    BY <1>3 DEF LoaderBoot
  <2>3. boot'.target = "next" /\ boot'.trial /\ boot'.attempts = boot.attempts - 1
    BY <1>2, <2>1, <2>2 DEF BootStates
  <2>4. tries + boot.attempts <= MaxAttempts
    BY <1>3 DEF BudgetInv, TrialBudget
  <2>5. tries' + (IF OnTrial' THEN boot'.attempts ELSE 0) <= MaxAttempts
    BY <1>2, <2>1, <2>2, <2>3, <2>4
  <2> QED
    BY <1>1, <2>3, <2>5 DEF BudgetInv, KindFits, BootShape, FallbackArms, TrialBudget
<1>4. CASE ~OnTrial
  <2>1. boot' = boot /\ tries' = tries
    BY <1>4 DEF LoaderBoot
  <2> QED
    BY <1>1, <2>1, ElsewhereKeeps DEF Elsewhere
<1> QED
  BY <1>3, <1>4

LEMMA FallbackBudgetInv == TypeInv /\ BudgetInv /\ BootFallback => BudgetInv'
<1> SUFFICES ASSUME TypeInv, BudgetInv, BootFallback PROVE BudgetInv'
  OBVIOUS
<1> DEFINE d == RecordFailedBoot(wal, boot)
<1>1. boot \in BootStates
  BY DEF TypeInv, TypeOK
<1>2. /\ GoodRecord(d)
      /\ HasPending(d) => /\ boot.target # "active"
                          /\ boot.target = "next" /\ boot.trial
                                => d.attempts <= boot.attempts
  BY <1>1, FailedBootRecord DEF TypeInv, BootFallback, BootHealthy
<1> HIDE DEF d
<1>3. HasPending(d) => boot.target = "next" /\ d.attempts <= boot.attempts
  BY <1>1, <1>2 DEF BudgetInv, BootShape, BootStates
<1>4. Start("fallback", "arm", d, None)
  BY DEF BootFallback, d
<1>5. op'.step = "arm" /\ op'.copy \in {d, Idle.copy}
  BY <1>2, <1>4, StartKind, StartCopy DEF Kinds, Steps
<1>6. ~HasPending(Idle.copy)
  BY DEF Idle, New, HasPending
<1>7. boot' = boot /\ tries' = tries
  BY DEF BootFallback, durable
<1>8. FallbackArms'
  BY <1>3, <1>5, <1>6, <1>7 DEF FallbackArms
<1> QED
  BY <1>5, <1>7, <1>8 DEF BudgetInv, KindFits, BootShape, TrialBudget, OnTrial

LEMMA ArmBudgetInv == TypeInv /\ BudgetInv /\ ArmBootState => BudgetInv'
<1> SUFFICES ASSUME TypeInv, BudgetInv, ArmBootState PROVE BudgetInv'
  OBVIOUS
<1> DEFINE d == op.copy
<1>1. op \in Ops /\ GoodRecord(d) /\ boot \in BootStates /\ tries \in Nat
  BY DEF TypeInv, TypeOK, OpOK
<1>2. d.attempts \in Nat /\ d.attempts <= MaxAttempts /\ MaxAttempts \in Nat
  BY <1>1, BudgetAssumption DEF GoodRecord, Wal, Coherent
<1>3. boot' = BootStateOf(d)
  BY DEF ArmBootState
<1>4. op'.step \in {"clean", "idle", "save"}
  BY <1>1, NextSteps, GotoKind DEF ArmBootState, Steps
<1>5. tries' + (IF HasPending(d) THEN d.attempts ELSE 0) <= MaxAttempts
  <2>1. CASE op.kind # "fallback"
    <3>1. tries' = 0
      BY <2>1 DEF ArmBootState
    <3> QED
      BY <1>2, <3>1
  <2>2. CASE op.kind = "fallback"
    <3>1. tries' = tries
      BY <2>2 DEF ArmBootState
    <3>2. CASE HasPending(d)
      <4>1. boot.target = "next" /\ boot.trial /\ d.attempts <= boot.attempts
        BY <2>2, <3>2 DEF BudgetInv, FallbackArms, BootShape, ArmBootState
      <4>2. d.attempts > 0 /\ boot.attempts \in Nat
        BY <1>1, <3>2 DEF GoodRecord, BootStates
      <4>3. OnTrial
        BY <1>2, <4>1, <4>2 DEF OnTrial
      <4>4. tries + boot.attempts <= MaxAttempts
        BY <4>3 DEF BudgetInv, TrialBudget
      <4> QED
        BY <1>1, <1>2, <3>1, <3>2, <4>1, <4>2, <4>4
    <3>3. CASE ~HasPending(d)
      <4>1. boot.attempts \in Nat
        BY <1>1 DEF BootStates
      <4>2. tries <= MaxAttempts
        BY <1>1, <1>2, <4>1 DEF BudgetInv, TrialBudget
      <4> QED
        BY <3>1, <3>3, <4>2, <1>1
    <3> QED
      BY <3>2, <3>3
  <2> QED
    BY <2>1, <2>2
<1>6. CASE HasPending(d)
  <2>1. boot' = [target |-> "next", trial |-> TRUE, attempts |-> d.attempts]
    BY <1>1, <1>3, <1>6, BootStateOfGood
  <2>2. TrialBudget'
    BY <1>1, <1>2, <1>5, <1>6, <2>1 DEF TrialBudget, OnTrial, GoodRecord
  <2> QED
    BY <1>4, <2>1, <2>2 DEF BudgetInv, KindFits, BootShape, FallbackArms
<1>7. CASE ~HasPending(d)
  <2>1. boot' = ActiveState
    BY <1>1, <1>3, <1>7, BootStateOfGood
  <2>2. TrialBudget'
    BY <1>5, <1>7, <2>1 DEF TrialBudget, OnTrial, ActiveState
  <2> QED
    BY <1>4, <2>1, <2>2 DEF BudgetInv, KindFits, BootShape, FallbackArms, ActiveState
<1> QED
  BY <1>6, <1>7

LEMMA StepBudgetInv == TypeInv /\ BudgetInv /\ [Next]_vars => BudgetInv'
<1> SUFFICES ASSUME TypeInv, BudgetInv, [Next]_vars PROVE BudgetInv'
  OBVIOUS
<1>1. CASE UNCHANGED vars
  BY <1>1, ElsewhereKeeps DEF vars, Elsewhere
<1>2. CASE \E s \in {"active", "prev", "recovery"} : ChooserBoot(s)
  BY <1>2, ElsewhereKeeps DEF ChooserBoot, Elsewhere, history
<1>3. CASE PowerOff
  BY <1>3, IdleOK, ElsewhereKeeps DEF PowerOff, Elsewhere, durable, history
<1>4. CASE BeginRollback
  <2>1. GoodRecord(Rollback(wal))
    BY RollbackRecord DEF TypeInv, GoodRecord
  <2>2. op'.kind # "fallback"
    BY <1>4, <2>1, StartKind DEF BeginRollback, Kinds, Steps
  <2> QED
    BY <1>4, <2>2, ElsewhereKeeps DEF BeginRollback, Elsewhere, durable, history
<1> QED
  BY <1>1, <1>2, <1>3, <1>4, LoaderBudgetInv, FallbackBudgetInv, ArmBudgetInv,
     FileStepsElsewhere, StageStepsElsewhere, StartsElsewhere, ElsewhereKeeps
     DEF Next, BootSuccess, DaemonStep

LEMMA BudgetInvariance == Spec => []BudgetInv
BY InitBudgetInv, StepBudgetInv, TypeInvariance, PTL DEF Spec

(* TrialBudget: an update that never confirms a boot gets at most          *)
(* max_attempts trial boots, whatever is lost between loader and daemon.   *)
THEOREM TrialsBounded == Spec => []TrialBudget
<1>1. BudgetInv => TrialBudget
  BY DEF BudgetInv
<1> QED
  BY <1>1, BudgetInvariance, PTL

(* The boot-state never asks for recovery, with a last_known_good or       *)
(* without: the branch of writeDeploymentBootState that arms it is dead.   *)
THEOREM RecoveryNeverArmed == Spec => [](boot.target # "recovery")
<1>1. BudgetInv => boot.target # "recovery"
  BY DEF BudgetInv, BootShape
<1> QED
  BY <1>1, BudgetInvariance, PTL

-----------------------------------------------------------------------------
(* The anti-rollback floor.  atomd deploy records any release it is given, *)
(* so the argument, like stage's isDowngrade, is about the updates that    *)
(* are staged: FloorInv holds until the first atomd deploy.                *)

(* The copy an operation holds is the WAL on disk. *)
AtWal(o, d) ==
  o.kind = "stable" \/ o.step \in {"reconcile", "clean", "advance"} => o.copy = d

(* What stage fetches is not below what is installed. *)
NotBelow(o, d) == o.step \in {"fetch", "reject"} => d.current <= o.rel

FloorInv ==
  /\ hw <= wal.counter
  /\ Ordered(wal)
  /\ Ordered(op.copy)
  /\ op.step # "idle" => wal.counter <= op.copy.counter
  /\ AtWal(op, wal)
  /\ NotBelow(op, wal)

LEMMA IdleFloor ==
  Ordered(Idle.copy) /\ (\A d : AtWal(Idle, d) /\ NotBelow(Idle, d))
<1>1. New(Factory) = [New(Factory) EXCEPT !.lkg = Factory]
  BY DEF New
<1>2. Ordered(Idle.copy)
  BY <1>1, NewRecord, FactoryAssumption DEF Idle
<1> QED
  BY <1>2 DEF Idle, AtWal, NotBelow

LEMMA GotoFields ==
  ASSUME NEW o \in Ops, NEW step
  PROVE  /\ step = "idle" => Goto(o, step) = Idle
         /\ step # "idle" => /\ Goto(o, step).copy = o.copy
                             /\ Goto(o, step).rel = o.rel
                             /\ Goto(o, step).step = step
                             /\ Goto(o, step).kind \in {o.kind, "stage"}
BY DEF Goto, Ops

(* A step that keeps the WAL and carries the operation's copy along, or    *)
(* ends the operation.                                                     *)
LEMMA FloorKept ==
  ASSUME FloorInv, wal' = wal, hw' <= wal.counter,
         \/ op' = Idle
         \/ op' = op
         \/ op.step # "idle" /\ op'.copy = op.copy /\ AtWal(op', wal) /\ NotBelow(op', wal)
  PROVE  FloorInv'
<1>1. CASE op' = Idle
  BY <1>1, IdleOK, IdleFloor DEF FloorInv
<1>2. CASE op' # Idle
  BY <1>2 DEF FloorInv
<1> QED
  BY <1>1, <1>2

LEMMA PromoteStepsFloor ==
  ASSUME TypeInv, FloorInv,
         SkipFile \/ KeepPrevious \/ InstallActive \/ ArmBootState
         \/ CleanNext \/ ReconcileCounter \/ AdvanceCounter
  PROVE  FloorInv'
<1>1. op \in Ops
  BY DEF TypeInv, OpOK
<1>2. wal' = wal
  BY DEF SkipFile, KeepPrevious, InstallActive, ArmBootState, CleanNext,
         ReconcileCounter, AdvanceCounter, durable
<1>3. hw' <= wal.counter
  BY DEF SkipFile, KeepPrevious, InstallActive, ArmBootState, CleanNext,
         ReconcileCounter, AdvanceCounter, durable, FloorInv, AtWal
<1>4. CASE SkipFile \/ InstallActive
  <2>1. NextToPromote(op.file) /\ op.step # "idle"
    BY <1>4 DEF SkipFile, InstallActive
  <2>2. CASE NextFile[op.file] = "end"
    <3>1. op' = Goto(op, "arm")
      BY <2>1, <2>2 DEF NextToPromote
    <3>2. op'.copy = op.copy /\ op'.step = "arm" /\ op'.kind \in {op.kind, "stage"}
      BY <1>1, <3>1, GotoFields
    <3>3. AtWal(op', wal) /\ NotBelow(op', wal)
      BY <3>2 DEF FloorInv, AtWal, NotBelow
    <3> QED
      BY <1>2, <1>3, <2>1, <3>2, <3>3, FloorKept
  <2>3. CASE NextFile[op.file] # "end"
    <3>1. op'.copy = op.copy /\ op'.step = "keep" /\ op'.kind = op.kind
      BY <1>1, <2>1, <2>3 DEF NextToPromote, Ops
    <3>2. AtWal(op', wal) /\ NotBelow(op', wal)
      BY <3>1 DEF FloorInv, AtWal, NotBelow
    <3> QED
      BY <1>2, <1>3, <2>1, <3>1, <3>2, FloorKept
  <2> QED
    BY <2>2, <2>3
<1>5. CASE KeepPrevious
  <2>1. op'.copy = op.copy /\ op'.step = "install" /\ op'.kind = op.kind /\ op.step # "idle"
    BY <1>1, <1>5 DEF KeepPrevious, Ops
  <2>2. AtWal(op', wal) /\ NotBelow(op', wal)
    BY <2>1 DEF FloorInv, AtWal, NotBelow
  <2> QED
    BY <1>2, <1>3, <2>1, <2>2, FloorKept
<1>6. CASE ArmBootState
  <2>1. op' = Goto(op, AfterArm(op)) /\ op.step # "idle"
    BY <1>6 DEF ArmBootState
  <2>2. /\ AfterArm(op) \in {"clean", "idle", "save"}
        /\ AfterArm(op) = "clean" => op.kind = "stable"
    BY DEF AfterArm
  <2>3. \/ op' = Idle
        \/ /\ op'.copy = op.copy
           /\ op'.step \in {"clean", "save"}
           /\ op'.step = "clean" => op.kind = "stable"
           /\ op'.kind \in {op.kind, "stage"}
    BY <1>1, <2>1, <2>2, GotoFields
  <2>4. op' = Idle \/ (op'.copy = op.copy /\ AtWal(op', wal) /\ NotBelow(op', wal))
    BY <2>3 DEF FloorInv, AtWal, NotBelow
  <2> QED
    BY <1>2, <1>3, <2>1, <2>4, FloorKept
<1>7. CASE CleanNext
  <2>1. op.copy = wal /\ op.step = "clean"
    BY <1>7 DEF CleanNext, FloorInv, AtWal
  <2>2. CASE NextCleaned[op.file] = "end"
    <3>1. op' = Goto(op, AfterClean(op))
      BY <1>7, <2>2 DEF CleanNext
    <3>2. AfterClean(op) \in {"advance", "check", "idle"}
      BY DEF AfterClean
    <3>3. op' = Idle \/ (op'.copy = wal /\ op'.step \in {"advance", "check"})
      BY <1>1, <2>1, <3>1, <3>2, GotoFields
    <3> QED
      BY <1>2, <1>3, <2>1, <3>3, FloorKept DEF AtWal, NotBelow
  <2>3. CASE NextCleaned[op.file] # "end"
    <3>1. op'.copy = wal /\ op'.step = "clean"
      BY <1>1, <1>7, <2>1, <2>3 DEF CleanNext, Ops
    <3> QED
      BY <1>2, <1>3, <2>1, <3>1, FloorKept DEF AtWal, NotBelow
  <2> QED
    BY <2>2, <2>3
<1>8. CASE ReconcileCounter
  <2>1. op.copy = wal /\ op.step = "reconcile" /\ op' = Goto(op, "arm")
    BY <1>8 DEF ReconcileCounter, FloorInv, AtWal
  <2>2. op'.copy = wal /\ op'.step = "arm"
    BY <1>1, <2>1, GotoFields
  <2> QED
    BY <1>2, <1>3, <2>1, <2>2, FloorKept DEF AtWal, NotBelow
<1>9. CASE AdvanceCounter
  BY <1>2, <1>3, <1>9, FloorKept DEF AdvanceCounter
<1> QED
  BY <1>4, <1>5, <1>6, <1>7, <1>8, <1>9

LEMMA SaveFloor == TypeInv /\ FloorInv /\ SaveWal => FloorInv'
<1> SUFFICES ASSUME TypeInv, FloorInv, SaveWal PROVE FloorInv'
  OBVIOUS
<1>1. op \in Ops /\ op.copy \in Wal /\ wal \in Wal /\ hw \in Releases \cup {None}
  BY DEF TypeInv, TypeOK, OpOK, GoodRecord
<1>2. wal' = op.copy /\ hw' = hw /\ op.step = "save"
  BY DEF SaveWal
<1>3. wal.counter <= op.copy.counter /\ hw <= wal.counter
  BY <1>2 DEF FloorInv
<1>4. wal.counter \in Nat /\ op.copy.counter \in Nat /\ hw \in Nat
  BY <1>1, VersionsAreNat, ReleasesAssumption DEF None
<1>5. hw' <= wal'.counter
  BY <1>2, <1>3, <1>4
<1>6. op' = Idle \/ (op'.copy = op.copy /\ op'.step \in {"clean", "arm"})
  <2>1. op' = Goto(op, AfterSave(op)) /\ AfterSave(op) \in {"clean", "arm", "idle"}
    BY DEF SaveWal, AfterSave
  <2> QED
    BY <1>1, <2>1, GotoFields
<1>7. Ordered(wal') /\ Ordered(op'.copy)
  BY <1>2, <1>6, IdleFloor DEF FloorInv
<1>8. op'.step # "idle" => wal'.counter <= op'.copy.counter
  BY <1>2, <1>4, <1>6, IdleOK
<1>9. AtWal(op', wal') /\ NotBelow(op', wal')
  BY <1>2, <1>6, IdleFloor DEF AtWal, NotBelow
<1> QED
  BY <1>5, <1>7, <1>8, <1>9 DEF FloorInv

LEMMA StageStepsFloor ==
  ASSUME TypeInv, FloorInv,
         CheckDowngrade \/ FetchFile \/ FetchError \/ FetchCorrupt \/ RejectFile
  PROVE  FloorInv'
<1>1. op \in Ops /\ op.kind = "stage" /\ op.rel \in Releases /\ op.step # "idle"
  BY DEF TypeInv, OpOK, CheckDowngrade, FetchFile, FetchError, FetchCorrupt, RejectFile
<1>2. wal' = wal /\ hw' = hw
  BY DEF CheckDowngrade, FetchFile, FetchError, FetchCorrupt, RejectFile, durable
<1>3. wal \in Wal /\ wal.current \in Nat /\ op.rel \in Nat
  BY <1>1, VersionsAreNat, ReleasesAssumption DEF TypeInv, GoodRecord
<1>4. hw' <= wal.counter
  BY <1>2 DEF FloorInv
<1>5. CASE CheckDowngrade
  <2>1. CASE op.rel < wal.current
    BY <1>2, <1>4, <1>5, <2>1, FloorKept DEF CheckDowngrade
  <2>2. CASE ~(op.rel < wal.current)
    <3>1. op' = Goto(op, "fetch")
      BY <1>5, <2>2 DEF CheckDowngrade
    <3>2. /\ op'.copy = op.copy /\ op'.step = "fetch" /\ op'.kind = "stage"
          /\ op'.rel = op.rel
      BY <1>1, <3>1, GotoFields
    <3>3. wal.current <= op'.rel
      BY <1>3, <2>2, <3>2
    <3> QED
      BY <1>1, <1>2, <1>4, <3>2, <3>3, FloorKept DEF AtWal, NotBelow
  <2> QED
    BY <2>1, <2>2
<1>6. CASE FetchFile
  <2>0. wal.current <= op.rel
    BY <1>6 DEF FetchFile, FloorInv, NotBelow
  <2>1. CASE NextFile[op.file] # "end"
    <3>1. /\ op'.copy = op.copy /\ op'.step = "fetch" /\ op'.kind = "stage"
          /\ op'.rel = op.rel
      BY <1>1, <1>6, <2>1 DEF FetchFile, Ops
    <3> QED
      BY <1>1, <1>2, <1>4, <2>0, <3>1, FloorKept DEF AtWal, NotBelow
  <2>2. CASE NextFile[op.file] = "end"
    <3> DEFINE g == Goto(op, "save")
               d == StagedDeploy(wal, op.rel)
    <3>1. g \in Ops /\ g.step = "save" /\ g.kind = "stage"
      BY <1>1, GotoOK, GotoFields DEF TypeInv, OpOK, Steps
    <3>2. op' = [g EXCEPT !.copy = d]
      BY <1>6, <2>2 DEF FetchFile
    <3>3. Ordered(d) /\ d.counter = wal.counter
      BY <1>1, <1>3, <2>0, StagedDeployOrdered DEF FloorInv
    <3> HIDE DEF g, d
    <3>4. op'.copy = d /\ op'.step = "save" /\ op'.kind = "stage"
      BY <3>1, <3>2 DEF Ops
    <3>5. wal.counter \in Nat
      BY <1>3, VersionsAreNat
    <3> QED
      BY <1>2, <1>4, <3>3, <3>4, <3>5 DEF FloorInv, AtWal, NotBelow
  <2> QED
    BY <2>1, <2>2
<1>7. CASE FetchError \/ RejectFile
  BY <1>2, <1>4, <1>7, FloorKept DEF FetchError, RejectFile
<1>8. CASE FetchCorrupt
  <2>1. /\ op'.copy = op.copy /\ op'.step = "reject" /\ op'.kind = "stage"
        /\ op'.rel = op.rel
    BY <1>1, <1>8 DEF FetchCorrupt, Ops
  <2>2. wal.current <= op'.rel
    BY <1>8, <2>1 DEF FetchCorrupt, FloorInv, NotBelow
  <2> QED
    BY <1>1, <1>2, <1>4, <2>1, <2>2, FloorKept DEF AtWal, NotBelow
<1> QED
  BY <1>5, <1>6, <1>7, <1>8

(* An operation starts on a record that keeps the counter or raises it. *)
LEMMA StartFloor ==
  ASSUME FloorInv, NEW kind \in Kinds, NEW step \in {"reconcile", "arm", "keep", "check"},
         NEW copy, GoodRecord(copy), NEW rel \in Releases \cup {None},
         Ordered(copy), wal.counter <= copy.counter,
         kind = "stable" \/ step = "reconcile" => copy = wal,
         Start(kind, step, copy, rel), wal' = wal, hw' = hw
  PROVE  FloorInv'
<1> DEFINE o == [kind |-> kind, step |-> step, file |-> "erofs", copy |-> copy,
                 rel |-> rel]
<1>1. o \in Ops
  BY DEF Ops, GoodRecord, Files, RootFiles, KernelFiles, Steps
<1>2. op' = Goto(o, step)
  BY DEF Start
<1>3. op'.copy = copy /\ op'.step = step /\ op'.kind \in {kind, "stage"}
  BY <1>1, <1>2, GotoFields
<1>4. AtWal(op', wal) /\ NotBelow(op', wal)
  BY <1>3 DEF AtWal, NotBelow
<1> QED
  BY <1>3, <1>4 DEF FloorInv

LEMMA StartsFloor ==
  ASSUME TypeInv, FloorInv,
         BootStable \/ BootConfirmed \/ BootFallback \/ BeginRollback
         \/ \E v \in Releases : BeginStage(v)
  PROVE  FloorInv'
<1>1. GoodRecord(wal) /\ wal \in Wal /\ Ordered(wal) /\ hw <= wal.counter
  BY DEF TypeInv, GoodRecord, FloorInv
<1>2. wal.counter \in Nat
  BY <1>1, VersionsAreNat
<1>3. CASE BootStable
  <2>1. Start("stable", "reconcile", wal, None) /\ wal' = wal /\ hw' = hw
    BY <1>3 DEF BootStable, durable
  <2> QED
    BY <1>1, <1>2, <2>1, StartFloor DEF Kinds
<1>4. CASE BootConfirmed
  <2> DEFINE d == RecordGoodBoot(wal)
  <2>1. HasPending(wal)
    BY <1>4 DEF BootConfirmed, BootHealthy
  <2>2. GoodRecord(d) /\ Ordered(d) /\ wal.counter <= d.counter
    BY <1>1, <2>1, RecordGoodBootRecord, RecordGoodBootOrdered
  <2>3. /\ wal' = wal
        /\ hw' = hw
        /\ \/ Start("confirm", "arm", d, None)
           \/ Start("promote", "keep", d, None)
           \/ op' = Idle
    BY <1>4 DEF BootConfirmed, durable
  <2> HIDE DEF d
  <2>4. CASE op' = Idle
    BY <1>1, <2>3, <2>4, FloorKept
  <2> QED
    BY <2>2, <2>3, <2>4, StartFloor DEF Kinds
<1>5. CASE BootFallback
  <2> DEFINE d == RecordFailedBoot(wal, boot)
  <2>1. HasPending(wal) /\ boot \in BootStates
    BY <1>5 DEF BootFallback, BootHealthy, TypeInv, TypeOK
  <2>2. GoodRecord(d) /\ Ordered(d) /\ d.counter = wal.counter
    BY <1>1, <2>1, FailedBootRecord, FailedBootOrdered
  <2>3. Start("fallback", "arm", d, None) /\ wal' = wal /\ hw' = hw
    BY <1>5 DEF BootFallback, durable
  <2> HIDE DEF d
  <2> QED
    BY <1>2, <2>2, <2>3, StartFloor DEF Kinds
<1>6. CASE BeginRollback
  <2>1. /\ GoodRecord(Rollback(wal)) /\ Ordered(Rollback(wal))
        /\ Rollback(wal).counter = wal.counter
    BY <1>1, RollbackRecord, RollbackOrdered
  <2>2. Start("rollback", "arm", Rollback(wal), None) /\ wal' = wal /\ hw' = hw
    BY <1>6 DEF BeginRollback, durable
  <2> QED
    BY <1>2, <2>1, <2>2, StartFloor DEF Kinds
<1>7. ASSUME NEW v \in Releases, BeginStage(v) PROVE FloorInv'
  <2>1. /\ GoodRecord(Promote(wal)) /\ Ordered(Promote(wal))
        /\ wal.counter <= Promote(wal).counter
    BY <1>1, PromoteRecord, PromoteOrdered
  <2>2. /\ wal' = wal
        /\ hw' = hw
        /\ \/ Start("stage", "check", wal, v)
           \/ Start("stagePromote", "keep", Promote(wal), v)
           \/ op' = Idle
    BY <1>7 DEF BeginStage, durable
  <2>3. CASE op' = Idle
    BY <1>1, <2>2, <2>3, FloorKept
  <2> QED
    BY <1>1, <1>2, <2>1, <2>2, <2>3, StartFloor DEF Kinds
<1> QED
  BY <1>3, <1>4, <1>5, <1>6, <1>7

LEMMA InitFloorInv == Init => FloorInv
<1> SUFFICES ASSUME Init PROVE FloorInv
  OBVIOUS
<1>1. PICK l \in InitialLkg : wal = [New(Factory) EXCEPT !.lkg = l]
  BY DEF Init
<1>2. l \in {Factory, None}
  BY LkgAssumption
<1>3. Ordered(wal)
  BY <1>1, <1>2, NewRecord, FactoryAssumption
<1>4. wal.counter = 0 /\ hw = 0
  BY <1>1 DEF New, None, Init
<1> QED
  BY <1>3, <1>4, IdleOK, IdleFloor DEF Init, FloorInv

(* No step takes back an atomd deploy. *)
LEMMA DeploysCounted ==
  ASSUME TypeInv, [Next]_vars, used'.deploys = 0
  PROVE  used.deploys = 0
<1>1. used \in [Events -> Nat]
  BY DEF TypeInv, TypeOK
<1>2. used' = used \/ \E e \in Events : used' = [used EXCEPT ![e] = @ + 1]
  <2>1. CASE UNCHANGED vars
    BY <2>1 DEF vars
  <2>2. CASE \/ LoaderBoot \/ \E s \in {"active", "prev", "recovery"} : ChooserBoot(s)
             \/ PowerOff
    BY <2>2 DEF LoaderBoot, ChooserBoot, PowerOff, Spend, Events
  <2>3. CASE BootSuccess
    BY <2>3 DEF BootSuccess, BootStable, BootUnhealthy, BootConfirmed, BootFallback,
               BootSuccessRuns, BootHealthy, Spend, Events
  <2>4. CASE DaemonStep
    BY <2>4 DEF DaemonStep, ReconcileCounter, SkipFile, KeepPrevious, InstallActive,
               ArmBootState, SaveWal, CleanNext, AdvanceCounter, CheckDowngrade,
               FetchFile, FetchError, FetchCorrupt, RejectFile, Spend, Events
  <2>5. CASE DaemonFails
    BY <2>5 DEF DaemonFails, Spend, Events
  <2>6. CASE \E v \in Releases : BeginStage(v)
    BY <2>6 DEF BeginStage, Spend, Events
  <2>7. CASE BeginRollback
    BY <2>7 DEF BeginRollback, Spend, Events
  <2>8. CASE \E v \in Releases : CliDeploy(v)
    BY <2>8 DEF CliDeploy, Spend, Events
  <2> QED
    BY <2>1, <2>2, <2>3, <2>4, <2>5, <2>6, <2>7, <2>8 DEF Next
<1> QED
  BY <1>1, <1>2 DEF Events

LEMMA StepFloorInv ==
  ASSUME TypeInv, FloorInv, [Next]_vars, used'.deploys = 0
  PROVE  FloorInv'
<1>1. hw <= wal.counter
  BY DEF FloorInv
<1>2. CASE UNCHANGED vars
  BY <1>1, <1>2, FloorKept DEF vars
<1>3. CASE \/ LoaderBoot \/ \E s \in {"active", "prev", "recovery"} : ChooserBoot(s)
           \/ BootUnhealthy
  BY <1>1, <1>3, FloorKept DEF LoaderBoot, ChooserBoot, BootUnhealthy, durable
<1>4. CASE PowerOff \/ DaemonFails
  BY <1>1, <1>4, FloorKept DEF PowerOff, DaemonFails, durable
<1>5. CASE \E v \in Releases : CliDeploy(v)
  <2>1. used \in [Events -> Nat] /\ used' = [used EXCEPT !.deploys = @ + 1]
    BY <1>5 DEF CliDeploy, Spend, TypeInv, TypeOK
  <2> QED
    BY <2>1 DEF Events
<1> QED
  BY <1>2, <1>3, <1>4, <1>5, PromoteStepsFloor, SaveFloor, StageStepsFloor, StartsFloor
     DEF Next, BootSuccess, DaemonStep

(* FloorBehindWal: as long as every update comes through stage, the        *)
(* hardware floor never passes the counter of the WAL, which is the        *)
(* version of last_known_good: the device never locks its fallback out.    *)
THEOREM FloorNeverAhead == Spec => []FloorBehindWal
<1> DEFINE Inv == used.deploys = 0 => FloorInv
<1>1. Init => Inv
  BY InitFloorInv
<1>2. TypeInv /\ Inv /\ [Next]_vars => Inv'
  BY StepFloorInv, DeploysCounted
<1>3. Inv => FloorBehindWal
  BY DEF FloorInv, Ordered, FloorBehindWal
<1> HIDE DEF Inv
<1> QED
  BY <1>1, <1>2, <1>3, TypeInvariance, PTL DEF Spec

-----------------------------------------------------------------------------
(* One update, from the staging of a release to its promotion or rollback, *)
(* cut anywhere any number of times: what the slot files hold at each      *)
(* point of it, and that the device can always boot what the WAL names.    *)

(* One staging at most, and nobody moves slots or versions by hand. *)
OneUpdate ==
  used.stages <= 1 /\ used.deploys = 0 /\ used.rollbacks = 0 /\ used.picks = 0

-----------------------------------------------------------------------------
(* What the slots hold. *)

(* Slot s holds files fs of release v. *)
Holds(s, v, fs) == \A f \in fs : slot[s][f] = Artifact(v, f)

(* The files that a loop over a slot has behind it at file f. *)
Earlier == [erofs |-> {}, hash |-> {"erofs"}, efi |-> RootFiles,
            sig |-> RootFiles \cup {"efi"}]

(* Between the two renames of a promotion the active pair does not match. *)
Exposed == slot["active"]["efi"] # slot["active"]["sig"]

OldActive == Holds("active", Factory, KernelFiles)
OldPrev == Holds("prev", Factory, KernelFiles)

(* The old pair is in -prev alone, and faults have used up the trials. *)
Spent == Exposed /\ OldPrev /\ used.faults >= MaxAttempts - 1

(* The root of the old image is in -active or, file by file, in -prev. *)
OldRoots ==
  \A f \in RootFiles :
    \E s \in {"active", "prev"} : slot[s][f] = Artifact(Factory, f)

(* How far a promotion of u has come, over any number of attempts at it. *)
Between(u) ==
  /\ Holds("next", u, Files)
  /\ \A f \in RootFiles :
       IF f \in linked
       THEN slot["active"][f] = Artifact(u, f) /\ slot["prev"][f] = Artifact(Factory, f)
       ELSE slot["active"][f] = Artifact(Factory, f)
  /\ \A f \in KernelFiles : /\ slot["active"][f] \in {Factory, u}
                            /\ slot["prev"][f] \in {Factory, None}
  /\ slot["active"]["efi"] # Factory => /\ linked = RootFiles
                                        /\ slot["prev"]["efi"] = Factory
                                        /\ u \in Good
  /\ slot["active"]["sig"] # Factory => slot["active"]["efi"] = u

-----------------------------------------------------------------------------
(* The three stages of an update. *)

(* A candidate of the factory image, which a failed trial returns to. *)
Due(d) ==
  /\ HasPending(d)
  /\ d.pendingHash = RootOf[d.pending]
  /\ Factory <= d.pending
  /\ d.current \in {Factory, d.pending}
  /\ d.lkg \in {Factory, None}
  /\ RollbackTo(d) = Factory

Before ==
  /\ ~HasPending(wal)
  /\ wal.current = Factory /\ wal.lkg \in {Factory, None} /\ wal.rollback = None
  /\ boot.target = "active"
  /\ Holds("active", Factory, Files)
  /\ \A f \in Files : slot["prev"][f] = None
  /\ linked = {}
  /\ mode = "up" => running = Factory
  /\ \/ op = Idle
     \/ op.kind = "stable" /\ op.step \in {"reconcile", "arm", "clean"}
     \/ /\ op.kind = "stage" /\ used.stages = 1
        /\ op.step \in {"check", "fetch", "reject", "save"}
        /\ op.step = "fetch" => Holds("next", op.rel, Earlier[op.file])
        /\ op.step = "save" => /\ op.copy = StagedDeploy(wal, op.rel)
                               /\ Factory <= op.rel
                               /\ Holds("next", op.rel, Files)

(* What the operation in progress has done, while u is on trial. *)
Trial(u) ==
  \/ op = Idle
  \/ op.kind = "stage" /\ op.step = "arm" /\ op.copy = wal /\ wal.attempts = MaxAttempts
     /\ running = Factory
  \/ /\ op.kind = "confirm" /\ op.step \in {"arm", "save"}
     /\ running = u /\ u \in Good
     /\ Due(op.copy) /\ op.copy.pending = u /\ op.copy.attempts = MaxAttempts
  \/ /\ op.kind = "promote" /\ op.step \in {"keep", "install", "arm", "save"}
     /\ running = u /\ u \in Good
     /\ ~HasPending(op.copy) /\ op.copy.current = u
     /\ op.step \in {"keep", "install"} => \A f \in Earlier[op.file] : InPlace(f)
     /\ op.step = "install" => /\ ~InPlace(op.file)
                               /\ slot["prev"][op.file] = slot["active"][op.file]
     /\ op.step \in {"arm", "save"} => \A f \in Files : InPlace(f)
     /\ op.step = "save" => boot.target = "active"
  \/ /\ op.kind = "fallback" /\ op.step \in {"arm", "save"}
     /\ running # u
     /\ IF HasPending(op.copy) THEN Due(op.copy) /\ op.copy.pending = u
        ELSE /\ op.copy.current = Factory
             /\ op.step = "save" => boot.target = "active"

(* Whatever runs was started by the loader on what the slots held. *)
Origin(u) ==
  mode = "up" =>
    IF running = u THEN u = Factory \/ boot.target = "next" \/ Holds("active", u, KernelFiles)
    ELSE running = Factory /\ (OldActive \/ Spent)

(* Each trial boot of a good candidate beyond the first costs a fault. *)
Left == boot.attempts + used.faults

Reserve(u) ==
  used.faults < MaxAttempts - 1 /\ u \in Good \ {Factory} /\ boot.target = "next" =>
    /\ mode \in {"off", "up"}
    /\ mode = "off" => Left >= MaxAttempts
    /\ mode = "up" /\ running = u =>
         /\ Left >= MaxAttempts - 1
         /\ checked /\ op.step = "idle" => Left >= MaxAttempts
         /\ op.kind = "confirm" /\ op.step = "save" => Left >= MaxAttempts
    /\ mode = "up" /\ running # u =>
         /\ boot.attempts = MaxAttempts /\ wal.attempts = MaxAttempts
         /\ op.kind = "fallback" => HasPending(op.copy) /\ op.copy.attempts = MaxAttempts

During ==
  /\ used.stages = 1
  /\ Due(wal)
  /\ Between(wal.pending)
  /\ Trial(wal.pending)
  /\ Origin(wal.pending)
  /\ Reserve(wal.pending)
  /\ Exposed => boot.target = "next" \/ used.faults >= MaxAttempts - 1

After ==
  /\ used.stages = 1
  /\ ~HasPending(wal)
  /\ boot.target = "active"
  /\ \/ Holds("active", wal.current, Files)
     \/ /\ wal.current = Factory
        /\ Factory <= slot["active"]["efi"]
        /\ (OldActive /\ OldRoots) \/ Spent
  /\ \/ op = Idle
     \/ op.kind = "stable" /\ op.step \in {"reconcile", "arm", "clean"}
     \/ op.kind = "promote" /\ op.step \in {"clean", "advance"}
     \/ op.kind = "fallback" /\ op.step = "clean"

(* An operation runs in a session, and a session that is over has checked  *)
(* nothing.                                                                *)
Control ==
  /\ op.step # "idle" => mode = "up"
  /\ op.step = "idle" => op = Idle
  /\ mode = "off" => ~checked

Phase == Before \/ During \/ After

(* What is already known of every state up to the first atomd deploy. *)
Known == TypeInv /\ BudgetInv /\ FloorInv

OneUpdateInv == OneUpdate => FloorInv /\ Control /\ Phase

-----------------------------------------------------------------------------
(* Lemmas about operations and the bounded events. *)

LEMMA GotoStep ==
  ASSUME NEW o \in Ops, NEW step \in Steps \ {"idle", "check"}
  PROVE  /\ Goto(o, step).kind = o.kind
         /\ Goto(o, step).step = step
         /\ Goto(o, step).file = IF step = "clean" THEN "efi" ELSE "erofs"
         /\ Goto(o, step).copy = o.copy
         /\ Goto(o, step).rel = o.rel
BY DEF Goto, Ops

LEMMA StartStep ==
  ASSUME NEW kind \in Kinds, NEW step \in Steps \ {"idle"},
         step = "check" => kind = "stage", NEW copy, GoodRecord(copy),
         NEW rel \in Releases \cup {None}, Start(kind, step, copy, rel)
  PROVE  /\ op'.kind = kind /\ op'.step = step /\ op'.copy = copy /\ op'.rel = rel
         /\ op'.file = IF step = "clean" THEN "efi" ELSE "erofs"
<1> DEFINE o == [kind |-> kind, step |-> step, file |-> "erofs", copy |-> copy,
                 rel |-> rel]
<1>1. o \in Ops
  BY DEF Ops, GoodRecord, Files, RootFiles, KernelFiles
<1>2. op' = [o EXCEPT !.step = step,
                      !.kind = IF step = "check" THEN "stage" ELSE @,
                      !.file = IF step = "clean" THEN "efi" ELSE "erofs"]
  BY DEF Start, Goto
<1> QED
  BY <1>1, <1>2 DEF Ops

(* Only the event itself is counted. *)
LEMMA SpendOne ==
  ASSUME used \in [Events -> Nat], NEW what \in Events, Spend(what)
  PROVE  /\ used'[what] = used[what] + 1
         /\ \A e \in Events \ {what} : used'[e] = used[e]
BY DEF Spend

(* The steps that nobody takes in one update. *)
LEMMA NotByHand ==
  ASSUME TypeInv, OneUpdate, OneUpdate'
  PROVE  /\ \A s : ~ChooserBoot(s)
         /\ ~BeginRollback
         /\ \A v : ~CliDeploy(v)
<1>1. used \in [Events -> Nat]
  BY DEF TypeInv, TypeOK
<1> QED
  BY <1>1, SpendOne DEF OneUpdate, ChooserBoot, BeginRollback, CliDeploy, Events

(* Events are only ever counted up, and only a staging counts a staging. *)
LEMMA UsedGrows ==
  ASSUME TypeInv, [Next]_vars
  PROVE  /\ \A e \in Events : used[e] \in Nat /\ used'[e] \in Nat /\ used[e] <= used'[e]
         /\ (\A v \in Releases : ~BeginStage(v)) => used'.stages = used.stages
<1>1. used \in [Events -> Nat]
  BY DEF TypeInv, TypeOK
<1>2. \/ used' = used
      \/ \E e \in Events \ {"stages"} : Spend(e)
      \/ Spend("stages") /\ \E v \in Releases : BeginStage(v)
  <2>1. CASE UNCHANGED vars
    BY <2>1 DEF vars
  <2>2. CASE \/ LoaderBoot \/ \E s \in {"active", "prev", "recovery"} : ChooserBoot(s)
             \/ PowerOff
    BY <2>2 DEF LoaderBoot, ChooserBoot, PowerOff, Events
  <2>3. CASE BootSuccess
    BY <2>3 DEF BootSuccess, BootStable, BootUnhealthy, BootConfirmed, BootFallback,
               BootSuccessRuns, BootHealthy, Events
  <2>4. CASE DaemonStep
    BY <2>4 DEF DaemonStep, ReconcileCounter, SkipFile, KeepPrevious, InstallActive,
               ArmBootState, SaveWal, CleanNext, AdvanceCounter, CheckDowngrade,
               FetchFile, FetchError, FetchCorrupt, RejectFile
  <2>5. CASE DaemonFails
    BY <2>5 DEF DaemonFails, Events
  <2>6. CASE \E v \in Releases : BeginStage(v)
    BY <2>6 DEF BeginStage
  <2>7. CASE BeginRollback
    BY <2>7 DEF BeginRollback, Events
  <2>8. CASE \E v \in Releases : CliDeploy(v)
    BY <2>8 DEF CliDeploy, Events
  <2> QED
    BY <2>1, <2>2, <2>3, <2>4, <2>5, <2>6, <2>7, <2>8 DEF Next
<1>3. CASE used' = used
  BY <1>1, <1>3 DEF Events
<1>4. CASE \E e \in Events \ {"stages"} : Spend(e)
  BY <1>1, <1>4, SpendOne DEF Events
<1>5. CASE Spend("stages") /\ \E v \in Releases : BeginStage(v)
  BY <1>1, <1>5, SpendOne DEF Events
<1> QED
  BY <1>2, <1>3, <1>4, <1>5

LEMMA OneUpdateBefore ==
  ASSUME TypeInv, [Next]_vars, OneUpdate'
  PROVE  OneUpdate
BY UsedGrows DEF OneUpdate, Events

-----------------------------------------------------------------------------
(* An operation needs a session. *)

LEMMA StepsGoOn ==
  ASSUME TypeInv, DaemonStep
  PROVE  /\ op.step # "idle" /\ mode' = mode /\ checked' = checked /\ running' = running
         /\ op'.step = "idle" => op' = Idle
<1>1. op \in Ops
  BY DEF TypeInv, OpOK
<1>2. \A step \in Steps : Goto(op, step).step = "idle" => Goto(op, step) = Idle
  BY <1>1, GotoFields DEF Steps
<1>3. CASE ReconcileCounter \/ CheckDowngrade
  BY <1>2, <1>3 DEF ReconcileCounter, CheckDowngrade, session, Steps
<1>4. CASE SkipFile \/ InstallActive
  <2>1. NextToPromote(op.file)
    BY <1>4 DEF SkipFile, InstallActive
  <2>2. op'.step = "idle" => op' = Idle
    <3>1. CASE NextFile[op.file] = "end"
      BY <1>2, <2>1, <3>1 DEF NextToPromote, Steps
    <3>2. CASE NextFile[op.file] # "end"
      BY <1>1, <2>1, <3>2 DEF NextToPromote, Ops
    <3> QED
      BY <3>1, <3>2
  <2> QED
    BY <1>4, <2>2 DEF SkipFile, InstallActive, session
<1>5. CASE KeepPrevious \/ FetchCorrupt
  BY <1>1, <1>5 DEF KeepPrevious, FetchCorrupt, session, Ops
<1>6. CASE ArmBootState
  BY <1>1, <1>2, <1>6, NextSteps DEF ArmBootState, session, Steps
<1>7. CASE SaveWal
  BY <1>1, <1>2, <1>7, NextSteps DEF SaveWal, session, Steps
<1>8. CASE CleanNext
  <2>1. CASE NextCleaned[op.file] = "end"
    BY <1>1, <1>2, <1>8, <2>1, NextSteps DEF CleanNext, session, Steps
  <2>2. CASE NextCleaned[op.file] # "end"
    BY <1>1, <1>8, <2>2 DEF CleanNext, session, Ops
  <2> QED
    BY <2>1, <2>2
<1>9. CASE AdvanceCounter \/ FetchError \/ RejectFile
  BY <1>9 DEF AdvanceCounter, FetchError, RejectFile, session
<1>10. CASE FetchFile
  <2>1. CASE NextFile[op.file] # "end"
    BY <1>1, <1>10, <2>1 DEF FetchFile, session, Ops
  <2>2. CASE NextFile[op.file] = "end"
    <3>1. Goto(op, "save") \in Ops /\ Goto(op, "save").step = "save"
      BY <1>1, GotoOK DEF TypeInv, OpOK, Steps
    <3> QED
      BY <1>10, <2>2, <3>1 DEF FetchFile, session, Ops
  <2> QED
    BY <2>1, <2>2
<1> QED
  BY <1>3, <1>4, <1>5, <1>6, <1>7, <1>8, <1>9, <1>10 DEF DaemonStep

LEMMA StepControl ==
  ASSUME TypeInv, Control, [Next]_vars, OneUpdate, OneUpdate'
  PROVE  Control'
<1>1. GoodRecord(wal)
  BY DEF TypeInv
<1>2. CASE UNCHANGED vars
  BY <1>2 DEF Control, vars
<1>3. CASE LoaderBoot
  BY <1>3 DEF Control, LoaderBoot, EnterSlot, TypeInv
<1>4. CASE PowerOff \/ DaemonFails \/ BootUnhealthy
  BY <1>4, IdleOK DEF Control, PowerOff, DaemonFails, BootUnhealthy, session
<1>5. CASE BootStable
  BY <1>1, <1>5, StartStep DEF Control, BootStable, BootSuccessRuns, Kinds, Steps
<1>6. CASE BootConfirmed
  <2> DEFINE d == RecordGoodBoot(wal)
  <2>1. GoodRecord(d)
    BY <1>1, <1>6, RecordGoodBootRecord DEF BootConfirmed, BootHealthy
  <2> HIDE DEF d
  <2>2. Start("confirm", "arm", d, None) \/ Start("promote", "keep", d, None) \/ op' = Idle
    BY <1>6 DEF BootConfirmed, d
  <2>3. op' = Idle \/ op'.step # "idle"
    BY <2>1, <2>2, StartStep DEF Kinds, Steps
  <2> QED
    BY <1>6, <2>3 DEF Control, BootConfirmed, BootHealthy, BootSuccessRuns
<1>7. CASE BootFallback
  <2>1. GoodRecord(RecordFailedBoot(wal, boot))
    BY <1>1, <1>7, FailedBootRecord DEF BootFallback, BootHealthy, TypeInv, TypeOK
  <2>2. op'.step # "idle"
    BY <1>7, <2>1, StartStep DEF BootFallback, Kinds, Steps
  <2> QED
    BY <1>7, <2>2 DEF Control, BootFallback, BootHealthy, BootSuccessRuns
<1>8. CASE DaemonStep
  BY <1>8, StepsGoOn DEF Control
<1>9. ASSUME NEW v \in Releases, BeginStage(v) PROVE Control'
  <2>1. \/ Start("stage", "check", wal, v)
        \/ Start("stagePromote", "keep", Promote(wal), v)
        \/ op' = Idle
    BY <1>9 DEF BeginStage
  <2>2. GoodRecord(Promote(wal))
    BY <1>1, PromoteRecord
  <2>3. op' = Idle \/ op'.step # "idle"
    BY <1>1, <2>1, <2>2, StartStep DEF Kinds, Steps
  <2> QED
    BY <1>9, <2>3 DEF Control, BeginStage, session
<1> QED
  BY <1>2, <1>3, <1>4, <1>5, <1>6, <1>7, <1>8, <1>9, NotByHand DEF Next, BootSuccess

-----------------------------------------------------------------------------
(* Lemmas about slots and versions. *)

LEMMA Versions ==
  ASSUME TypeInv, FloorInv
  PROVE  /\ hw \in Nat /\ wal.lkg \in Nat /\ wal.current \in Nat /\ wal.pending \in Nat
         /\ hw <= wal.lkg /\ wal.lkg <= wal.current
<1>1. wal \in Wal /\ hw \in Releases \cup {None}
  BY DEF TypeInv, TypeOK
<1>2. hw <= wal.counter /\ Ordered(wal)
  BY DEF FloorInv
<1> QED
  BY <1>1, <1>2, VersionsAreNat, ReleasesAssumption DEF Ordered, None

(* Every file a release publishes is there. *)
LEMMA Artifacts ==
  ASSUME NEW v \in Releases, NEW f
  PROVE  v \in Nat /\ v # None /\ Artifact(v, f) \in Nat /\ Artifact(v, f) # None
BY ReleasesAssumption, RootOfAssumption DEF Artifact

LEMMA SlotTyped == TypeInv => slot \in [Slots -> [Files -> Contents]]
BY DEF TypeInv, TypeOK

(* Writing and removing -next files leaves the other slots alone. *)
LEMMA NextWritten ==
  ASSUME TypeInv, NEW f \in Files, NEW c, Write(f, c)
  PROVE  /\ slot'["active"] = slot["active"] /\ slot'["prev"] = slot["prev"]
         /\ slot'["next"][f] = c
         /\ \A g \in Files \ {f} : slot'["next"][g] = slot["next"][g]
         /\ linked' \subseteq linked
BY SlotTyped DEF Write, Slots

LEMMA NextRemoved ==
  ASSUME TypeInv, NEW fs, Remove(fs)
  PROVE  /\ slot'["active"] = slot["active"] /\ slot'["prev"] = slot["prev"]
         /\ linked' \subseteq linked
BY SlotTyped DEF Remove, Slots

-----------------------------------------------------------------------------
(* Before the update: the factory image alone, and perhaps a fetch. *)

LEMMA InitBefore == Init => Before
<1> SUFFICES ASSUME Init PROVE Before
  OBVIOUS
<1>1. PICK l \in InitialLkg : wal = [New(Factory) EXCEPT !.lkg = l]
  BY DEF Init
<1>2. l \in {Factory, None}
  BY LkgAssumption
<1>3. /\ wal.current = Factory /\ wal.lkg = l /\ wal.rollback = None
      /\ ~HasPending(wal)
  BY <1>1 DEF New, HasPending
<1>4. boot.target = "active"
  BY DEF Init, ActiveState
<1>5. /\ \A f \in Files : slot["active"][f] = Artifact(Factory, f)
      /\ \A f \in Files : slot["prev"][f] = None
  BY DEF Init, Slots
<1> QED
  BY <1>2, <1>3, <1>4, <1>5 DEF Init, Before, Holds

LEMMA BeforeActive ==
  ASSUME TypeInv, FloorInv, Before
  PROVE  StableSlot = "active" /\ LoaderSlot = "active" /\ Starts("active")
<1>1. hw \in Nat /\ hw <= Factory
  BY Versions DEF Before
<1>2. \A f \in Files : slot["active"][f] = Artifact(Factory, f)
  BY DEF Before, Holds
<1>3. /\ slot["active"]["efi"] = Factory /\ slot["active"]["sig"] = Factory
      /\ slot["active"]["erofs"] = RootOf[Factory]
      /\ slot["active"]["hash"] = RootOf[Factory]
  BY <1>2 DEF Files, RootFiles, KernelFiles, Artifact
<1>4. Factory \in Releases /\ Factory \in Nat
  BY Artifacts, FactoryAssumption
<1>5. Chainable("active")
  BY <1>1, <1>3, <1>4 DEF Chainable
<1>6. boot.target = "active"
  BY DEF Before
<1> QED
  BY <1>3, <1>5, <1>6
     DEF StableSlot, LoaderSlot, FirstOf, OnTrial, Starts, HasRoot, Slots

LEMMA BeforeLoader ==
  ASSUME TypeInv, FloorInv, Control, Before, LoaderBoot
  PROVE  Before'
<1>1. slot["active"]["efi"] = Factory
  BY DEF Before, Holds, Artifact, Files, RootFiles, KernelFiles
<1>2. running' = Factory
  BY <1>1, BeforeActive DEF LoaderBoot, EnterSlot
<1>3. boot' = boot
  BY DEF LoaderBoot, OnTrial, Before
<1>4. UNCHANGED <<wal, slot, linked, op, used>> /\ op = Idle
  BY DEF LoaderBoot, Control, TypeInv
<1> QED
  BY <1>2, <1>3, <1>4 DEF Before, Holds

(* Nothing but the session and the operation changes. *)
LEMMA BeforeQuiet ==
  ASSUME Before, UNCHANGED <<wal, boot, slot, linked>>,
         mode' = "up" => running' = Factory,
         \/ op' = Idle
         \/ (op' = op /\ used'.stages = used.stages)
         \/ (op'.kind = "stable" /\ op'.step \in {"reconcile", "arm", "clean"})
         \/ (op'.kind = "stage" /\ op'.step \in {"check", "reject"} /\ used'.stages = 1)
  PROVE  Before'
BY DEF Before, Holds

LEMMA BeforeSession ==
  ASSUME TypeInv, Control, Before, OneUpdate',
         \/ PowerOff \/ DaemonFails \/ BootSuccess
         \/ \E v \in Releases : BeginStage(v)
  PROVE  Before'
<1>1. GoodRecord(wal) /\ ~HasPending(wal) /\ (mode = "up" => running = Factory)
  BY DEF TypeInv, Before
<1>2. CASE PowerOff \/ DaemonFails
  BY <1>1, <1>2, BeforeQuiet DEF PowerOff, DaemonFails, durable, session
<1>3. CASE BootSuccess
  <2>1. BootStable
    BY <1>1, <1>3 DEF BootSuccess, BootUnhealthy, BootConfirmed, BootFallback, BootHealthy
  <2>2. op'.kind = "stable" /\ op'.step = "reconcile"
    BY <1>1, <2>1, StartStep DEF BootStable, Kinds, Steps
  <2> QED
    BY <1>1, <2>1, <2>2, BeforeQuiet DEF BootStable, BootSuccessRuns, durable
<1>4. ASSUME NEW v \in Releases, BeginStage(v) PROVE Before'
  <2>1. ~RunningIsCandidate
    BY <1>1 DEF RunningIsCandidate
  <2>2. Start("stage", "check", wal, v)
    BY <1>4, <2>1 DEF BeginStage
  <2>3. op'.kind = "stage" /\ op'.step = "check"
    BY <1>1, <2>2, StartStep DEF Kinds, Steps
  <2>4. used'.stages = 1
    <3>1. used \in [Events -> Nat]
      BY DEF TypeInv, TypeOK
    <3>2. used'.stages = used.stages + 1
      BY <1>4, <3>1, SpendOne DEF BeginStage, Events
    <3> QED
      BY <3>1, <3>2 DEF OneUpdate, Events
  <2> QED
    BY <1>1, <1>4, <2>3, <2>4, BeforeQuiet DEF BeginStage, durable, session
<1> QED
  BY <1>2, <1>3, <1>4

LEMMA BeforeStable ==
  ASSUME TypeInv, FloorInv, Before, op.kind = "stable", used'.stages = used.stages,
         ReconcileCounter \/ ArmBootState \/ CleanNext
  PROVE  Before'
<1>1. op \in Ops /\ GoodRecord(wal) /\ ~HasPending(wal) /\ op.copy = wal
  BY DEF TypeInv, OpOK, Before, FloorInv, AtWal
<1>2. CASE ReconcileCounter
  <2>1. op'.kind = "stable" /\ op'.step = "arm"
    BY <1>1, <1>2, GotoStep DEF ReconcileCounter, Steps
  <2> QED
    BY <1>2, <2>1, BeforeQuiet DEF ReconcileCounter, session, Before
<1>3. CASE ArmBootState
  <2>1. op'.kind = "stable" /\ op'.step = "clean"
    BY <1>1, <1>3, GotoStep DEF ArmBootState, AfterArm, Steps
  <2>2. boot'.target = "active"
    BY <1>1, <1>3, BootStateOfGood DEF ArmBootState, ActiveState
  <2> QED
    BY <1>3, <2>1, <2>2 DEF Before, Holds, ArmBootState, session
<1>4. CASE CleanNext
  <2>1. op' = Idle \/ (op'.kind = "stable" /\ op'.step = "clean")
    <3>1. CASE NextCleaned[op.file] = "end"
      BY <1>1, <1>4, <3>1, GotoFields DEF CleanNext, AfterClean
    <3>2. CASE NextCleaned[op.file] # "end"
      BY <1>1, <1>4, <3>2 DEF CleanNext, Ops
    <3> QED
      BY <3>1, <3>2
  <2>2. slot'["active"] = slot["active"] /\ slot'["prev"] = slot["prev"]
    BY <1>4, SlotTyped DEF CleanNext, Slots
  <2>3. linked' = {}
    BY <1>4 DEF CleanNext, Before
  <2> QED
    BY <1>4, <2>1, <2>2, <2>3 DEF Before, Holds, CleanNext, session
<1> QED
  BY <1>2, <1>3, <1>4

LEMMA BeforeFetch ==
  ASSUME TypeInv, FloorInv, Before, op.kind = "stage", used'.stages = used.stages,
         CheckDowngrade \/ FetchFile \/ FetchError \/ FetchCorrupt \/ RejectFile
  PROVE  Before'
<1>1. op \in Ops /\ op.rel \in Releases /\ used.stages = 1
  BY IdleOK DEF TypeInv, OpOK, Before
<1>2. CASE CheckDowngrade
  <2>1. op' = Idle \/ (op'.kind = "stage" /\ op'.step = "fetch" /\ op'.file = "erofs")
    BY <1>1, <1>2, GotoStep DEF CheckDowngrade, Steps
  <2>2. UNCHANGED <<wal, boot, slot, linked, mode, running>>
    BY <1>2 DEF CheckDowngrade, durable, session
  <2>3. Before
    OBVIOUS
  <2>4. op'.step = "fetch" => \A f \in Earlier[op'.file] : slot'["next"][f] = Artifact(op'.rel, f)
    BY <2>1, IdleOK DEF Earlier
  <2> QED
    BY <1>1, <2>1, <2>2, <2>3, <2>4, IdleOK DEF Before, Holds
<1>3. CASE FetchError \/ RejectFile
  <2>1. slot'["active"] = slot["active"] /\ slot'["prev"] = slot["prev"] /\ linked' = {}
    BY <1>3, NextRemoved DEF FetchError, RejectFile, Before
  <2> QED
    BY <1>3, <2>1 DEF Before, Holds, FetchError, RejectFile, session
<1>4. CASE FetchCorrupt
  <2>1. op.file \in Files
    BY <1>1 DEF Ops
  <2>2. slot'["active"] = slot["active"] /\ slot'["prev"] = slot["prev"] /\ linked' = {}
    BY <1>4, <2>1, NextWritten DEF FetchCorrupt, Before
  <2>3. op'.kind = "stage" /\ op'.step = "reject"
    BY <1>1, <1>4 DEF FetchCorrupt, Ops
  <2> QED
    BY <1>1, <1>4, <2>2, <2>3 DEF Before, Holds, FetchCorrupt, session
<1>5. CASE FetchFile
  <2>1. op.file \in Files /\ op.step = "fetch"
    BY <1>1, <1>5 DEF Ops, FetchFile
  <2>2. Write(op.file, Artifact(op.rel, op.file))
    BY <1>5 DEF FetchFile
  <2>3. slot'["active"] = slot["active"] /\ slot'["prev"] = slot["prev"] /\ linked' = {}
    BY <2>1, <2>2, NextWritten DEF Before
  <2>4. \A f \in Earlier[op.file] \cup {op.file} : slot'["next"][f] = Artifact(op.rel, f)
    <3>1. Holds("next", op.rel, Earlier[op.file])
      BY <1>1, <2>1, IdleOK DEF Before
    <3>2. Earlier[op.file] \subseteq Files
      BY <2>1 DEF Earlier, Files, RootFiles, KernelFiles
    <3> QED
      BY <2>1, <2>2, <3>1, <3>2, NextWritten DEF Holds
  <2>5. UNCHANGED <<wal, boot, session>>
    BY <1>5 DEF FetchFile
  <2>6. CASE NextFile[op.file] # "end"
    <3>1. /\ op'.kind = "stage" /\ op'.step = "fetch" /\ op'.rel = op.rel
          /\ op'.file = NextFile[op.file]
      BY <1>1, <1>5, <2>1, <2>6 DEF FetchFile, Ops
    <3>2. Earlier[op'.file] \subseteq Earlier[op.file] \cup {op.file}
      BY <2>1, <2>6, <3>1 DEF Earlier, NextFile, Files, RootFiles, KernelFiles
    <3>3. \A f \in Earlier[op'.file] : slot'["next"][f] = Artifact(op'.rel, f)
      BY <2>4, <3>1, <3>2
    <3> QED
      BY <1>1, <2>3, <2>5, <3>1, <3>3 DEF Before, Holds, session
  <2>7. CASE NextFile[op.file] = "end"
    <3>1. /\ op'.kind = "stage" /\ op'.step = "save" /\ op'.rel = op.rel
          /\ op'.copy = StagedDeploy(wal, op.rel)
      <4>1. Goto(op, "save") \in Ops
        BY <1>1, GotoOK DEF TypeInv, OpOK, Steps
      <4>2. /\ Goto(op, "save").kind = "stage" /\ Goto(op, "save").step = "save"
            /\ Goto(op, "save").rel = op.rel
        BY <1>1, GotoStep DEF Steps
      <4> QED
        BY <1>5, <2>7, <4>1, <4>2 DEF FetchFile, Ops
    <3>2. \A f \in Files : slot'["next"][f] = Artifact(op.rel, f)
      BY <2>1, <2>4, <2>7 DEF Earlier, NextFile, Files, RootFiles, KernelFiles
    <3>3. Factory <= op.rel
      BY <2>1 DEF FloorInv, NotBelow, Before
    <3> QED
      BY <1>1, <2>3, <2>5, <3>1, <3>2, <3>3 DEF Before, Holds, session
  <2> QED
    BY <2>6, <2>7
<1> QED
  BY <1>2, <1>3, <1>4, <1>5

-----------------------------------------------------------------------------
(* What the transitions of the WAL make of a candidate. *)

LEMMA StagedDue ==
  ASSUME NEW d, GoodRecord(d), d.current = Factory, d.lkg \in {Factory, None},
         d.rollback = None, NEW v \in Releases, Factory <= v
  PROVE  /\ Due(StagedDeploy(d, v))
         /\ StagedDeploy(d, v).pending = v
         /\ StagedDeploy(d, v).attempts = MaxAttempts
<1> DEFINE r == StagedDeploy(d, v)
<1>1. /\ r.pending = v /\ r.pendingHash = RootOf[v] /\ r.attempts = MaxAttempts
      /\ r.current = d.current /\ r.lkg = d.lkg /\ r.rollback = d.rollback
  BY DEF StagedDeploy, Deploy, GoodRecord, Wal
<1>2. RollbackTo(r) = Factory
  BY <1>1 DEF RollbackTo
<1> QED
  BY <1>1, <1>2, Artifacts DEF Due, HasPending

LEMMA ConfirmedDue ==
  ASSUME NEW d, GoodRecord(d), Due(d)
  PROVE  LET r == RecordGoodBoot(d) IN
         IF ReachesThreshold(d) THEN ~HasPending(r) /\ r.current = d.pending
         ELSE Due(r) /\ r.pending = d.pending /\ r.attempts = MaxAttempts
<1> DEFINE r == RecordGoodBoot(d)
           c == CountGoodBoot(d)
           w == SwitchToPending(d)
<1>1. d \in Wal /\ HasPending(d) /\ d.kcPending = d.pending /\ d.pending \in Releases
  BY DEF GoodRecord, Coherent, Wal, HasPending, Due
<1>2. CASE ReachesThreshold(d)
  <2>1. GoodRecord(c)
    BY <1>1, CountGoodBootRecord
  <2>2. r = Promote(c)
    BY <1>2 DEF RecordGoodBoot
  <2> HIDE DEF c
  <2>3. ~HasPending(r)
    BY <2>1, <2>2, PromoteRecord
  <2>4. r.current = d.pending
    BY <1>1, RecordGoodBootRecord
  <2> QED
    BY <1>2, <2>3, <2>4
<1>3. CASE ~ReachesThreshold(d)
  <2>1. /\ w \in Wal
        /\ w.pending = d.pending /\ w.pendingHash = d.pendingHash /\ w.lkg = d.lkg
        /\ w.current = d.pending
        /\ w.rollback = IF d.current = d.pending THEN d.rollback ELSE d.current
    BY <1>1 DEF SwitchToPending, Wal
  <2>2. /\ c.pending = w.pending /\ c.pendingHash = w.pendingHash /\ c.lkg = w.lkg
        /\ c.current = w.current /\ c.rollback = w.rollback /\ c.attempts = MaxAttempts
    <3> HIDE DEF w
    <3>1. c = [w EXCEPT !.stableBoots = @ + 1, !.attempts = MaxAttempts]
      BY DEF CountGoodBoot, w
    <3> QED
      BY <2>1, <3>1 DEF Wal
  <2>3. r = c
    BY <1>3 DEF RecordGoodBoot
  <2>4. RollbackTo(c) = Factory
    <3>1. RollbackTo(d) = Factory /\ d.current \in {Factory, d.pending}
          /\ d.lkg \in {Factory, None} /\ Factory # None
      BY Artifacts, FactoryAssumption DEF Due
    <3> HIDE DEF c, w
    <3> QED
      BY <2>1, <2>2, <3>1 DEF RollbackTo
  <2> HIDE DEF c, w
  <2> QED
    BY <1>1, <1>3, <2>1, <2>2, <2>3, <2>4 DEF Due, HasPending
<1> QED
  BY <1>2, <1>3

LEMMA FailedDue ==
  ASSUME NEW d, GoodRecord(d), Due(d), NEW b \in BootStates
  PROVE  LET r == RecordFailedBoot(d, b) IN
         /\ IF HasPending(r) THEN Due(r) /\ r.pending = d.pending
            ELSE r.current = Factory
         /\ b.target = "next" /\ b.trial /\ b.attempts = d.attempts
              => HasPending(r) /\ r.attempts = d.attempts
<1> DEFINE r == RecordFailedBoot(d, b)
           e == [d EXCEPT !.stableBoots = 0]
           c == ReconcileAttempts(e, b)
<1>1. d \in Wal /\ HasPending(d) /\ d.attempts > 0
  BY DEF GoodRecord, Due
<1>2. /\ e \in Wal /\ e.attempts = d.attempts /\ e.pending = d.pending
      /\ e.pendingHash = d.pendingHash /\ e.current = d.current /\ e.lkg = d.lkg
      /\ e.rollback = d.rollback
  BY <1>1 DEF Wal
<1> HIDE DEF e
<1>3. PICK n \in 0 .. e.attempts : c = [e EXCEPT !.attempts = n]
  BY <1>2, ReconcileRecord
<1>4. /\ c.attempts = n /\ c.pending = d.pending /\ c.pendingHash = d.pendingHash
      /\ c.current = d.current /\ c.lkg = d.lkg /\ c.rollback = d.rollback
  BY <1>2, <1>3 DEF Wal
<1>5. r = IF c.attempts = 0 THEN Rollback(c) ELSE c
  BY DEF RecordFailedBoot, e
<1>6. b.target = "next" /\ b.trial /\ b.attempts = d.attempts => c.attempts = d.attempts
  <2> SUFFICES ASSUME b.target = "next" /\ b.trial /\ b.attempts = d.attempts
               PROVE  c.attempts = d.attempts
    OBVIOUS
  <2>1. b.attempts <= e.attempts
    BY <1>2 DEF Wal
  <2>2. c = [e EXCEPT !.attempts = b.attempts]
    BY <2>1 DEF ReconcileAttempts
  <2> QED
    BY <1>2, <2>2 DEF Wal
<1>7. ~HasPending(r) => r.current = Factory
  BY <1>1, FailedBootRecord DEF Due
<1> HIDE DEF c
<1>8. HasPending(r) => r = c
  <2>1. c \in Wal
    BY <1>2, <1>3 DEF Wal
  <2> QED
    BY <1>5, <2>1, RollbackRecord
<1>9. HasPending(r) => Due(r) /\ r.pending = d.pending
  <2>1. RollbackTo(c) = RollbackTo(d)
    BY <1>4 DEF RollbackTo
  <2> QED
    BY <1>4, <1>8, <2>1 DEF Due, HasPending
<1>10. c.attempts = d.attempts => r = c /\ HasPending(r)
  BY <1>1, <1>4, <1>5 DEF HasPending
<1> QED
  BY <1>6, <1>7, <1>9, <1>10

-----------------------------------------------------------------------------
(* While a candidate is in flight. *)

LEMMA DuringOf ==
  ASSUME NEW u, wal'.pending = u, used'.stages = 1, Due(wal'), Between(u)', Trial(u)',
         Origin(u)', Reserve(u)',
         Exposed' => boot'.target = "next" \/ used'.faults >= MaxAttempts - 1
  PROVE  During'
BY DEF During

(* The save of a staging puts the candidate in flight. *)
LEMMA BeforeSave ==
  ASSUME TypeInv, Control, Before, op.kind = "stage", SaveWal
  PROVE  During'
<1>1. PICK u \in Releases : op.rel = u
  BY DEF TypeInv, OpOK
<1>2. /\ op \in Ops /\ used.stages = 1 /\ op.step = "save"
      /\ op.copy = StagedDeploy(wal, u) /\ Factory <= u /\ Holds("next", u, Files)
      /\ mode = "up" /\ running = Factory /\ boot.target = "active"
  BY <1>1, IdleOK DEF TypeInv, OpOK, Before, SaveWal, Control
<1>3. Due(op.copy) /\ op.copy.pending = u /\ op.copy.attempts = MaxAttempts
  BY <1>2, StagedDue DEF TypeInv, Before
<1>4. wal' = op.copy /\ UNCHANGED <<boot, slot, linked, mode, running, checked, used>>
  BY DEF SaveWal, session
<1>5. /\ op'.kind = "stage" /\ op'.step = "arm" /\ op'.copy = op.copy
  BY <1>2, GotoStep DEF SaveWal, AfterSave, Steps
<1>6. /\ Holds("active", Factory, Files) /\ linked = {}
      /\ \A f \in Files : slot["prev"][f] = None
  BY DEF Before
<1>7. slot["active"]["efi"] = Factory /\ slot["active"]["sig"] = Factory
  BY <1>6 DEF Holds, Files, RootFiles, KernelFiles, Artifact
<1>8. Between(u)
  BY <1>2, <1>6, <1>7 DEF Between, Holds, Files, RootFiles, KernelFiles, Artifact
<1>9. Between(u)'
  BY <1>4, <1>8 DEF Between, Holds
<1>10. Trial(u)'
  BY <1>2, <1>3, <1>4, <1>5 DEF Trial
<1>11. Origin(u)'
  BY <1>2, <1>4, <1>7 DEF Origin, OldActive, Holds, KernelFiles, Artifact, RootFiles
<1>12. Reserve(u)'
  BY <1>2, <1>4 DEF Reserve
<1>13. ~Exposed'
  BY <1>4, <1>7 DEF Exposed
<1> QED
  BY <1>2, <1>3, <1>4, <1>9, <1>10, <1>11, <1>12, <1>13, DuringOf

(* A candidate in flight and the factory image are releases the floor      *)
(* admits.                                                                 *)
LEMMA Candidate ==
  ASSUME TypeInv, FloorInv, Due(wal)
  PROVE  /\ wal.pending \in Releases /\ wal.pending \in Nat /\ Factory \in Releases
         /\ Factory \in Nat /\ hw \in Nat /\ hw <= Factory /\ hw <= wal.pending
<1>1. wal.pending \in Releases
  BY DEF TypeInv, TypeOK, Wal, Due, HasPending
<1>2. Factory \in Nat /\ wal.pending \in Nat /\ Factory \in Releases
  BY <1>1, Artifacts, FactoryAssumption
<1> QED
  BY <1>1, <1>2, Versions DEF Due, None

LEMMA BetweenFiles ==
  ASSUME NEW u, Between(u)
  PROVE  /\ slot["next"]["efi"] = u /\ slot["next"]["sig"] = u
         /\ slot["next"]["erofs"] = RootOf[u] /\ slot["next"]["hash"] = RootOf[u]
         /\ slot["active"]["efi"] \in {Factory, u} /\ slot["active"]["sig"] \in {Factory, u}
         /\ slot["prev"]["efi"] \in {Factory, None} /\ slot["prev"]["sig"] \in {Factory, None}
         /\ slot["active"]["efi"] # Factory =>
               linked = RootFiles /\ slot["prev"]["efi"] = Factory /\ u \in Good
         /\ slot["active"]["sig"] # Factory => slot["active"]["efi"] = u
BY DEF Between, Holds, Files, KernelFiles, RootFiles, Artifact

(* The old root is whole, in -active or moved to -prev. *)
LEMMA BetweenRoots ==
  ASSUME NEW u, Between(u)
  PROVE  OldRoots
BY DEF Between, OldRoots, RootFiles, Files

LEMMA NextStarts ==
  ASSUME TypeInv, FloorInv, Due(wal), Between(wal.pending)
  PROVE  Chainable("next") /\ Starts("next") /\ slot["next"]["efi"] = wal.pending
<1>1. wal.pending \in Releases /\ hw <= wal.pending /\ wal.pending \in Nat /\ hw \in Nat
  BY Candidate
<1> QED
  BY <1>1, BetweenFiles DEF Chainable, Starts, HasRoot, Slots

(* Where the stable slots lead, by what a promotion has left in -active. *)
LEMMA StableBoot ==
  ASSUME TypeInv, FloorInv, Due(wal), Between(wal.pending)
  PROVE  /\ ~Exposed => StableSlot = "active" /\ Starts("active")
         /\ OldActive => ~Exposed /\ slot["active"]["efi"] = Factory
         /\ ~Exposed /\ ~OldActive => Holds("active", wal.pending, KernelFiles)
         /\ Exposed => /\ slot["active"]["efi"] = wal.pending /\ wal.pending # Factory
                       /\ IF OldPrev THEN StableSlot = "prev" /\ slot["prev"]["efi"] = Factory
                          ELSE StableSlot = "recovery"
<1> DEFINE u == wal.pending
<1>1. /\ u \in Releases /\ hw <= u /\ hw \in Nat /\ u \in Nat
      /\ Factory \in Releases /\ hw <= Factory /\ Factory \in Nat
  BY Candidate
<1>2. /\ slot["active"]["efi"] \in {Factory, u} /\ slot["active"]["sig"] \in {Factory, u}
      /\ slot["prev"]["efi"] \in {Factory, None} /\ slot["prev"]["sig"] \in {Factory, None}
      /\ slot["active"]["efi"] # Factory => linked = RootFiles /\ slot["prev"]["efi"] = Factory
      /\ slot["active"]["sig"] # Factory => slot["active"]["efi"] = u
  BY BetweenFiles
<1>3. \A s \in {"active", "prev"} :
        /\ Holds(s, Factory, KernelFiles) <=> slot[s]["efi"] = Factory /\ slot[s]["sig"] = Factory
        /\ Holds(s, u, KernelFiles) <=> slot[s]["efi"] = u /\ slot[s]["sig"] = u
  BY DEF Holds, KernelFiles, RootFiles, Artifact
<1>4. Exposed => slot["active"]["efi"] = u /\ slot["active"]["sig"] = Factory /\ u # Factory
  BY <1>2 DEF Exposed
<1>5. ~Exposed => Chainable("active")
  BY <1>1, <1>2 DEF Exposed, Chainable
<1>6. Exposed => ~Chainable("active")
  BY DEF Exposed, Chainable
<1>7. None \notin Releases /\ Factory # None
  BY Artifacts, <1>1
<1>8. Exposed => (Chainable("prev") <=> OldPrev)
  BY <1>1, <1>2, <1>3, <1>4, <1>7 DEF Chainable, OldPrev
<1>9. ~Exposed => HasRoot(slot["active"]["efi"])
  <2>1. CASE slot["active"]["efi"] = Factory
    BY <2>1, BetweenRoots DEF OldRoots, HasRoot, RootFiles, Artifact, Slots
  <2>2. CASE slot["active"]["efi"] = u
    BY <2>2, NextStarts DEF Starts, HasRoot
  <2> QED
    BY <1>2, <2>1, <2>2
<1> QED
  BY <1>2, <1>3, <1>4, <1>5, <1>6, <1>8, <1>9
     DEF StableSlot, FirstOf, Starts, Exposed, OldActive, OldPrev

(* A good candidate still has a trial boot left while faults are few. *)
LEMMA Budgeted ==
  ASSUME TypeInv, BudgetInv, NEW u \in Good \ {Factory}, Reserve(u),
         used.faults < MaxAttempts - 1, boot.target = "next"
  PROVE  OnTrial /\ mode \in {"off", "up"}
<1>1. boot.attempts \in Nat /\ used.faults \in Nat /\ MaxAttempts \in Nat \ {0}
  BY BudgetAssumption DEF TypeInv, TypeOK, BootStates, Events
<1>2. mode = "off" => boot.attempts + used.faults >= MaxAttempts
  BY DEF Reserve, Left
<1>3. mode = "up" /\ running = u => boot.attempts + used.faults >= MaxAttempts - 1
  BY DEF Reserve, Left
<1>4. mode = "up" /\ running # u => boot.attempts = MaxAttempts
  BY DEF Reserve
<1>5. mode \in {"off", "up"}
  BY DEF Reserve
<1>6. boot.attempts > 0
  BY <1>1, <1>2, <1>3, <1>4, <1>5
<1> QED
  BY <1>5, <1>6 DEF OnTrial, BudgetInv, BootShape

LEMMA DuringLoader ==
  ASSUME Known, Control, During, LoaderBoot
  PROVE  During'
<1>1. PICK u : u = wal.pending
  OBVIOUS
<1>2. /\ TypeInv /\ BudgetInv /\ FloorInv /\ Due(wal) /\ Between(u) /\ Reserve(u)
      /\ used.stages = 1 /\ mode = "off" /\ op = Idle /\ ~checked
      /\ Exposed => boot.target = "next" \/ used.faults >= MaxAttempts - 1
  BY <1>1 DEF Known, Control, During, LoaderBoot, TypeInv
<1>3. /\ UNCHANGED <<wal, slot, linked, op, used, checked>> /\ EnterSlot(LoaderSlot)
      /\ boot' = IF OnTrial THEN [boot EXCEPT !.attempts = @ - 1] ELSE boot
  BY DEF LoaderBoot
<1>4. /\ boot \in BootStates /\ boot.attempts \in Nat /\ used.faults \in Nat
      /\ MaxAttempts \in Nat \ {0}
  BY <1>2, BudgetAssumption DEF TypeInv, TypeOK, BootStates, Events
<1>5. boot'.target = boot.target
  BY <1>3, <1>4 DEF BootStates
<1>6. Between(u)' /\ Trial(u)' /\ (Exposed' <=> Exposed)
  BY <1>2, <1>3 DEF Between, Holds, Trial, Exposed
<1>7. u \in Releases /\ u # None
  BY <1>1, <1>2, Candidate, Artifacts
<1>8. CASE OnTrial
  <2>1. LoaderSlot = "next"
    BY <1>1, <1>2, <1>8, NextStarts DEF LoaderSlot, OnTrial, FirstOf
  <2>2. running' = u /\ mode' = "up"
    BY <1>1, <1>2, <1>3, <2>1, NextStarts DEF EnterSlot
  <2>3. boot'.target = "next" /\ boot'.attempts = boot.attempts - 1
    BY <1>3, <1>4, <1>8 DEF OnTrial, BootStates
  <2>4. Origin(u)'
    BY <2>2, <2>3 DEF Origin
  <2>5. Reserve(u)'
    <3>1. used.faults < MaxAttempts - 1 /\ u \in Good \ {Factory} => Left >= MaxAttempts
      BY <1>2, <1>8 DEF Reserve, OnTrial
    <3>2. used.faults < MaxAttempts - 1 /\ u \in Good \ {Factory} => Left' >= MaxAttempts - 1
      BY <1>3, <1>4, <2>3, <3>1 DEF Left
    <3> QED
      BY <1>2, <1>3, <2>2, <3>2, IdleOK DEF Reserve
  <2> QED
    BY <1>1, <1>2, <1>3, <1>5, <1>6, <2>4, <2>5, DuringOf
<1>9. CASE ~OnTrial
  <2>1. LoaderSlot = StableSlot
    BY <1>2, <1>9 DEF LoaderSlot, BudgetInv, BootShape
  <2>2. ~(used.faults < MaxAttempts - 1 /\ u \in Good \ {Factory} /\ boot.target = "next")
    BY <1>2, <1>9, Budgeted
  <2>3. Reserve(u)'
    BY <1>3, <1>5, <2>2 DEF Reserve
  <2>4. Origin(u)'
    <3>1. CASE ~Exposed /\ OldActive
      BY <1>1, <1>2, <1>3, <2>1, <3>1, StableBoot DEF EnterSlot, Origin, OldActive, Holds
    <3>2. CASE ~Exposed /\ ~OldActive
      <4>1. Holds("active", u, KernelFiles) /\ slot["active"]["efi"] = u
        BY <1>1, <1>2, <3>2, StableBoot DEF Holds, KernelFiles, RootFiles, Artifact
      <4> QED
        BY <1>1, <1>2, <1>3, <2>1, <3>2, <4>1, StableBoot DEF EnterSlot, Origin, Holds
    <3>3. CASE Exposed /\ OldPrev
      <4>1. u # Factory /\ running' = Factory
        BY <1>1, <1>2, <1>3, <2>1, <3>3, StableBoot DEF EnterSlot
      <4>2. u \in Good
        BY <1>1, <1>2, <3>3, BetweenFiles, StableBoot
      <4>3. used.faults >= MaxAttempts - 1
        BY <1>2, <1>4, <2>2, <4>1, <4>2, <3>3
      <4> QED
        BY <1>3, <3>3, <4>1, <4>3 DEF Origin, Spent, Exposed, OldPrev, Holds
    <3>4. CASE Exposed /\ ~OldPrev
      BY <1>1, <1>2, <1>3, <2>1, <3>4, StableBoot DEF EnterSlot, Origin
    <3> QED
      BY <3>1, <3>2, <3>3, <3>4
  <2> QED
    BY <1>1, <1>2, <1>3, <1>5, <1>6, <2>3, <2>4, DuringOf
<1> QED
  BY <1>8, <1>9

(* A step that writes nothing keeps what the disk holds; what is left to   *)
(* show is the operation, the session and the reserve of trial boots.      *)
LEMMA DuringKept ==
  ASSUME During, UNCHANGED <<wal, boot, slot, linked>>, used'.stages = used.stages,
         used.faults \in Nat, used'.faults \in Nat, used.faults <= used'.faults,
         NEW u, u = wal.pending, Trial(u)', Reserve(u)',
         mode' = "up" => mode = "up" /\ running' = running
  PROVE  During'
<1>1. Due(wal) /\ Between(u) /\ Origin(u) /\ used.stages = 1 /\ MaxAttempts \in Nat
  BY BudgetAssumption DEF During
<1>2. Between(u)' /\ (Exposed' <=> Exposed)
  BY <1>1 DEF Between, Holds, Exposed
<1>3. Spent => Spent'
  BY <1>1 DEF Spent, Exposed, OldPrev, Holds
<1>4. Origin(u)'
  BY <1>1, <1>3 DEF Origin, OldActive, Holds
<1>5. Exposed' => boot'.target = "next" \/ used'.faults >= MaxAttempts - 1
  BY <1>1, <1>2 DEF During
<1> QED
  BY <1>1, <1>2, <1>4, <1>5, DuringOf

(* Power that fails in a trial boot before the check costs a fault, and so *)
(* does a daemon that dies in an operation.                                *)
LEMMA DuringFault ==
  ASSUME Known, Control, During, PowerOff \/ DaemonFails
  PROVE  During'
<1>1. PICK u : u = wal.pending
  OBVIOUS
<1>2. TypeInv /\ Trial(u) /\ Reserve(u) /\ (op.step = "idle" => op = Idle)
  BY <1>1 DEF Known, During, Control
<1>3. /\ used \in [Events -> Nat] /\ boot.attempts \in Nat /\ MaxAttempts \in Nat
      /\ used.faults \in Nat
  BY <1>2, BudgetAssumption DEF TypeInv, TypeOK, BootStates, Events
<1>4. op' = Idle /\ UNCHANGED <<wal, boot, slot, linked>> /\ Trial(u)'
  BY DEF PowerOff, DaemonFails, durable, Trial
<1>5. /\ used'.stages = used.stages /\ used'.faults \in Nat /\ used.faults <= used'.faults
      /\ DaemonFails => used'.faults = used.faults + 1
      /\ PowerOff /\ IsFault => used'.faults = used.faults + 1
  BY <1>3, SpendOne DEF PowerOff, DaemonFails, Events
<1>6. CASE PowerOff
  <2>1. mode' = "off" /\ mode # "off"
    BY <1>6 DEF PowerOff
  <2>2. SUFFICES ASSUME used'.faults < MaxAttempts - 1, u \in Good \ {Factory},
                        boot.target = "next"
                 PROVE  Left' >= MaxAttempts
    BY <1>1, <1>2, <1>3, <1>4, <1>5, <2>1, DuringKept DEF Reserve
  <2>3. used.faults < MaxAttempts - 1 /\ mode = "up"
    BY <1>2, <1>3, <1>5, <2>1, <2>2 DEF Reserve
  <2>4. CASE running = u
    <3>1. boot.attempts + used.faults >= MaxAttempts - 1
      BY <1>2, <2>2, <2>3, <2>4 DEF Reserve, Left
    <3>2. ~IsFault => boot.attempts + used.faults >= MaxAttempts
      BY <1>2, <2>2, <2>3, <2>4 DEF Reserve, Left, IsFault
    <3> QED
      BY <1>3, <1>4, <1>5, <1>6, <3>1, <3>2 DEF Left
  <2>5. CASE running # u
    BY <1>2, <1>3, <1>4, <1>5, <2>2, <2>3, <2>5 DEF Reserve, Left
  <2> QED
    BY <2>4, <2>5
<1>7. CASE DaemonFails
  <2>1. mode' = mode /\ running' = running /\ mode = "up"
    BY <1>7 DEF DaemonFails, session, Control
  <2>2. Reserve(u)'
    <3>1. SUFFICES ASSUME used'.faults < MaxAttempts - 1, u \in Good \ {Factory},
                          boot.target = "next"
                   PROVE  /\ running = u => Left' >= MaxAttempts
                          /\ running # u => boot.attempts = MaxAttempts /\ wal.attempts = MaxAttempts
      BY <1>3, <1>4, <1>5, <1>7, <2>1, IdleOK DEF Reserve, Left
    <3>2. used.faults < MaxAttempts - 1
      BY <1>3, <1>5, <3>1
    <3> QED
      BY <1>2, <1>3, <1>4, <1>5, <1>7, <2>1, <3>1, <3>2 DEF Reserve, Left
  <2> QED
    BY <1>1, <1>3, <1>4, <1>5, <2>1, <2>2, DuringKept
<1> QED
  BY <1>6, <1>7

LEMMA DuringBoot ==
  ASSUME Known, Control, During, BootSuccess, [Next]_vars, used'.stages = used.stages
  PROVE  During'
<1>1. PICK u : u = wal.pending
  OBVIOUS
<1>2. /\ TypeInv /\ FloorInv /\ Trial(u) /\ Reserve(u) /\ Due(wal) /\ Between(u)
      /\ GoodRecord(wal) /\ HasPending(wal) /\ u \in Releases
  BY <1>1, Candidate DEF Known, During, Due, TypeInv
<1>3. /\ used.faults \in Nat /\ used'.faults \in Nat /\ used.faults <= used'.faults
      /\ MaxAttempts \in Nat /\ boot.attempts \in Nat /\ boot \in BootStates
  BY <1>2, UsedGrows, BudgetAssumption DEF Events, TypeInv, TypeOK, BootStates
<1>4. /\ UNCHANGED <<wal, boot, slot, linked, mode, running>>
      /\ mode = "up" /\ op.step = "idle" /\ op = Idle
  BY DEF BootSuccess, BootStable, BootUnhealthy, BootConfirmed, BootFallback, BootHealthy,
         BootSuccessRuns, durable, Control
<1>5. CASE BootUnhealthy
  <2>1. op' = Idle /\ Trial(u)'
    BY <1>4, <1>5 DEF BootUnhealthy, Trial
  <2>2. running \in Good => used'.faults = used.faults + 1
    BY <1>2, <1>5, SpendOne DEF BootUnhealthy, TypeInv, TypeOK, Events
  <2>3. Reserve(u)'
    <3>1. SUFFICES ASSUME used'.faults < MaxAttempts - 1, u \in Good \ {Factory},
                          boot.target = "next"
                   PROVE  /\ running = u => Left' >= MaxAttempts
                          /\ running # u => boot.attempts = MaxAttempts /\ wal.attempts = MaxAttempts
      BY <1>3, <1>4, <2>1, IdleOK DEF Reserve, Left
    <3>2. used.faults < MaxAttempts - 1
      BY <1>3, <3>1
    <3> QED
      BY <1>2, <1>3, <1>4, <2>2, <3>1, <3>2 DEF Reserve, Left
  <2> QED
    BY <1>1, <1>3, <1>4, <2>1, <2>3, DuringKept
<1>6. CASE BootConfirmed
  <2> DEFINE d == RecordGoodBoot(wal)
  <2>1. /\ GoodRecord(d)
        /\ IF ReachesThreshold(wal) THEN ~HasPending(d) /\ d.current = u
           ELSE Due(d) /\ d.pending = u /\ d.attempts = MaxAttempts
    BY <1>1, <1>2, RecordGoodBootRecord, ConfirmedDue
  <2>2. running = u /\ u \in Good
    BY <1>1, <1>6 DEF BootConfirmed, BootHealthy, IdentityConfirmed
  <2>3. Preflight
    <3>1. \A f \in Files : Artifact(u, f) # None /\ Artifact(Factory, f) # None
      BY <1>2, Artifacts, FactoryAssumption
    <3>2. \A f \in Files : slot["active"][f] \in {Artifact(u, f), Artifact(Factory, f)}
      BY <1>2 DEF Between, Files, KernelFiles, RootFiles, Artifact
    <3> QED
      BY <1>2, <3>1, <3>2 DEF Preflight, Between, Holds
  <2> HIDE DEF d
  <2>4. \/ ~ReachesThreshold(wal) /\ Start("confirm", "arm", d, None)
        \/ ReachesThreshold(wal) /\ Start("promote", "keep", d, None)
    BY <1>6, <2>3 DEF BootConfirmed, d
  <2>5. \/ /\ op'.kind = "confirm" /\ op'.step = "arm" /\ op'.copy = d
           /\ Due(d) /\ d.pending = u /\ d.attempts = MaxAttempts
        \/ /\ op'.kind = "promote" /\ op'.step = "keep" /\ op'.copy = d /\ op'.file = "erofs"
           /\ ~HasPending(d) /\ d.current = u
    BY <2>1, <2>4, StartStep DEF Kinds, Steps
  <2>6. Trial(u)'
    BY <1>4, <2>2, <2>5 DEF Trial, Earlier
  <2>7. Reserve(u)'
    <3>1. SUFFICES ASSUME used'.faults < MaxAttempts - 1, u \in Good \ {Factory},
                          boot.target = "next"
                   PROVE  Left' >= MaxAttempts - 1
      BY <1>4, <2>2, <2>5 DEF Reserve
    <3> QED
      BY <1>2, <1>3, <1>4, <2>2, <3>1 DEF Reserve, Left
  <2> QED
    BY <1>1, <1>3, <1>4, <2>6, <2>7, DuringKept
<1>7. CASE BootFallback
  <2> DEFINE d == RecordFailedBoot(wal, boot)
  <2>1. /\ GoodRecord(d)
        /\ IF HasPending(d) THEN Due(d) /\ d.pending = u ELSE d.current = Factory
        /\ boot.target = "next" /\ boot.trial /\ boot.attempts = wal.attempts
             => HasPending(d) /\ d.attempts = wal.attempts
    BY <1>1, <1>2, <1>3, FailedBootRecord, FailedDue
  <2>2. running # u
    BY <1>1, <1>2, <1>7 DEF BootFallback, IdentityConfirmed, Due
  <2> HIDE DEF d
  <2>3. Start("fallback", "arm", d, None)
    BY <1>7 DEF BootFallback, d
  <2>4. op'.kind = "fallback" /\ op'.step = "arm" /\ op'.copy = d
    BY <2>1, <2>3, StartStep DEF Kinds, Steps
  <2>5. Trial(u)'
    BY <1>4, <2>1, <2>2, <2>4 DEF Trial
  <2>6. Reserve(u)'
    <3>1. SUFFICES ASSUME used'.faults < MaxAttempts - 1, u \in Good \ {Factory},
                          boot.target = "next"
                   PROVE  /\ boot.attempts = MaxAttempts /\ wal.attempts = MaxAttempts
                          /\ HasPending(d) /\ d.attempts = MaxAttempts
      BY <1>4, <2>2, <2>4 DEF Reserve
    <3>2. used.faults < MaxAttempts - 1
      BY <1>3, <3>1
    <3>3. boot.attempts = MaxAttempts /\ wal.attempts = MaxAttempts
      BY <1>2, <1>4, <2>2, <3>1, <3>2 DEF Reserve
    <3>4. boot.trial
      BY <3>1 DEF Known, BudgetInv, BootShape
    <3> QED
      BY <2>1, <3>1, <3>3, <3>4
  <2> QED
    BY <1>1, <1>3, <1>4, <2>5, <2>6, DuringKept
<1> QED
  BY <1>2, <1>5, <1>6, <1>7 DEF BootSuccess, BootStable

-----------------------------------------------------------------------------
(* A promotion, file by file. *)

LEMMA Promoting ==
  ASSUME TypeInv, NEW u, Trial(u), op.step \in {"keep", "install"}
  PROVE  /\ op \in Ops /\ op.kind = "promote" /\ running = u /\ u \in Good
         /\ ~HasPending(op.copy) /\ op.copy.current = u
         /\ \A f \in Earlier[op.file] : InPlace(f)
         /\ op.step = "install" => /\ ~InPlace(op.file)
                                   /\ slot["prev"][op.file] = slot["active"][op.file]
BY IdleOK DEF Trial, TypeInv, OpOK

(* When a file is in place the loop goes on to the next, or ends. *)
LEMMA PromotesOn ==
  ASSUME op \in Ops, op.kind = "promote", NextToPromote(op.file), NEW u,
         running' = u, u \in Good, ~HasPending(op.copy), op.copy.current = u,
         \A f \in Earlier[op.file] \cup {op.file} : InPlace(f)'
  PROVE  /\ op'.kind = "promote"
         /\ op'.step \in {"keep", "arm"}
         /\ Trial(u)'
<1>1. op.file \in Files
  BY DEF Ops
<1>2. CASE NextFile[op.file] = "end"
  <2>1. op'.kind = "promote" /\ op'.step = "arm" /\ op'.copy = op.copy
    BY <1>2, GotoStep DEF NextToPromote, Steps
  <2>2. \A f \in Files : InPlace(f)'
    BY <1>1, <1>2 DEF NextFile, Earlier, Files, RootFiles, KernelFiles
  <2> QED
    BY <2>1, <2>2 DEF Trial
<1>3. CASE NextFile[op.file] # "end"
  <2>1. /\ op'.kind = "promote" /\ op'.step = "keep" /\ op'.copy = op.copy
        /\ op'.file = NextFile[op.file]
    BY <1>3 DEF NextToPromote, Ops
  <2>2. Earlier[op'.file] \subseteq Earlier[op.file] \cup {op.file}
    BY <1>1, <1>3, <2>1 DEF NextFile, Earlier, Files, RootFiles, KernelFiles
  <2>3. \A f \in Earlier[op'.file] : InPlace(f)'
    BY <2>2
  <2> QED
    BY <2>1, <2>3 DEF Trial
<1> QED
  BY <1>2, <1>3

LEMMA DuringSkip ==
  ASSUME Known, During, SkipFile, [Next]_vars, used'.stages = used.stages
  PROVE  During'
<1>1. PICK u : u = wal.pending
  OBVIOUS
<1>2. TypeInv /\ Trial(u) /\ Reserve(u) /\ mode' = mode /\ running' = running
  BY <1>1 DEF Known, During, SkipFile, session
<1>3. used' = used /\ used.faults \in Nat /\ UNCHANGED <<wal, boot, slot, linked>>
  BY <1>2 DEF SkipFile, durable, TypeInv, TypeOK, Events
<1>4. op.step = "keep" /\ InPlace(op.file) /\ NextToPromote(op.file)
  BY DEF SkipFile
<1>5. /\ op \in Ops /\ op.kind = "promote" /\ running = u /\ u \in Good
      /\ ~HasPending(op.copy) /\ op.copy.current = u
      /\ \A f \in Earlier[op.file] : InPlace(f)
  BY <1>2, <1>4, Promoting
<1>6. \A f \in Earlier[op.file] \cup {op.file} : InPlace(f)'
  BY <1>3, <1>4, <1>5 DEF InPlace
<1>7. op'.kind = "promote" /\ op'.step \in {"keep", "arm"} /\ Trial(u)'
  BY <1>2, <1>4, <1>5, <1>6, PromotesOn
<1>8. Reserve(u)'
  BY <1>2, <1>3, <1>5, <1>7 DEF Reserve, Left
<1> QED
  BY <1>1, <1>2, <1>3, <1>7, <1>8, DuringKept

LEMMA DuringKeep ==
  ASSUME Known, During, KeepPrevious, used'.stages = used.stages
  PROVE  During'
<1>1. PICK u : u = wal.pending
  OBVIOUS
<1>2. /\ TypeInv /\ Trial(u) /\ Reserve(u) /\ Due(wal) /\ Between(u) /\ Origin(u)
      /\ used.stages = 1
      /\ Exposed => boot.target = "next" \/ used.faults >= MaxAttempts - 1
  BY <1>1 DEF Known, During
<1>3. /\ op.step = "keep" /\ ~InPlace(op.file)
      /\ UNCHANGED <<wal, boot, linked, mode, running, checked, used>>
  BY DEF KeepPrevious, session
<1>4. /\ op \in Ops /\ op.kind = "promote" /\ running = u /\ u \in Good
      /\ ~HasPending(op.copy) /\ op.copy.current = u
      /\ \A f \in Earlier[op.file] : InPlace(f)
  BY <1>2, <1>3, Promoting
<1>5. PICK f \in Files : f = op.file
  BY <1>4 DEF Ops
<1>6. /\ op'.kind = "promote" /\ op'.step = "install" /\ op'.file = f
      /\ op'.copy = op.copy
  BY <1>4, <1>5 DEF KeepPrevious, Ops
<1>7. \A t \in Slots : \A g \in Files :
        slot'[t][g] = IF t = "prev" /\ g = f THEN slot["active"][f] ELSE slot[t][g]
  <2>1. slot' = [slot EXCEPT !["prev"][f] = slot["active"][f]]
    BY <1>5 DEF KeepPrevious
  <2> QED
    BY <1>2, <2>1, SlotTyped DEF Slots
<1>8. \A g \in Files : slot'["active"][g] = slot["active"][g] /\ slot'["next"][g] = slot["next"][g]
  BY <1>7 DEF Slots
<1>9. slot'["prev"][f] = slot["active"][f] /\ \A g \in Files \ {f} : slot'["prev"][g] = slot["prev"][g]
  BY <1>7 DEF Slots
<1>10. \A g \in Files : InPlace(g)' <=> InPlace(g)
  BY <1>3, <1>8 DEF InPlace
<1>11. Trial(u)'
  <2>1. Earlier[f] \subseteq Files
    BY DEF Earlier, Files, RootFiles, KernelFiles
  <2>2. \A g \in Earlier[f] : InPlace(g)'
    BY <1>4, <1>5, <1>10, <2>1
  <2> QED
    BY <1>3, <1>4, <1>5, <1>6, <1>8, <1>9, <1>10, <2>2 DEF Trial
<1>12. Between(u)'
  <2>1. f \in RootFiles => f \notin linked
    BY <1>3, <1>5 DEF InPlace
  <2>2. f \in KernelFiles => slot["active"][f] = Factory
    <3>1. f \in KernelFiles => slot["next"][f] = u /\ slot["active"][f] # slot["next"][f]
      BY <1>2, <1>3, <1>5, BetweenFiles DEF InPlace, KernelFiles, RootFiles
    <3> QED
      BY <1>2, <3>1, BetweenFiles DEF KernelFiles
  <2>3. Holds("next", u, Files)'
    BY <1>2, <1>8 DEF Between, Holds
  <2>4. \A g \in RootFiles :
          IF g \in linked
          THEN slot'["active"][g] = Artifact(u, g) /\ slot'["prev"][g] = Artifact(Factory, g)
          ELSE slot'["active"][g] = Artifact(Factory, g)
    BY <1>2, <1>8, <1>9, <2>1 DEF Between, Files
  <2>5. \A g \in KernelFiles : /\ slot'["active"][g] \in {Factory, u}
                                /\ slot'["prev"][g] \in {Factory, None}
    BY <1>2, <1>8, <1>9, <2>2 DEF Between, Files
  <2>6. slot'["active"]["efi"] # Factory => /\ linked = RootFiles
                                            /\ slot'["prev"]["efi"] = Factory
                                            /\ u \in Good
    BY <1>2, <1>8, <1>9, <2>2, BetweenFiles DEF Files, KernelFiles
  <2>7. slot'["active"]["sig"] # Factory => slot'["active"]["efi"] = u
    BY <1>2, <1>8, BetweenFiles DEF Files, KernelFiles
  <2> QED
    BY <1>3, <2>3, <2>4, <2>5, <2>6, <2>7 DEF Between
<1>13. Origin(u)'
  BY <1>2, <1>3, <1>4, <1>8 DEF Origin, Holds, Files
<1>14. Exposed' <=> Exposed
  BY <1>8 DEF Exposed, Files, KernelFiles
<1>15. Reserve(u)'
  BY <1>2, <1>3, <1>4, <1>6 DEF Reserve, Left
<1> QED
  BY <1>1, <1>2, <1>3, <1>11, <1>12, <1>13, <1>14, <1>15, DuringOf

LEMMA DuringInstall ==
  ASSUME Known, Control, During, InstallActive, used'.stages = used.stages
  PROVE  During'
<1>1. PICK u : u = wal.pending
  OBVIOUS
<1>2. /\ TypeInv /\ Trial(u) /\ Reserve(u) /\ Due(wal) /\ Between(u) /\ Origin(u)
      /\ used.stages = 1 /\ linked \subseteq RootFiles
      /\ Exposed => boot.target = "next" \/ used.faults >= MaxAttempts - 1
  BY <1>1 DEF Known, During, TypeInv, TypeOK
<1>3. /\ op.step = "install" /\ NextToPromote(op.file)
      /\ UNCHANGED <<wal, boot, mode, running, checked, used>>
      /\ linked' = linked \cup ({op.file} \cap RootFiles)
  BY DEF InstallActive, session
<1>4. /\ op \in Ops /\ op.kind = "promote" /\ running = u /\ u \in Good
      /\ ~HasPending(op.copy) /\ op.copy.current = u
      /\ \A f \in Earlier[op.file] : InPlace(f)
      /\ ~InPlace(op.file) /\ slot["prev"][op.file] = slot["active"][op.file]
  BY <1>2, <1>3, Promoting
<1>5. PICK f \in Files : f = op.file
  BY <1>4 DEF Ops
<1>6. \A g \in Files : slot["next"][g] = Artifact(u, g)
  BY <1>2 DEF Between, Holds
<1>7. \A t \in Slots : \A g \in Files :
        slot'[t][g] = IF t = "active" /\ g = f THEN Artifact(u, f) ELSE slot[t][g]
  <2>1. slot' = [slot EXCEPT !["active"][f] = slot["next"][f]]
    BY <1>5 DEF InstallActive
  <2> QED
    BY <1>2, <1>6, <2>1, SlotTyped DEF Slots
<1>8. \A g \in Files : slot'["prev"][g] = slot["prev"][g] /\ slot'["next"][g] = slot["next"][g]
  BY <1>7 DEF Slots
<1>9. /\ slot'["active"][f] = Artifact(u, f)
      /\ \A g \in Files \ {f} : slot'["active"][g] = slot["active"][g]
  BY <1>7 DEF Slots
<1>10. InPlace(f)' /\ \A g \in Files : InPlace(g) => InPlace(g)'
  BY <1>3, <1>5, <1>6, <1>8, <1>9 DEF InPlace
<1>11. op'.kind = "promote" /\ op'.step \in {"keep", "arm"} /\ Trial(u)'
  <2>1. Earlier[f] \subseteq Files
    BY DEF Earlier, Files, RootFiles, KernelFiles
  <2>2. \A g \in Earlier[op.file] \cup {op.file} : InPlace(g)'
    BY <1>4, <1>5, <1>10, <2>1
  <2> QED
    BY <1>3, <1>4, <2>2, PromotesOn
<1>12. f = "efi" => linked = RootFiles /\ slot["active"]["efi"] = Factory /\ u # Factory
  <2> SUFFICES ASSUME f = "efi"
               PROVE  linked = RootFiles /\ slot["active"]["efi"] = Factory /\ u # Factory
    OBVIOUS
  <2>1. \A g \in RootFiles : InPlace(g)
    BY <1>4, <1>5 DEF Earlier
  <2>2. slot["active"]["efi"] # u
    BY <1>4, <1>5, <1>6 DEF InPlace, Files, KernelFiles, RootFiles, Artifact
  <2> QED
    BY <1>2, <2>1, <2>2, BetweenFiles DEF InPlace
<1>13. f = "sig" => slot["active"]["efi"] = u
  <2> SUFFICES ASSUME f = "sig" PROVE slot["active"]["efi"] = u
    OBVIOUS
  <2>1. InPlace("efi")
    BY <1>4, <1>5 DEF Earlier
  <2> QED
    BY <1>6, <2>1 DEF InPlace, Files, KernelFiles, RootFiles, Artifact
<1>14. Between(u)'
  <2>1. Holds("next", u, Files)'
    BY <1>6, <1>8 DEF Holds
  <2>2. \A g \in RootFiles :
          IF g \in linked'
          THEN slot'["active"][g] = Artifact(u, g) /\ slot'["prev"][g] = Artifact(Factory, g)
          ELSE slot'["active"][g] = Artifact(Factory, g)
    <3>1. f \in RootFiles => f \notin linked
      BY <1>4, <1>5 DEF InPlace
    <3>2. f \in RootFiles => slot["prev"][f] = Artifact(Factory, f)
      BY <1>2, <1>4, <1>5, <3>1 DEF Between
    <3> QED
      BY <1>2, <1>3, <1>5, <1>8, <1>9, <3>2 DEF Between, Files
  <2>3. \A g \in KernelFiles : /\ slot'["active"][g] \in {Factory, u}
                                /\ slot'["prev"][g] \in {Factory, None}
    BY <1>2, <1>8, <1>9 DEF Between, Files, KernelFiles, RootFiles, Artifact
  <2>4. slot'["active"]["efi"] # Factory => /\ linked' = RootFiles
                                            /\ slot'["prev"]["efi"] = Factory
                                            /\ u \in Good
    <3>1. f = "efi" => slot["prev"]["efi"] = Factory
      BY <1>4, <1>5, <1>12
    <3>2. linked = RootFiles => linked' = RootFiles
      BY <1>3
    <3> QED
      BY <1>2, <1>4, <1>8, <1>9, <1>12, <3>1, <3>2, BetweenFiles DEF Files, KernelFiles
  <2>5. slot'["active"]["sig"] # Factory => slot'["active"]["efi"] = u
    BY <1>2, <1>9, <1>13, BetweenFiles DEF Files, KernelFiles, RootFiles, Artifact
  <2> QED
    BY <2>1, <2>2, <2>3, <2>4, <2>5 DEF Between
<1>15. Origin(u)'
  <2>1. Holds("active", u, KernelFiles) => Holds("active", u, KernelFiles)'
    BY <1>9 DEF Holds, Files
  <2> QED
    BY <1>2, <1>3, <1>4, <2>1 DEF Origin
<1>16. Exposed' => Exposed \/ (f = "efi" /\ boot.target = "next")
  <2>1. f = "efi" => boot.target = "next" \/ mode # "up"
    BY <1>2, <1>4, <1>12 DEF Origin, Holds, KernelFiles, RootFiles, Artifact
  <2>2. mode = "up"
    BY <1>3 DEF Control
  <2>3. f = "sig" => ~Exposed'
    BY <1>9, <1>13 DEF Exposed, Files, KernelFiles, RootFiles, Artifact
  <2>4. f \in RootFiles => (Exposed' <=> Exposed)
    BY <1>9 DEF Exposed, Files, KernelFiles, RootFiles
  <2> QED
    BY <2>1, <2>2, <2>3, <2>4 DEF Files, KernelFiles
<1>17. Reserve(u)'
  BY <1>2, <1>3, <1>4, <1>11 DEF Reserve, Left
<1> QED
  BY <1>1, <1>2, <1>3, <1>11, <1>14, <1>15, <1>16, <1>17, DuringOf

-----------------------------------------------------------------------------
(* The boot-state and the WAL of a candidate. *)

LEMMA DuringArm ==
  ASSUME Known, Control, During, ArmBootState, used'.stages = used.stages
  PROVE  During'
<1>1. PICK u : u = wal.pending
  OBVIOUS
<1>2. /\ TypeInv /\ Trial(u) /\ Reserve(u) /\ Due(wal) /\ Between(u) /\ Origin(u)
      /\ used.stages = 1 /\ mode = "up"
      /\ Exposed => boot.target = "next" \/ used.faults >= MaxAttempts - 1
  BY <1>1 DEF Known, Control, During, ArmBootState
<1>3. /\ op.step = "arm" /\ boot' = BootStateOf(op.copy) /\ op' = Goto(op, AfterArm(op))
      /\ UNCHANGED <<wal, slot, linked, mode, running, checked, used>>
  BY DEF ArmBootState, session
<1>4. op \in Ops /\ GoodRecord(op.copy)
  BY <1>2 DEF TypeInv, OpOK
<1>5. /\ HasPending(op.copy) => boot'.target = "next" /\ boot'.attempts = op.copy.attempts
      /\ ~HasPending(op.copy) => boot'.target = "active"
  BY <1>3, <1>4, BootStateOfGood DEF ActiveState
<1>6. /\ MaxAttempts \in Nat /\ used.faults \in Nat
  BY <1>2, BudgetAssumption DEF TypeInv, TypeOK, Events
<1>7. Between(u)' /\ (Exposed' <=> Exposed) /\ (OldActive' <=> OldActive) /\ (Spent' <=> Spent)
      /\ (Holds("active", u, KernelFiles)' <=> Holds("active", u, KernelFiles))
  BY <1>2, <1>3 DEF Between, Holds, Exposed, OldActive, Spent, OldPrev
<1>8. op # Idle
  BY <1>3, IdleOK
<1>9. CASE op.kind = "stage"
  <2>1. op.copy = wal /\ wal.attempts = MaxAttempts /\ running = Factory
    BY <1>2, <1>8, <1>9 DEF Trial
  <2>2. op' = Idle
    BY <1>3, <1>4, <1>9, GotoFields DEF AfterArm
  <2>3. boot'.target = "next" /\ boot'.attempts = MaxAttempts
    BY <1>2, <1>5, <2>1 DEF Due
  <2>4. Trial(u)'
    BY <2>2 DEF Trial
  <2>5. Origin(u)'
    BY <1>2, <1>3, <1>7, <2>1 DEF Origin
  <2>6. Reserve(u)'
    BY <1>2, <1>3, <2>1, <2>2, <2>3, IdleOK DEF Reserve
  <2> QED
    BY <1>1, <1>2, <1>3, <1>7, <2>3, <2>4, <2>5, <2>6, DuringOf
<1>10. CASE op.kind = "confirm"
  <2>1. /\ running = u /\ u \in Good /\ Due(op.copy) /\ op.copy.pending = u
        /\ op.copy.attempts = MaxAttempts
    BY <1>2, <1>8, <1>10 DEF Trial
  <2>2. op'.kind = "confirm" /\ op'.step = "save" /\ op'.copy = op.copy
    BY <1>3, <1>4, <1>10, GotoStep DEF AfterArm, Steps
  <2>3. boot'.target = "next" /\ boot'.attempts = MaxAttempts
    BY <1>5, <2>1 DEF Due
  <2>4. Trial(u)'
    BY <1>3, <2>1, <2>2 DEF Trial
  <2>5. Origin(u)'
    BY <1>3, <2>1, <2>3 DEF Origin
  <2>6. Reserve(u)'
    <3>1. Left' >= MaxAttempts
      BY <1>3, <1>6, <2>3 DEF Left
    <3> QED
      BY <1>2, <1>3, <1>6, <2>1, <2>2, <2>3, <3>1 DEF Reserve, Left
  <2> QED
    BY <1>1, <1>2, <1>3, <1>7, <2>3, <2>4, <2>5, <2>6, DuringOf
<1>11. CASE op.kind = "promote"
  <2>1. /\ running = u /\ u \in Good /\ ~HasPending(op.copy) /\ op.copy.current = u
        /\ \A f \in Files : InPlace(f)
    BY <1>2, <1>3, <1>8, <1>11 DEF Trial
  <2>2. op'.kind = "promote" /\ op'.step = "save" /\ op'.copy = op.copy
    BY <1>3, <1>4, <1>11, GotoStep DEF AfterArm, Steps
  <2>3. boot'.target = "active"
    BY <1>5, <2>1
  <2>4. slot["active"]["efi"] = u /\ slot["active"]["sig"] = u
    BY <1>2, <2>1, BetweenFiles DEF InPlace, Files, RootFiles, KernelFiles
  <2>5. Trial(u)'
    BY <1>3, <2>1, <2>2, <2>3 DEF Trial, InPlace
  <2>6. Origin(u)'
    BY <1>3, <1>7, <2>1, <2>4 DEF Origin, Holds, KernelFiles, RootFiles, Artifact
  <2>7. Reserve(u)'
    BY <2>3 DEF Reserve
  <2>8. ~Exposed'
    BY <1>3, <2>4 DEF Exposed
  <2> QED
    BY <1>1, <1>2, <1>3, <1>7, <2>5, <2>6, <2>7, <2>8, DuringOf
<1>12. CASE op.kind = "fallback"
  <2>1. /\ running # u
        /\ IF HasPending(op.copy) THEN Due(op.copy) /\ op.copy.pending = u
           ELSE op.copy.current = Factory
    BY <1>2, <1>8, <1>12 DEF Trial
  <2>2. op'.kind = "fallback" /\ op'.step = "save" /\ op'.copy = op.copy
    BY <1>3, <1>4, <1>12, GotoStep DEF AfterArm, Steps
  <2>3. Trial(u)'
    BY <1>3, <1>5, <2>1, <2>2 DEF Trial
  <2>4. Origin(u)'
    BY <1>2, <1>3, <1>7, <2>1 DEF Origin
  <2>5. Exposed' => boot'.target = "next" \/ used'.faults >= MaxAttempts - 1
    BY <1>2, <1>3, <1>5, <1>7, <2>1 DEF Origin, OldActive, Spent, Holds, Exposed,
       KernelFiles, RootFiles, Artifact
  <2>6. Reserve(u)'
    <3>1. SUFFICES ASSUME used.faults < MaxAttempts - 1, u \in Good \ {Factory},
                          HasPending(op.copy)
                   PROVE  /\ op.copy.attempts = MaxAttempts
                          /\ wal.attempts = MaxAttempts
      BY <1>2, <1>3, <1>5, <2>1, <2>2 DEF Reserve
    <3>2. boot.target = "next"
      BY <1>3, <1>12, <3>1 DEF Known, BudgetInv, FallbackArms
    <3> QED
      BY <1>2, <1>12, <2>1, <3>1, <3>2 DEF Reserve
  <2> QED
    BY <1>1, <1>2, <1>3, <1>7, <2>3, <2>4, <2>5, <2>6, DuringOf
<1> QED
  BY <1>2, <1>8, <1>9, <1>10, <1>11, <1>12 DEF Trial

LEMMA DuringSave ==
  ASSUME Known, Control, During, SaveWal, used'.stages = used.stages
  PROVE  During' \/ After'
<1>1. PICK u : u = wal.pending
  OBVIOUS
<1>2. /\ TypeInv /\ FloorInv /\ Trial(u) /\ Reserve(u) /\ Due(wal) /\ Between(u) /\ Origin(u)
      /\ used.stages = 1 /\ mode = "up"
      /\ Exposed => boot.target = "next" \/ used.faults >= MaxAttempts - 1
  BY <1>1 DEF Known, Control, During, SaveWal
<1>3. /\ op.step = "save" /\ wal' = op.copy /\ op' = Goto(op, AfterSave(op))
      /\ UNCHANGED <<boot, slot, linked, mode, running, checked, used>>
  BY DEF SaveWal, session
<1>4. op \in Ops /\ op # Idle
  BY <1>2, <1>3, IdleOK DEF TypeInv, OpOK
<1>5. /\ MaxAttempts \in Nat /\ used.faults \in Nat
  BY <1>2, BudgetAssumption DEF TypeInv, TypeOK, Events
<1>6. Between(u)' /\ (Exposed' <=> Exposed) /\ Origin(u)'
  BY <1>2, <1>3 DEF Between, Holds, Exposed, Origin, OldActive, OldPrev, Spent
<1>7. CASE op.kind = "confirm"
  <2>1. /\ running = u /\ u \in Good /\ Due(op.copy) /\ op.copy.pending = u
        /\ op.copy.attempts = MaxAttempts
    BY <1>2, <1>4, <1>7 DEF Trial
  <2>2. op' = Idle
    BY <1>3, <1>4, <1>7, GotoFields DEF AfterSave
  <2>3. Trial(u)'
    BY <2>2 DEF Trial
  <2>4. Reserve(u)'
    BY <1>2, <1>3, <1>5, <1>7, <2>1, <2>2, IdleOK DEF Reserve, Left
  <2> QED
    BY <1>2, <1>3, <1>6, <2>1, <2>3, <2>4, DuringOf
<1>8. CASE op.kind = "promote"
  <2>1. /\ running = u /\ ~HasPending(op.copy) /\ op.copy.current = u
        /\ \A f \in Files : InPlace(f)
        /\ boot.target = "active"
    BY <1>2, <1>3, <1>4, <1>8 DEF Trial
  <2>2. op'.kind = "promote" /\ op'.step = "clean"
    BY <1>3, <1>4, <1>8, GotoStep DEF AfterSave, Steps
  <2>3. \A f \in Files : slot["active"][f] = Artifact(u, f)
    BY <1>2, <2>1 DEF InPlace, Between, Holds, Files
  <2> QED
    BY <1>2, <1>3, <2>1, <2>2, <2>3 DEF After, Holds
<1>9. CASE op.kind = "fallback" /\ HasPending(op.copy)
  <2>1. running # u /\ Due(op.copy) /\ op.copy.pending = u
    BY <1>2, <1>4, <1>9 DEF Trial
  <2>2. op' = Idle
    BY <1>3, <1>4, <1>9, GotoFields DEF AfterSave
  <2>3. Trial(u)'
    BY <2>2 DEF Trial
  <2>4. Reserve(u)'
    BY <1>2, <1>3, <1>5, <1>9, <2>1, <2>2, IdleOK DEF Reserve, Left
  <2> QED
    BY <1>2, <1>3, <1>6, <2>1, <2>3, <2>4, DuringOf
<1>10. CASE op.kind = "fallback" /\ ~HasPending(op.copy)
  <2>1. running # u /\ op.copy.current = Factory /\ boot.target = "active"
    BY <1>2, <1>3, <1>4, <1>10 DEF Trial
  <2>2. op'.kind = "fallback" /\ op'.step = "clean"
    BY <1>3, <1>4, <1>10, GotoStep DEF AfterSave, Steps
  <2>3. OldActive \/ Spent
    BY <1>2, <2>1 DEF Origin
  <2>4. OldRoots
    BY <1>2, BetweenRoots
  <2>5. Factory <= slot["active"]["efi"]
    BY <1>1, <1>2, BetweenFiles, Candidate DEF Due
  <2> QED
    BY <1>2, <1>3, <1>10, <2>1, <2>2, <2>3, <2>4, <2>5
       DEF After, Holds, OldActive, OldRoots, OldPrev, Spent, Exposed
<1>11. op.kind # "stage"
  BY <1>2, <1>3, <1>4 DEF Trial
<1> QED
  BY <1>2, <1>4, <1>7, <1>8, <1>9, <1>10, <1>11 DEF Trial

(* What an operation in flight can do to a candidate. *)
LEMMA DuringStep ==
  ASSUME Known, Control, During, DaemonStep, [Next]_vars, used'.stages = used.stages
  PROVE  During' \/ After'
<1>1. op.step \in {"keep", "install", "arm", "save"}
  <2>1. op.step # "idle"
    BY StepsGoOn DEF Known, DaemonStep
  <2> QED
    BY <2>1, IdleOK DEF During, Trial
<1>2. SkipFile \/ KeepPrevious \/ InstallActive \/ ArmBootState \/ SaveWal
  BY <1>1 DEF DaemonStep, ReconcileCounter, CleanNext, AdvanceCounter, CheckDowngrade,
     FetchFile, FetchError, FetchCorrupt, RejectFile
<1> QED
  BY <1>2, DuringSkip, DuringKeep, DuringInstall, DuringArm, DuringSave

-----------------------------------------------------------------------------
(* After the update. *)

(* The active slot keeps what it has. *)
LEMMA AfterKept ==
  ASSUME After, used'.stages = used.stages, used.faults \in Nat, used'.faults \in Nat,
         used.faults <= used'.faults, wal' = wal, boot'.target = "active",
         slot'["active"] = slot["active"], slot'["prev"] = slot["prev"],
         \/ op' = Idle
         \/ op' = op
         \/ (op'.kind = "stable" /\ op'.step \in {"reconcile", "arm", "clean"})
         \/ (op'.kind = "promote" /\ op'.step \in {"clean", "advance"})
         \/ (op'.kind = "fallback" /\ op'.step = "clean")
  PROVE  After'
<1>1. MaxAttempts \in Nat
  BY BudgetAssumption
<1>2. /\ Spent => Spent'
      /\ OldActive => OldActive'
      /\ OldRoots => OldRoots'
      /\ Holds("active", wal.current, Files) => Holds("active", wal.current, Files)'
  BY <1>1 DEF Spent, Exposed, OldPrev, OldActive, OldRoots, Holds
<1> QED
  BY <1>2 DEF After

LEMMA AfterSession ==
  ASSUME Known, Control, After, LoaderBoot \/ PowerOff \/ DaemonFails \/ BootSuccess,
         [Next]_vars, used'.stages = used.stages
  PROVE  After'
<1>1. /\ GoodRecord(wal) /\ ~HasPending(wal) /\ boot.target = "active"
      /\ used.faults \in Nat /\ used'.faults \in Nat /\ used.faults <= used'.faults
  BY UsedGrows DEF Known, TypeInv, After, Events
<1>2. CASE LoaderBoot
  BY <1>1, <1>2, AfterKept DEF LoaderBoot, OnTrial
<1>3. CASE PowerOff \/ DaemonFails
  BY <1>1, <1>3, AfterKept DEF PowerOff, DaemonFails, durable
<1>4. CASE BootSuccess
  <2>1. BootStable
    BY <1>1, <1>4 DEF BootSuccess, BootUnhealthy, BootConfirmed, BootFallback, BootHealthy
  <2>2. op'.kind = "stable" /\ op'.step = "reconcile"
    BY <1>1, <2>1, StartStep DEF BootStable, Kinds, Steps
  <2> QED
    BY <1>1, <2>1, <2>2, AfterKept DEF BootStable, durable
<1> QED
  BY <1>2, <1>3, <1>4

LEMMA AfterStep ==
  ASSUME Known, Control, After, DaemonStep, [Next]_vars, used'.stages = used.stages
  PROVE  After'
<1>1. /\ TypeInv /\ ~HasPending(wal) /\ boot.target = "active" /\ GoodRecord(wal)
      /\ used.faults \in Nat /\ used'.faults \in Nat /\ used.faults <= used'.faults
  BY UsedGrows DEF Known, TypeInv, After, Events
<1>2. op \in Ops /\ op # Idle /\ op.step # "idle"
  BY <1>1, StepsGoOn, IdleOK DEF TypeInv, OpOK
<1>3. \/ op.kind = "stable" /\ op.step \in {"reconcile", "arm", "clean"}
      \/ op.kind = "promote" /\ op.step \in {"clean", "advance"}
      \/ op.kind = "fallback" /\ op.step = "clean"
  BY <1>2 DEF After
<1>4. ReconcileCounter \/ ArmBootState \/ CleanNext \/ AdvanceCounter
  BY <1>3 DEF DaemonStep, SkipFile, KeepPrevious, InstallActive, SaveWal, CheckDowngrade,
     FetchFile, FetchError, FetchCorrupt, RejectFile
<1>5. CASE ReconcileCounter
  <2>1. op'.kind = "stable" /\ op'.step = "arm"
    BY <1>2, <1>3, <1>5, GotoStep DEF ReconcileCounter, Steps
  <2> QED
    BY <1>1, <1>5, <2>1, AfterKept DEF ReconcileCounter
<1>6. CASE ArmBootState
  <2>1. op.kind = "stable" /\ op.copy = wal
    BY <1>3, <1>6 DEF ArmBootState, Known, FloorInv, AtWal
  <2>2. op'.kind = "stable" /\ op'.step = "clean"
    BY <1>2, <1>6, <2>1, GotoStep DEF ArmBootState, AfterArm, Steps
  <2>3. boot'.target = "active"
    BY <1>1, <1>6, <2>1, BootStateOfGood DEF ArmBootState, ActiveState
  <2> QED
    BY <1>1, <1>6, <2>2, <2>3, AfterKept DEF ArmBootState
<1>7. CASE CleanNext
  <2>1. slot'["active"] = slot["active"] /\ slot'["prev"] = slot["prev"]
    BY <1>1, <1>7, SlotTyped DEF CleanNext, Slots
  <2>2. CASE NextCleaned[op.file] # "end"
    <3>1. op'.kind = op.kind /\ op'.step = "clean"
      BY <1>2, <1>7, <2>2 DEF CleanNext, Ops
    <3> QED
      BY <1>1, <1>3, <1>7, <2>1, <3>1, AfterKept DEF CleanNext
  <2>3. CASE NextCleaned[op.file] = "end"
    <3>1. op' = Idle \/ (op'.kind = "promote" /\ op'.step = "advance")
      <4>1. CASE op.kind = "promote"
        BY <1>2, <1>7, <2>3, <4>1, GotoStep DEF CleanNext, AfterClean, Steps
      <4>2. CASE op.kind \in {"stable", "fallback"}
        BY <1>2, <1>7, <2>3, <4>2, GotoFields DEF CleanNext, AfterClean
      <4> QED
        BY <1>3, <4>1, <4>2
    <3> QED
      BY <1>1, <1>7, <2>1, <3>1, AfterKept DEF CleanNext
  <2> QED
    BY <2>2, <2>3
<1>8. CASE AdvanceCounter
  BY <1>1, <1>8, AfterKept DEF AdvanceCounter
<1> QED
  BY <1>4, <1>5, <1>6, <1>7, <1>8

-----------------------------------------------------------------------------
(* Every step. *)

LEMMA BeforeStep ==
  ASSUME Known, Control, Before, DaemonStep, used'.stages = used.stages
  PROVE  Before' \/ During'
<1>1. op.step # "idle"
  BY StepsGoOn DEF Known
<1>2. \/ op.kind = "stable" /\ op.step \in {"reconcile", "arm", "clean"}
      \/ op.kind = "stage" /\ op.step \in {"check", "fetch", "reject", "save"}
  BY <1>1, IdleOK DEF Before
<1>3. \/ op.kind = "stable" /\ (ReconcileCounter \/ ArmBootState \/ CleanNext)
      \/ op.kind = "stage" /\ (CheckDowngrade \/ FetchFile \/ FetchError \/ FetchCorrupt
                                  \/ RejectFile \/ SaveWal)
  BY <1>2 DEF DaemonStep, ReconcileCounter, SkipFile, KeepPrevious, InstallActive,
     ArmBootState, SaveWal, CleanNext, AdvanceCounter, CheckDowngrade, FetchFile,
     FetchError, FetchCorrupt, RejectFile
<1> QED
  BY <1>3, BeforeStable, BeforeFetch, BeforeSave DEF Known

LEMMA StepPhase ==
  ASSUME Known, Control, Phase, [Next]_vars, OneUpdate, OneUpdate'
  PROVE  Phase'
<1>1. TypeInv /\ FloorInv
  BY DEF Known
<1>2. CASE UNCHANGED vars
  <2>1. Before => Before'
    BY <1>2 DEF vars, Before, Holds
  <2>2. After => After'
    BY <1>2 DEF vars, After, Holds, OldActive, OldRoots, OldPrev, Spent, Exposed
  <2>3. During => During'
    BY <1>2 DEF vars, During, Between, Trial, Origin, Reserve, Left, InPlace, Holds,
       OldActive, OldPrev, Spent, Exposed
  <2> QED
    BY <2>1, <2>2, <2>3 DEF Phase
<1>3. CASE \E v \in Releases : BeginStage(v)
  <2>1. used.stages = 0
    BY <1>1, <1>3, SpendOne DEF BeginStage, OneUpdate, TypeInv, TypeOK, Events
  <2>2. Before
    BY <2>1 DEF Phase, During, After
  <2> QED
    BY <1>1, <1>3, <2>2, BeforeSession DEF Phase
<1>4. CASE ~(UNCHANGED vars \/ \E v \in Releases : BeginStage(v))
  <2>1. used'.stages = used.stages
    BY <1>1, <1>4, UsedGrows
  <2>2. LoaderBoot \/ PowerOff \/ DaemonFails \/ BootSuccess \/ DaemonStep
    BY <1>1, <1>4, NotByHand DEF Next
  <2>3. CASE Before
    BY <1>1, <2>1, <2>2, <2>3, BeforeLoader, BeforeSession, BeforeStep DEF Phase
  <2>4. CASE During
    BY <2>1, <2>2, <2>4, DuringLoader, DuringFault, DuringBoot, DuringStep DEF Phase
  <2>5. CASE After
    BY <2>1, <2>2, <2>5, AfterSession, AfterStep DEF Phase
  <2> QED
    BY <2>3, <2>4, <2>5 DEF Phase
<1> QED
  BY <1>2, <1>3, <1>4

LEMMA InitOneUpdateInv == Init => OneUpdateInv
<1>1. Init => Control
  BY IdleOK DEF Init, Control
<1> QED
  BY <1>1, InitBefore, InitFloorInv DEF OneUpdateInv, Phase

LEMMA StepOneUpdateInv == TypeInv /\ BudgetInv /\ OneUpdateInv /\ [Next]_vars => OneUpdateInv'
<1> SUFFICES ASSUME TypeInv, BudgetInv, OneUpdateInv, [Next]_vars, OneUpdate'
             PROVE  FloorInv' /\ Control' /\ Phase'
  BY DEF OneUpdateInv
<1>1. OneUpdate
  BY OneUpdateBefore
<1>2. Known /\ Control /\ Phase
  BY <1>1 DEF Known, OneUpdateInv
<1>3. FloorInv'
  BY <1>2, StepFloorInv DEF Known, OneUpdate
<1> QED
  BY <1>1, <1>2, <1>3, StepControl, StepPhase

LEMMA OneUpdateInvariance == Spec => []OneUpdateInv
BY InitOneUpdateInv, StepOneUpdateInv, TypeInvariance, BudgetInvariance, PTL DEF Spec

-----------------------------------------------------------------------------
(* What one update can never do. *)

(* After an update the loader finds the current release in -active, or, if *)
(* faults have used up the trials in the middle of a promotion, in -prev.  *)
LEMMA AfterBoots ==
  ASSUME TypeInv, FloorInv, After
  PROVE  LoaderSlot \in {"active", "prev"} /\ slot[LoaderSlot]["efi"] = wal.current
<1>1. LoaderSlot = StableSlot
  BY DEF LoaderSlot, OnTrial, After
<1>2. /\ wal.current \in Releases /\ wal.current \in Nat /\ hw \in Nat /\ hw <= wal.current
      /\ wal.lkg \in Nat
  BY Versions DEF TypeInv, TypeOK, Wal
<1>3. CASE Holds("active", wal.current, KernelFiles)
  <2>1. slot["active"]["efi"] = wal.current /\ slot["active"]["sig"] = wal.current
    BY <1>3 DEF Holds, KernelFiles, RootFiles, Artifact
  <2> QED
    BY <1>1, <1>2, <2>1 DEF StableSlot, FirstOf, Chainable
<1>4. CASE Spent /\ wal.current = Factory
  <2>1. slot["prev"]["efi"] = wal.current /\ slot["prev"]["sig"] = wal.current
    BY <1>4 DEF Spent, OldPrev, Holds, KernelFiles, RootFiles, Artifact
  <2>2. ~Chainable("active")
    BY <1>4 DEF Spent, Exposed, Chainable
  <2> QED
    BY <1>1, <1>2, <2>1, <2>2 DEF StableSlot, FirstOf, Chainable
<1> QED
  BY <1>3, <1>4 DEF After, OldActive, Holds, Files

(* FloorAdmitsActive, for the update that stage starts: a promotion fills  *)
(* the active slot before the counter is saved, and a rollback leaves the  *)
(* old image or the whole new one there.                                   *)
THEOREM FloorAdmits == Spec => [](OneUpdate => FloorAdmitsActive)
<1>1. TypeInv /\ OneUpdateInv => (OneUpdate => FloorAdmitsActive)
  <2> SUFFICES ASSUME TypeInv, FloorInv, Phase
               PROVE  slot["active"]["efi"] >= hw
    BY DEF OneUpdateInv, FloorAdmitsActive
  <2>1. hw \in Nat /\ hw <= wal.current /\ wal.lkg \in Nat /\ wal.current \in Nat
    BY Versions
  <2>2. slot["active"]["efi"] \in Nat
    BY SlotTyped DEF Slots, Files, KernelFiles, Contents
  <2>3. CASE Before
    BY <2>1, <2>3 DEF Before, Holds, Files, KernelFiles, RootFiles, Artifact
  <2>4. CASE During
    <3>1. slot["active"]["efi"] \in {Factory, wal.pending}
      BY <2>4, BetweenFiles DEF During
    <3> QED
      BY <2>1, <2>4, <3>1, Candidate DEF During
  <2>5. CASE After
    BY <2>1, <2>2, <2>5 DEF After, Holds, Files, KernelFiles, RootFiles, Artifact
  <2> QED
    BY <2>3, <2>4, <2>5 DEF Phase
<1> QED
  BY <1>1, TypeInvariance, OneUpdateInvariance, PTL

(* BootsCurrent, for the update that stage starts: wherever it is cut, an  *)
(* idle daemon without a candidate leaves the loader on the release the    *)
(* WAL calls current.                                                      *)
THEOREM LoaderFollowsWal == Spec => [](OneUpdate => BootsCurrent)
<1>1. TypeInv /\ OneUpdateInv => (OneUpdate => BootsCurrent)
  <2> SUFFICES ASSUME TypeInv, FloorInv, Phase, ~HasPending(wal)
               PROVE  LoaderSlot # "recovery" /\ slot[LoaderSlot]["efi"] = wal.current
    BY DEF OneUpdateInv, BootsCurrent
  <2>1. CASE Before
    BY <2>1, BeforeActive DEF Before, Holds, Files, KernelFiles, RootFiles, Artifact
  <2>2. CASE After
    BY <2>2, AfterBoots
  <2> QED
    BY <2>1, <2>2 DEF Phase, During, Due
<1> QED
  BY <1>1, TypeInvariance, OneUpdateInvariance, PTL

(* NeverBricked, for the update that stage starts: no rename of a          *)
(* promotion, cleanup or fetch takes away the last image that boots, as    *)
(* long as faults are fewer than the spare trial boots.                    *)
THEOREM AlwaysBoots == Spec => [](OneUpdate => NeverBricked)
<1>1. TypeInv /\ BudgetInv /\ OneUpdateInv => (OneUpdate => NeverBricked)
  <2> SUFFICES ASSUME TypeInv, BudgetInv, FloorInv, Phase, used.faults < MaxAttempts - 1
               PROVE  Starts(LoaderSlot) \/ Starts(StableSlot)
    BY DEF OneUpdateInv, NeverBricked
  <2>1. CASE Before
    BY <2>1, BeforeActive
  <2>2. CASE During
    <3>1. CASE ~Exposed
      BY <2>2, <3>1, StableBoot DEF During
    <3>2. CASE Exposed
      <4> DEFINE u == wal.pending
      <4>1. boot.target = "next" /\ u \in Good \ {Factory}
        <5>1. used.faults \in Nat /\ MaxAttempts \in Nat
          BY BudgetAssumption DEF TypeInv, TypeOK, Events
        <5>2. boot.target = "next"
          BY <2>2, <3>2, <5>1 DEF During
        <5> QED
          BY <2>2, <3>2, <5>2, StableBoot, BetweenFiles DEF During
      <4>2. OnTrial
        BY <2>2, <4>1, Budgeted DEF During
      <4>3. Chainable("next") /\ Starts("next")
        BY <2>2, NextStarts DEF During
      <4> QED
        BY <4>2, <4>3 DEF LoaderSlot, OnTrial, FirstOf
    <3> QED
      BY <3>1, <3>2
  <2>3. CASE After
    <3>1. LoaderSlot \in {"active", "prev"} /\ slot[LoaderSlot]["efi"] = wal.current
      BY <2>3, AfterBoots
    <3>2. HasRoot(wal.current)
      <4>1. ~Spent
        BY BudgetAssumption DEF Spent, TypeInv, TypeOK, Events
      <4>2. CASE Holds("active", wal.current, Files)
        BY <4>2 DEF HasRoot, Holds, Files, RootFiles, Artifact, Slots
      <4>3. CASE wal.current = Factory /\ OldRoots
        BY <4>3 DEF HasRoot, OldRoots, RootFiles, Artifact, Slots
      <4> QED
        BY <2>3, <4>1, <4>2, <4>3 DEF After
    <3> QED
      BY <3>1, <3>2 DEF Starts
  <2> QED
    BY <2>1, <2>2, <2>3 DEF Phase
<1> QED
  BY <1>1, TypeInvariance, BudgetInvariance, OneUpdateInvariance, PTL
=============================================================================
