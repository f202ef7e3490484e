--------------------------- MODULE WalStoreProofs ---------------------------
(***************************************************************************)
(* Proofs about WalStore: the two files are always readable, damage never  *)
(* takes a reader back, and on a file system that syncs directories they   *)
(* implement a register.                                                   *)
(***************************************************************************)
EXTENDS WalStore, TLAPS

(* The file that is being replaced, or has just been. *)
At == SaveOrder[save.at]

(* What a file may hold after a power loss includes what it holds now, and *)
(* one of the files is intact in every case.                               *)
Intact ==
  /\ \A f \in Files : file[f] \in durable[f]
  /\ \E f \in Files : Damaged \notin durable[f]

(* Without directory syncs no more than this can be said. *)
ReadInv == TypeOK /\ Intact

(* With them, the backup is never behind the primary, nothing older than   *)
(* the last returned Save is left, and the Save under way has reached the  *)
(* files it is past.                                                       *)
Ordered ==
  /\ \A b \in durable["backup"], p \in durable["primary"] : b # Damaged => p <= b
  /\ \A f \in Files : \A c \in durable[f] : c # Damaged => kept <= c
  /\ kept <= latest
  /\ save.step = "sync" => file[At] \in {latest, Damaged}
  /\ save.step # "idle" /\ save.at = 2 => durable["backup"] \subseteq {latest, Damaged}

IInv == ReadInv /\ Ordered

-----------------------------------------------------------------------------
(* Load, by the file it reads. *)
LEMMA LoadCases ==
  ASSUME ReadInv
  PROVE  /\ file["primary"] # Damaged => Load = file["primary"]
         /\ file["primary"] = Damaged => Load = file["backup"]
         /\ Load \in 0 .. latest
  BY DEF ReadInv, TypeOK, Load, Files

(* The type invariant and Intact are inductive whether or not the file     *)
(* system syncs directories.                                               *)
LEMMA ReadStep ==
  ASSUME ReadInv, [Next]_vars
  PROVE  ReadInv'
<1> USE DirSyncAssumption DEF ReadInv, TypeOK, Intact, Files, Damaged
<1>1. CASE BeginSave
  BY <1>1 DEF BeginSave
<1>2. CASE Rename
  <2>1. SaveOrder[save.at] \in Files
    BY <1>2 DEF Rename, SaveOrder
  <2>2. PICK f \in Files :
          /\ file' = [file EXCEPT ![f] = latest]
          /\ durable' = [durable EXCEPT ![f] = @ \cup {latest}]
          /\ UNCHANGED <<kept, latest>>
          /\ save' = [save EXCEPT !.step = "sync"]
    BY <1>2, <2>1 DEF Rename, Replaced
  <2> QED
    BY <2>2
<1>3. CASE SyncDir
  BY <1>3 DEF SyncDir, FsyncDir, Idle
<1>4. CASE SaveFails
  BY <1>4 DEF SaveFails, Idle
<1>5. CASE PowerLoss
  BY <1>5 DEF PowerLoss, Idle
<1>6. ASSUME NEW f \in Files, Damage(f)
      PROVE  ReadInv'
  BY <1>6 DEF Damage
<1>7. CASE UNCHANGED vars
  BY <1>7 DEF vars
<1> QED
  BY <1>1, <1>2, <1>3, <1>4, <1>5, <1>6, <1>7 DEF Next

(* TypeCorrect: the files only ever hold states of Saves that have begun, *)
(* or damage.                                                             *)
THEOREM TypeCorrect == Spec => []TypeOK
<1>1. Init => ReadInv
  BY DEF Init, ReadInv, TypeOK, Intact, Files, Damaged, Idle
<1>2. ReadInv => TypeOK
  BY DEF ReadInv
<1> QED
  BY <1>1, <1>2, ReadStep, PTL DEF Spec

(* LoadNeverFails: a crash in the middle of Save, or damage to one of the *)
(* files, never leaves Load without a state to return, even on a file     *)
(* system that does not sync directories.                                 *)
THEOREM LoadNeverFails == Spec => []AlwaysReadable
<1>1. Init => ReadInv
  BY DEF Init, ReadInv, TypeOK, Intact, Files, Damaged, Idle
<1>2. ReadInv => AlwaysReadable
  BY DEF ReadInv, Intact, AlwaysReadable, Load, Files, Damaged
<1> QED
  BY <1>1, <1>2, ReadStep, PTL DEF Spec

-----------------------------------------------------------------------------
(* Ordered is preserved when directories are synced. *)
LEMMA OrderedStep ==
  ASSUME DirSync, IInv, [Next]_vars
  PROVE  IInv'
<1>1. ReadInv'
  BY ReadStep DEF IInv
<1> USE DEF IInv, ReadInv, TypeOK, Intact, Ordered, Files, Damaged, At
<1>2. CASE BeginSave
  BY <1>2 DEF BeginSave
<1>3. CASE Rename
  <2>1. CASE save.at = 1
    <3>1. /\ file' = [file EXCEPT !["backup"] = latest]
          /\ durable' = [durable EXCEPT !["backup"] = @ \cup {latest}]
      BY <1>3, <2>1 DEF Rename, SaveOrder, Replaced
    <3>2. SaveOrder'[save'.at] = "backup"
      BY <1>3, <2>1 DEF Rename, SaveOrder
    <3> QED
      BY <1>1, <1>3, <2>1, <3>1, <3>2 DEF Rename
  <2>2. CASE save.at = 2
    <3>1. /\ file' = [file EXCEPT !["primary"] = latest]
          /\ durable' = [durable EXCEPT !["primary"] = @ \cup {latest}]
      BY <1>3, <2>2 DEF Rename, SaveOrder, Replaced
    <3>2. SaveOrder'[save'.at] = "primary"
      BY <1>3, <2>2 DEF Rename, SaveOrder
    <3> QED
      BY <1>1, <1>3, <2>2, <3>1, <3>2 DEF Rename
  <2> QED
    BY <2>1, <2>2
<1>4. CASE SyncDir
  <2>1. durable' = [f \in Files |-> {file[f]}] /\ file' = file /\ latest' = latest
    BY <1>4 DEF SyncDir, FsyncDir
  <2>2. CASE save.at = 1
    <3>1. file["backup"] \in {latest, Damaged}
      BY <1>4, <2>2 DEF SyncDir, SaveOrder
    <3> QED
      BY <1>1, <1>4, <2>1, <2>2, <3>1 DEF SyncDir
  <2>3. CASE save.at = 2
    <3>1. /\ file["primary"] \in {latest, Damaged}
          /\ file["backup"] \in {latest, Damaged}
      BY <1>4, <2>3 DEF SyncDir, SaveOrder
    <3> QED
      BY <1>1, <1>4, <2>1, <2>3, <3>1 DEF SyncDir, Idle
  <2> QED
    BY <2>2, <2>3
<1>5. CASE SaveFails
  BY <1>1, <1>5 DEF SaveFails, Idle
<1>6. CASE PowerLoss
  BY <1>1, <1>6 DEF PowerLoss, Idle
<1>7. ASSUME NEW f \in Files, Damage(f)
      PROVE  IInv'
  <2>1. SaveOrder[save.at] \in Files
    BY DEF SaveOrder
  <2> QED
    BY <1>1, <1>7, <2>1 DEF Damage
<1>8. CASE UNCHANGED vars
  BY <1>1, <1>8 DEF vars
<1> QED
  BY <1>2, <1>3, <1>4, <1>5, <1>6, <1>7, <1>8 DEF Next

LEMMA OrderedInit == Init => IInv
  BY DEF Init, IInv, ReadInv, TypeOK, Intact, Ordered, Files, Damaged, Idle

(* ReturnedSurvives: what Save has returned for, or something newer, is   *)
(* what every later Load gives, given that directories are synced.        *)
THEOREM ReturnedSurvives == ASSUME DirSync PROVE Spec => []SavedSurvives
<1>1. IInv => SavedSurvives
  BY DEF IInv, ReadInv, TypeOK, Intact, Ordered, SavedSurvives, Load, Files, Damaged
<1>2. IInv /\ [Next]_vars => IInv'
  BY OrderedStep
<1> QED
  BY <1>1, <1>2, OrderedInit, PTL DEF Spec

(* A step other than a power loss moves Load forward, if at all. *)
LEMMA LoadStep ==
  ASSUME DirSync, IInv,
         \/ BeginSave \/ Rename \/ SyncDir \/ SaveFails
         \/ \E f \in Files : Damage(f)
         \/ UNCHANGED vars
  PROVE  Load' >= Load /\ Load' <= latest'
<1> USE DEF IInv, ReadInv, TypeOK, Intact, Ordered, Files, Damaged, Load
<1>1. CASE BeginSave
  BY <1>1 DEF BeginSave
<1>2. CASE Rename
  BY <1>2 DEF Rename, SaveOrder, Replaced
<1>3. CASE SyncDir
  BY <1>3 DEF SyncDir
<1>4. CASE SaveFails
  BY <1>4 DEF SaveFails
<1>5. ASSUME NEW f \in Files, Damage(f)
      PROVE  Load' >= Load /\ Load' <= latest'
  BY <1>5 DEF Damage
<1>6. CASE UNCHANGED vars
  BY <1>6 DEF vars
<1> QED
  BY <1>1, <1>2, <1>3, <1>4, <1>5, <1>6

(* DamageNeverBack: only a power loss takes a reader back. *)
THEOREM DamageNeverBack == ASSUME DirSync PROVE Spec => NeverBack
<1>1. ASSUME IInv, [Next]_vars, Load' < Load
      PROVE  PowerLoss
  <2>1. Load \in Nat /\ Load' \in Nat
    BY <1>1, LoadCases, OrderedStep DEF IInv, ReadInv, TypeOK, Load, Files
  <2> QED
    BY <1>1, <2>1, LoadStep DEF Next
<1>2. IInv /\ [Next]_vars => [Load' < Load => PowerLoss]_vars
  BY <1>1
<1>3. IInv /\ [Next]_vars => IInv'
  BY OrderedStep
<1> QED
  BY <1>2, <1>3, OrderedInit, PTL DEF Spec, NeverBack

LEMMA KeptBound ==
  ASSUME IInv
  PROVE  Load \in kept .. latest
  BY DEF IInv, ReadInv, TypeOK, Intact, Ordered, Load, Files, Damaged

(* RegisterStep: every step of the two files is a step of the register. *)
LEMMA RegisterStep ==
  ASSUME DirSync, IInv, [Next]_vars
  PROVE  [Register!Next]_(Register!vars)
<1> SUFFICES Register!Next \/ UNCHANGED <<Load, kept, latest>>
  BY DEF Register!vars
<1>1. /\ kept \in Nat /\ latest \in Nat
      /\ Load \in kept .. latest
      /\ Load' \in kept' .. latest'
  <2>1. IInv'
    BY OrderedStep
  <2>2. Load' \in kept' .. latest'
    BY <2>1 DEF IInv, ReadInv, TypeOK, Intact, Ordered, Load, Files, Damaged
  <2> QED
    BY <2>2, KeptBound DEF IInv, ReadInv, TypeOK
<1>2. CASE BeginSave
  BY <1>2 DEF BeginSave, Load, Register!Next, Register!Begin
<1>3. CASE Rename \/ SaveFails \/ (\E f \in Files : Damage(f)) \/ UNCHANGED vars
  <2>1. kept' = kept /\ latest' = latest
    BY <1>3 DEF Rename, SaveFails, Damage, vars
  <2>2. Load' >= Load
    BY <1>3, LoadStep
  <2> QED
    BY <1>1, <2>1, <2>2 DEF Register!Next, Register!Commit
<1>4. CASE SyncDir
  <2>1. Load' = Load
    BY <1>4 DEF SyncDir, Load
  <2>2. CASE save.at = 1
    BY <1>4, <2>1, <2>2 DEF SyncDir
  <2>3. CASE save.at = 2
    <3>1. kept' = latest /\ latest' = latest
      BY <1>4, <2>3 DEF SyncDir
    <3>2. Load = latest
      BY <1>1, <2>1, <3>1
    <3> QED
      BY <2>1, <3>1, <3>2 DEF Register!Next, Register!Return
  <2> QED
    BY <2>2, <2>3 DEF IInv, ReadInv, TypeOK
<1>5. CASE PowerLoss
  <2>1. kept' = kept /\ latest' = latest
    BY <1>5 DEF PowerLoss
  <2> QED
    BY <1>1, <2>1 DEF Register!Next, Register!PowerLoss
<1> QED
  BY <1>2, <1>3, <1>4, <1>5 DEF Next

(* WalIsARegister: on a file system that syncs directories, the two files, *)
(* with Saves cut short at any point and damage to either file, implement  *)
(* the register that the update cycle takes the WAL for.                   *)
THEOREM WalIsARegister == ASSUME DirSync PROVE Spec => ImplementsRegister
<1>1. Init => Register!Init
  BY DEF Init, Load, Damaged, Files, Register!Init
<1>2. IInv /\ [Next]_vars => IInv'
  BY OrderedStep
<1>3. IInv /\ [Next]_vars => [Register!Next]_(Register!vars)
  BY RegisterStep
<1> QED
  BY <1>1, <1>2, <1>3, OrderedInit, PTL DEF Spec, ImplementsRegister, Register!Spec
=============================================================================
