------------------------------ MODULE WalStore ------------------------------
(***************************************************************************)
(* deployment.Load and deployment.Save: the WAL is kept in two files, the  *)
(* primary and its backup.  Save replaces the backup first, each file by a *)
(* synced temporary file renamed over it, and syncs the directory after    *)
(* each rename.  Load reads the primary, or the backup when the primary is *)
(* missing or corrupt.                                                     *)
(*                                                                         *)
(* Power can go at any point.  A rename is seen by readers at once, and    *)
(* survives a power loss for certain only when the directory was synced.   *)
(* Saves do not overlap here.  A file's content is the number of the Save  *)
(* that wrote it.                                                          *)
(***************************************************************************)
EXTENDS Naturals

CONSTANTS
  DirSync,   \* the file system syncs directories (else fsync returns EINVAL)
  MaxSaves   \* bound: calls of Save

ASSUME DirSyncAssumption == DirSync \in BOOLEAN
ASSUME SavesAssumption == MaxSaves \in Nat

VARIABLES
  file,     \* file[f]: what a read of f finds
  durable,  \* durable[f]: what f may hold after a power loss
  save,     \* the Save under way: its next step, and the file it is at
  kept,     \* history: the last Save that returned
  latest    \* history: the last Save that began

vars == <<file, durable, save, kept, latest>>

Files == {"primary", "backup"}

(* A file that is missing, or that does not parse. *)
Damaged == 0

Idle == [step |-> "idle", at |-> 1]

Load == IF file["primary"] # Damaged THEN file["primary"] ELSE file["backup"]

PrimaryFirst == <<"primary", "backup">>  \* a mutant of SaveOrder

(* The order in which Save replaces the files. *)
SaveOrder == <<"backup", "primary">>

-----------------------------------------------------------------------------
BeginSave ==
  /\ save.step = "idle"
  /\ latest <= MaxSaves
  /\ latest' = latest + 1
  /\ save' = [step |-> "rename", at |-> 1]
  /\ UNCHANGED <<file, durable, kept>>

TruncatedWrite== {latest, Damaged}  \* a mutant of Replaced: no temporary file

(* What a rename may put in place: the temporary file was synced before. *)
Replaced == {latest}

Rename ==
  /\ save.step = "rename"
  /\ LET f == SaveOrder[save.at]
     IN  /\ file' = [file EXCEPT ![f] = latest]
         /\ durable' = [durable EXCEPT ![f] = @ \cup Replaced]
  /\ save' = [save EXCEPT !.step = "sync"]
  /\ UNCHANGED <<kept, latest>>

UnsyncedDir == UNCHANGED durable  \* a mutant of FsyncDir

(* EINVAL is taken for success. *)
FsyncDir ==
  durable' = IF DirSync THEN [f \in Files |-> {file[f]}] ELSE durable

SyncDir ==
  /\ save.step = "sync"
  /\ FsyncDir
  /\ IF save.at = 2
     THEN save' = Idle /\ kept' = latest
     ELSE save' = [step |-> "rename", at |-> 2] /\ UNCHANGED kept
  /\ UNCHANGED <<file, latest>>

(* Any system call may fail; Save returns the error. *)
SaveFails ==
  /\ save.step # "idle"
  /\ save' = Idle
  /\ UNCHANGED <<file, durable, kept, latest>>

PowerLoss ==
  /\ file' \in [Files -> UNION {durable[f] : f \in Files}]
  /\ \A f \in Files : file'[f] \in durable[f]
  /\ durable' = [f \in Files |-> {file'[f]}]
  /\ save' = Idle
  /\ UNCHANGED <<kept, latest>>

(* One of the files goes bad, while the other is intact for certain. *)
Damage(f) ==
  /\ \A g \in Files \ {f} : Damaged \notin durable[g]
  /\ file' = [file EXCEPT ![f] = Damaged]
  /\ durable' = [durable EXCEPT ![f] = {Damaged}]
  /\ UNCHANGED <<save, kept, latest>>

-----------------------------------------------------------------------------
Init ==
  /\ file = [f \in Files |-> 1]
  /\ durable = [f \in Files |-> {1}]
  /\ save = Idle
  /\ kept = 1
  /\ latest = 1

Next ==
  \/ BeginSave \/ Rename \/ SyncDir \/ SaveFails
  \/ PowerLoss
  \/ \E f \in Files : Damage(f)

Spec == Init /\ [][Next]_vars

-----------------------------------------------------------------------------
(* TypeOK: the files hold numbers of Saves that have begun, or damage. *)
TypeOK ==
  /\ file \in [Files -> 0 .. latest]
  /\ durable \in [Files -> SUBSET (0 .. latest)]
  /\ save \in [step : {"idle", "rename", "sync"}, at : {1, 2}]
  /\ kept \in Nat \ {0}
  /\ latest \in Nat \ {0}

(* AlwaysReadable: Load finds a state at every instant of a Save and after *)
(* every power loss, although one of the two files may be damaged: "a      *)
(* crash mid-write can never leave the device without a readable copy"     *)
(* (wal.go, Save).                                                         *)
AlwaysReadable == Load # Damaged

(* SavedSurvives: once Save has returned, no Load gives an older state,    *)
(* whatever power loss or damage to one file follows (wal.go: a directory  *)
(* whose sync gives EINVAL "is not a durability failure").                 *)
SavedSurvives == Load >= kept

(* NeverBack: only a power loss takes back a state that a reader has seen. *)
(* Damage to the primary does not, since the backup is written first: "at  *)
(* worst a torn primary write is covered by an intact backup".             *)
NeverBack == [][Load' < Load => PowerLoss]_vars

Register == INSTANCE WalRegister WITH value <- Load

(* ImplementsRegister: the two files behave as one register. *)
ImplementsRegister == Register!Spec
=============================================================================
