------------------------------ MODULE Initramfs ------------------------------
(***************************************************************************)
(* The boot package as the initramfs runs it: find the root image that the *)
(* signed root hash names while boot media come up, let go of data that is *)
(* not its own, lay out the mounts and hand over to init, or end the boot. *)
(*                                                                         *)
(* A volume is a partition or a file on one (a root slot, the image of an  *)
(* optical medium) that is attached to a loop device: the file stands for  *)
(* its loop device.  A root image and its dm-verity tree are known by the  *)
(* release they belong to; a mapping reads correctly when image, tree and  *)
(* signed hash are of one release.                                         *)
(***************************************************************************)
EXTENDS Naturals, FiniteSets

CONSTANTS
  Vol,          \* Vol[v]: what volume v is
  SizeOf,       \* SizeOf[r]: the size of the root image of release r
  Modes,        \* the kinds of boot: "installed", "live", "portable"
  Interval,     \* tries before SelectRoot gives up (Config.Attempts)
  MaxFaults     \* bound: failed system calls

None == 0
Volumes == DOMAIN Vol
Releases == DOMAIN SizeOf
Kinds == {"root", "hash", "data", "optical", "esp", "other"}

ASSUME VolAssumption ==
  Vol \in [Volumes -> [kind : Kinds, rel : Releases \cup {None}, disk : STRING,
                       on : Volumes \cup {"none"}, named : BOOLEAN,
                       atomvar : BOOLEAN, rank : Nat, bytes : Nat]]
(* A file lies on a partition; only partitions have a label, and an        *)
(* optical drive no partitions.                                            *)
ASSUME FileAssumption ==
  /\ "none" \notin Volumes
  /\ \A v \in Volumes : Vol[v].on # "none" =>
       /\ Vol[Vol[v].on].on = "none"
       /\ Vol[v].disk = Vol[Vol[v].on].disk
       /\ ~Vol[v].named
  /\ \A v \in Volumes : \A w \in Volumes \ {v} :
       Vol[v].kind = "optical" /\ {Vol[v].on, Vol[w].on} = {"none"} => Vol[v].disk # Vol[w].disk

(* The listing order is total, on partitions and on the files of one.      *)
ASSUME ListingAssumption ==
  \A v \in Volumes : \A w \in Volumes \ {v} :
    Vol[v].rank = Vol[w].rank => {Vol[v].on, Vol[w].on} \cap {"none"} = {} /\ Vol[v].on # Vol[w].on

(* A loop device is as large as its file.  A partition may be larger than  *)
(* the image written to it.                                                *)
ASSUME SizeAssumption ==
  /\ SizeOf \in [Releases -> Nat] /\ None \notin Releases
  /\ \A v \in Volumes :
       Vol[v].on # "none" /\ Vol[v].kind = "root" /\ Vol[v].rel # None
         => Vol[v].bytes = SizeOf[Vol[v].rel]
ASSUME BoundAssumption == Interval \in Nat \ {0} /\ MaxFaults \in Nat
ASSUME ModeAssumption == Modes \subseteq {"installed", "live", "portable"}

VARIABLES
  pc,       \* where the boot is
  cfg,      \* the configuration the command line and the TPM give it
  seen,     \* the partitions the kernel has found
  media,    \* the data partition, the optical medium and the attached files
  since,    \* history: what was seen when this try began
  left,     \* the pairs this try has still to map
  mapped,   \* the pair behind /dev/mapper/vroot, or none
  root,     \* the root that was selected, or none
  mnt,      \* where data partition, medium and ESP are mounted
  tries,    \* tries so far
  faults,   \* failed system calls so far
  stuck     \* history: how many of them left a mapping open

vars == <<pc, cfg, seen, media, since, left, mapped, root, mnt, tries, faults, stuck>>

-----------------------------------------------------------------------------
Partitions == {v \in Volumes : Vol[v].on = "none"}
FilesOn(p) == {v \in Volumes : Vol[v].on = p}
IsOptical(p) == Vol[p].kind = "optical"  \* a device named sr*
NoPair == <<"none", "none">>
NoMedia == [data |-> "none", slots |-> {}, iso |-> "none", isoFiles |-> {}]
NoRoot == [data |-> "none", hash |-> "none"]
NoMounts == [data |-> "none", iso |-> "none", var |-> FALSE, esp |-> "none"]

Live == cfg.mode # "installed"
Portable == cfg.mode = "portable"

OfKind(vs, kind) == {v \in vs : Vol[v].kind = kind}
First(vs) == CHOOSE v \in vs : \A w \in vs : Vol[v].rank <= Vol[w].rank

(* A system call that may fail, within the bound. *)
MayFail(failed) ==
  /\ faults + Cardinality(failed) <= MaxFaults
  /\ faults' = faults + Cardinality(failed)
AtMostOne(s) == {{}} \cup {{x} : x \in s}

-----------------------------------------------------------------------------
(* The media.  FindData takes the first partition that mounts and holds a  *)
(* root slot, for good; FindISO the first medium with both files attached. *)
DataPartitions(failed) ==
  {p \in seen \ failed : ~IsOptical(p) /\ OfKind(FilesOn(p), "root") # {}}

FindData ==
  /\ pc = "data"
  /\ IF cfg.hash = None
     THEN /\ pc' = "rescue"
          /\ UNCHANGED <<media, since, mnt, faults>>
     ELSE \E failed \in AtMostOne(seen \cup UNION {FilesOn(p) : p \in seen}) :
       /\ MayFail(failed)
       /\ IF media.data # "none" \/ DataPartitions(failed) = {}
          THEN UNCHANGED <<media, mnt>>
          ELSE LET p == First(DataPartitions(failed))
               IN  /\ media' = [media EXCEPT !.data = p, !.slots = FilesOn(p) \ failed]
                   /\ mnt' = [mnt EXCEPT !.data = "sysdata"]
       /\ pc' = "iso"
       /\ since' = seen
  /\ UNCHANGED <<cfg, seen, left, mapped, root, tries, stuck>>

Discs(failed) ==
  {p \in seen \ failed : /\ IsOptical(p)
                         /\ {"root", "hash"} \subseteq {Vol[f].kind : f \in FilesOn(p)}
                         /\ FilesOn(p) \cap failed = {}}

FindISO ==
  /\ pc = "iso"
  /\ \E failed \in AtMostOne(seen \cup UNION {FilesOn(p) : p \in seen}) :
       /\ MayFail(failed)
       /\ IF Portable \/ media.iso # "none" \/ Discs(failed) = {}
          THEN UNCHANGED <<media, mnt>>
          ELSE LET p == First(Discs(failed))
               IN  /\ media' = [media EXCEPT !.iso = p, !.isoFiles = FilesOn(p)]
                   /\ mnt' = [mnt EXCEPT !.iso = "isomedia"]
  /\ pc' = "select"
  /\ UNCHANGED <<cfg, seen, since, left, mapped, root, tries, stuck>>

-----------------------------------------------------------------------------
(* The pairs of an image and a hash tree that may belong together.         *)
PortablePart(p) == Portable => Vol[p].named

Candidates ==
  IF Live THEN {p \in seen : ~IsOptical(p) /\ PortablePart(p)} \cup media.isoFiles
  ELSE media.slots

AnyOrigin(d, h) == TRUE  \* a mutant of SamePairOrigin

SamePairOrigin(d, h) ==
  /\ d \in media.slots <=> h \in media.slots
  /\ d \in media.isoFiles <=> h \in media.isoFiles
  /\ d \notin media.slots \cup media.isoFiles => Vol[d].disk = Vol[h].disk

Pairs == {p \in OfKind(Candidates, "root") \X OfKind(Candidates, "hash") :
            SamePairOrigin(p[1], p[2])}

AllEqual(d, h) == 1  \* a mutant of Score: no pair is preferred

(* rankPairs: the pair that the signed hash names first, then those whose  *)
(* hash device cannot be read, then the others, each with those before     *)
(* whose data device is as large as the tree says; ties in listing order.  *)
SizeFits(d, h) == Vol[d].bytes = SizeOf[Vol[h].rel]

Score(d, h) ==
  IF Vol[h].rel = None THEN 1
  ELSE IF Vol[h].rel = cfg.hash THEN (IF SizeFits(d, h) THEN 4 ELSE 3) ELSE 0

Before(p, q) ==
  \/ Score(p[1], p[2]) > Score(q[1], q[2])
  \/ /\ Score(p[1], p[2]) = Score(q[1], q[2])
     /\ \/ Vol[p[2]].rank < Vol[q[2]].rank
        \/ p[2] = q[2] /\ Vol[p[1]].rank < Vol[q[1]].rank

Ranked(ps) == CHOOSE p \in ps : \A q \in ps \ {p} : Before(p, q)

(* HasEROFS on the mapping reads: image and tree are what the hash names.  *)
Matches(p) == Vol[p[1]].rel = cfg.hash /\ Vol[p[2]].rel = cfg.hash

ListPairs ==
  /\ pc = "select" /\ ~cfg.unlocked
  /\ left' = Pairs
  /\ pc' = "pairs"
  /\ UNCHANGED <<cfg, seen, media, since, mapped, root, mnt, tries, faults, stuck>>

LeftOpen(open, fails) == open  \* a mutant of Close: nothing is torn down

(* CloseVerity; its error is ignored, and what was open stays open. *)
Close(open, fails) == IF fails THEN open ELSE NoPair

(* One pair of selectVerified: clear what is open, map, read, or close. *)
TryPair ==
  /\ pc = "pairs" /\ left # {}
  /\ \E failed \in AtMostOne({"clear", "open", "close"}) :
       LET p == Ranked(left)
           open == Close(mapped, "clear" \in failed)
       IN  /\ MayFail(failed)
           /\ stuck' = stuck + Cardinality(failed \ {"open"})
           /\ left' = left \ {p}
           /\ IF open # NoPair \/ Vol[p[2]].rel = None \/ "open" \in failed
              THEN mapped' = open /\ UNCHANGED <<pc, root>>  \* OpenVerity returns an error
              ELSE IF Matches(p)
              THEN /\ mapped' = p
                   /\ root' = [data |-> p[1], hash |-> p[2]]
                   /\ pc' = "release"
              ELSE mapped' = Close(p, "close" \in failed) /\ UNCHANGED <<pc, root>>
  /\ UNCHANGED <<cfg, seen, media, since, mnt, tries>>

(* selectUnlocked: the slot the hash names, else the first raw root.       *)
RawRoots ==
  OfKind(IF Live THEN {p \in seen : PortablePart(p)} \cup media.isoFiles
         ELSE media.slots, "root")

FirstRaw ==
  IF RawRoots \cap media.isoFiles # {} THEN First(RawRoots \cap media.isoFiles)
  ELSE First(RawRoots)

AnySlot(failed) == OfKind(media.slots, "root")  \* a mutant of SlotsNamed

SlotsNamed(failed) ==
  {d \in OfKind(media.slots, "root") \ failed :
     \E h \in OfKind(media.slots, "hash") : Matches(<<d, h>>)}

SelectUnlocked ==
  /\ pc = "select" /\ cfg.unlocked
  /\ \E failed \in AtMostOne(media.slots) :
       /\ MayFail(failed)
       /\ IF ~Live /\ SlotsNamed(failed) # {}
          THEN /\ root' = [NoRoot EXCEPT !.data = First(SlotsNamed(failed))]
               /\ pc' = "release"
          ELSE IF RawRoots # {}
          THEN root' = [NoRoot EXCEPT !.data = FirstRaw] /\ pc' = "release"
          ELSE pc' = "pairs" /\ UNCHANGED root
  /\ left' = {}
  /\ UNCHANGED <<cfg, seen, media, since, mapped, mnt, tries, stuck>>

OneMore == tries = Interval  \* a mutant of GivesUp

GivesUp == tries + 1 = Interval

(* SelectRoot: sleep and try again, as often as it is told to. *)
Retry ==
  /\ pc = "pairs" /\ left = {}
  /\ tries' = tries + 1
  /\ pc' = IF GivesUp THEN "rescue" ELSE "data"
  /\ UNCHANGED <<cfg, seen, media, since, left, mapped, root, mnt, faults, stuck>>

-----------------------------------------------------------------------------
(* What was selected decides what is kept.                                 *)
Optical == root.data \in media.isoFiles
FromSlot == root.data \in media.slots

AnyAtomVar == Vol[media.data].atomvar  \* a mutant of KeepsData: whose data it is

KeepsData == FromSlot \/ (Portable /\ Vol[media.data].atomvar)

(* ReleaseUnrelatedData: loops are detached and the partition unmounted. *)
ReleaseUnrelatedData ==
  /\ pc = "release"
  /\ IF media.data = "none" \/ KeepsData
     THEN pc' = "mount" /\ UNCHANGED <<media, mnt, faults>>
     ELSE \E failed \in AtMostOne({media.data}) :
            /\ MayFail(failed)
            /\ IF failed = {}
               THEN /\ media' = [media EXCEPT !.data = "none", !.slots = {}]
                    /\ mnt' = [mnt EXCEPT !.data = "none"]
                    /\ pc' = "mount"
               ELSE pc' = "rescue" /\ UNCHANGED <<media, mnt>>
  /\ UNCHANGED <<cfg, seen, since, left, mapped, root, tries, stuck>>

(* MountRoot: an installed system gets its data partition back, writable,  *)
(* as /var; a live boot an overlay in memory, with its media under /var.   *)
Installed == media.data # "none" /\ Vol[media.data].atomvar

MountInstalled ==
  /\ pc = "mount" /\ Installed
  /\ mnt' = [mnt EXCEPT !.data = "var", !.var = TRUE]
  /\ pc' = "esp"
  /\ UNCHANGED <<cfg, seen, media, since, left, mapped, root, tries, faults, stuck>>

MountLive ==
  /\ pc = "mount" /\ ~Installed
  /\ \E failed \in AtMostOne({media.data}) :  \* a move that fails is no error here
       /\ MayFail(failed)
       /\ mnt' = [mnt EXCEPT
            !.data = IF @ # "none" /\ failed = {} THEN "data" ELSE @,
            !.iso = IF Optical THEN "iso" ELSE @]
  /\ pc' = "esp"
  /\ UNCHANGED <<cfg, seen, media, since, left, mapped, root, tries, stuck>>

DataDisk ==  \* a mutant of RootDisk: the disk of the data partition
  IF media.data # "none" THEN Vol[media.data].disk ELSE Vol[root.data].disk

(* A loop device is on no disk: that of a slot is its data partition's. *)
RootDisk ==
  IF Vol[root.data].on = "none" THEN Vol[root.data].disk ELSE Vol[media.data].disk

(* MountESP: only on the disk of the root, or the image of the medium. *)
MountESP ==
  /\ pc = "esp"
  /\ LET esps == {p \in OfKind(seen, "esp") : Vol[p].disk = RootDisk}
     IN  mnt' = [mnt EXCEPT !.esp = IF Optical THEN media.iso
                                    ELSE IF esps # {} THEN First(esps) ELSE @]
  /\ pc' = "switch"
  /\ UNCHANGED <<cfg, seen, media, since, left, mapped, root, tries, faults, stuck>>

SwitchRoot ==
  /\ pc = "switch"
  /\ pc' = "up"
  /\ UNCHANGED <<cfg, seen, media, since, left, mapped, root, mnt, tries, faults, stuck>>

(* A mount, FindInit or SwitchRoot fails. *)
StepFails ==
  /\ pc \in {"mount", "switch"}
  /\ faults < MaxFaults
  /\ faults' = faults + 1
  /\ pc' = "rescue"
  /\ UNCHANGED <<cfg, seen, media, since, left, mapped, root, mnt, tries, stuck>>

(* Rescue: an unlocked device may open a shell to whoever confirms it. *)
Rescue ==
  /\ pc = "rescue"
  /\ pc' \in IF cfg.unlocked THEN {"shell", "off"} ELSE {"off"}
  /\ UNCHANGED <<cfg, seen, media, since, left, mapped, root, mnt, tries, faults, stuck>>

-----------------------------------------------------------------------------
(* The kernel finds a disk, with its partitions. *)
Disks == {Vol[v].disk : v \in Volumes}

Appear(d) ==
  /\ pc \notin {"rescue", "up", "shell", "off"}
  /\ seen' = seen \cup {p \in Partitions : Vol[p].disk = d}
  /\ seen' # seen
  /\ UNCHANGED <<pc, cfg, media, since, left, mapped, root, mnt, tries, faults, stuck>>

Init ==
  /\ pc = "data"
  /\ cfg \in [mode : Modes, unlocked : BOOLEAN, hash : Releases \cup {None}]
  /\ seen = {}
  /\ media = NoMedia
  /\ since = {}
  /\ left = {}
  /\ mapped = NoPair
  /\ root = NoRoot
  /\ mnt = NoMounts
  /\ tries = 0
  /\ faults = 0
  /\ stuck = 0

Step ==
  \/ FindData \/ FindISO \/ ListPairs \/ TryPair \/ SelectUnlocked \/ Retry
  \/ ReleaseUnrelatedData \/ MountInstalled \/ MountLive \/ MountESP
  \/ SwitchRoot \/ StepFails \/ Rescue

Next == Step \/ \E d \in Disks : Appear(d)

Spec == Init /\ [][Next]_vars

-----------------------------------------------------------------------------
(* TypeOK: the variables stay within their types. *)
TypeOK ==
  /\ pc \in {"data", "iso", "select", "pairs", "release", "mount", "esp",
             "switch", "rescue", "up", "shell", "off"}
  /\ cfg \in [mode : Modes, unlocked : BOOLEAN, hash : Releases \cup {None}]
  /\ seen \subseteq Partitions
  /\ media \in [data : Partitions \cup {"none"}, slots : SUBSET Volumes,
                iso : Partitions \cup {"none"}, isoFiles : SUBSET Volumes]
  /\ since \subseteq seen
  /\ left \subseteq Volumes \X Volumes
  /\ mapped \in (Volumes \X Volumes) \cup {NoPair}
  /\ root \in [data : Volumes \cup {"none"}, hash : Volumes \cup {"none"}]
  /\ mnt \in [data : {"none", "sysdata", "var", "data"}, var : BOOLEAN,
              iso : {"none", "isomedia", "iso"}, esp : Partitions \cup {"none"}]
  /\ tries \in 0..Interval
  /\ faults \in 0..MaxFaults
  /\ stuck \in 0..faults

(* Sealed: on a locked device the root that is mounted is a mapping whose  *)
(* image and tree both belong to the signed hash and to one another: never *)
(* a raw image, and never two halves from different disks or media.        *)
Sealed ==
  root # NoRoot /\ ~cfg.unlocked =>
    /\ mapped = <<root.data, root.hash>>
    /\ Vol[root.data].rel = cfg.hash /\ Vol[root.hash].rel = cfg.hash
    /\ Vol[root.data].disk = Vol[root.hash].disk
    /\ Vol[root.data].on = Vol[root.hash].on

(* FindsRoot: a boot that gives up with no fault, or none but one mapping  *)
(* that could not be closed, had no pair to find when its last try began,  *)
(* except slots of a data partition that another installation, found       *)
(* first, hides for good: a wrong mapping left open, in the try in which   *)
(* the right pair was not there yet, does not cost the root.               *)
Reachable(v) == (IF Vol[v].on = "none" THEN v ELSE Vol[v].on) \in since

Findable(p) ==
  /\ Reachable(p[1]) /\ Reachable(p[2])
  /\ Matches(p)
  /\ Vol[p[1]].disk = Vol[p[2]].disk
  /\ cfg.mode = "installed" =>
       media.data # "none" /\ {p[1], p[2]} \subseteq FilesOn(media.data)
  /\ cfg.mode = "portable" => Vol[p[1]].named /\ Vol[p[2]].named
  /\ cfg.mode = "live" => \A v \in {p[1], p[2]} : Vol[v].on \in {"none", media.iso}

OnlyStuck == faults = stuck /\ stuck <= 1

FindsRoot ==
  pc = "off" /\ cfg.hash # None /\ OnlyStuck =>
    ~\E p \in OfKind(Volumes, "root") \X OfKind(Volumes, "hash") : Findable(p)

(* RightFirst: while the right pair is a pair of image files that has not  *)
(* been tried, the only pairs mapped before it are those that tree and     *)
(* size do not tell from it: a trial boot with two slots side by side, of  *)
(* images that differ in size, leaves no failed mapping behind that must   *)
(* be torn down first.  A partition is larger than its image as a rule,    *)
(* and a wrong one may then be mapped before it.                           *)
RightFirst ==
  [][pc = "pairs" /\ pc' = "pairs" /\ left' # left /\ faults' = faults =>
       \A p \in left : Matches(p) /\ Vol[p[1]].on # "none" =>
         \A q \in left \ left' : Vol[q[2]].rel = cfg.hash /\ SizeFits(q[1], q[2])]_vars

(* SignedSlot: without a fault, also an unlocked device boots the slot the *)
(* signed hash names, if its data partition has it.                        *)
SignedSlot ==
  pc = "up" /\ FromSlot /\ faults = 0 =>
    \/ Vol[root.data].rel = cfg.hash
    \/ ~\E p \in media.slots \X media.slots :
         Vol[p[1]].kind = "root" /\ Vol[p[2]].kind = "hash" /\ Matches(p)

(* OwnData: a /var that is written to is the partition the root came from; *)
(* only a portable root takes the data of an installation.                 *)
OwnData == mnt.var => Portable \/ Vol[root.data].on = media.data

(* EspOfRoot: the ESP that updates are written to lies on the disk of the  *)
(* root, though a slot is found through its data partition alone: an       *)
(* installed system has it on the disk of its /var, and a portable boot    *)
(* never touches the ESP of the machine whose data it uses.                *)
EspOfRoot ==
  mnt.esp # "none" =>
    /\ Vol[mnt.esp].disk = Vol[root.data].disk
    /\ mnt.var /\ ~Portable => Vol[mnt.esp].disk = Vol[media.data].disk
=============================================================================
