-------------------------- MODULE InitramfsProofs --------------------------
(***************************************************************************)
(* Theorems about the boot, for every machine: any volumes, sizes, order   *)
(* of appearance, number of tries and of failing system calls.             *)
(***************************************************************************)
EXTENDS Initramfs, FiniteSetTheorems, WellFoundedInduction, TLAPS

-----------------------------------------------------------------------------
(* The inductive invariant. *)

(* What is attached belongs to the partition it was found on. *)
MediaOK ==
  /\ seen \subseteq Partitions
  /\ IF media.data = "none" THEN media.slots = {}
     ELSE /\ media.data \in seen /\ ~IsOptical(media.data)
          /\ media.slots \subseteq FilesOn(media.data)
  /\ IF media.iso = "none" THEN media.isoFiles = {}
     ELSE /\ media.iso \in seen /\ IsOptical(media.iso) /\ ~Portable
          /\ media.isoFiles = FilesOn(media.iso)

Searching == {"data", "iso", "select", "pairs"}
Settled == {"release", "mount", "esp", "switch", "up"}
Ended == {"rescue", "shell", "off"}

(* What has not been done yet at each point of the boot. *)
Progress ==
  /\ pc \in Searching => root = NoRoot /\ tries < Interval
  /\ pc \in Searching /\ mapped # NoPair => stuck > 0
  /\ pc \in {"iso", "select", "pairs"} => cfg.hash # None
  /\ pc = "pairs" => left \subseteq Pairs /\ (cfg.unlocked => left = {})
  /\ mnt.var => pc \notin Searching \cup {"release", "mount"}
  /\ mnt.esp # "none" => pc \notin Searching \cup {"release", "mount", "esp"}

(* What the boot has chosen, and what it keeps for it. *)
Chosen ==
  /\ pc \in Settled => root.data \in Volumes
  /\ pc \in Settled => \/ Vol[root.data].on = "none"
                       \/ FromSlot \/ Optical
  /\ mnt.var => media.data # "none"
  /\ pc \in Settled \ {"release"} /\ media.data # "none" => KeepsData
  /\ Sealed /\ OwnData /\ EspOfRoot

(* The slot the hash names is chosen if it was attached. *)
Slots == media.slots \X media.slots
SlotPair(p) == Vol[p[1]].kind = "root" /\ Vol[p[2]].kind = "hash" /\ Matches(p)

SlotOK ==
  pc \in Settled /\ FromSlot /\ faults = 0 =>
    Vol[root.data].rel = cfg.hash \/ ~\E p \in Slots : SlotPair(p)

(* A pair that can be found is still to be tried, until it is found: a     *)
(* mapping that one failed close left open is cleared before the next.     *)
AllPairs == OfKind(Volumes, "root") \X OfKind(Volumes, "hash")

Hunted ==
  /\ media.data # "none" /\ OnlyStuck => media.slots = FilesOn(media.data)
  /\ pc = "pairs" /\ OnlyStuck => \A p \in AllPairs : Findable(p) => p \in left
  /\ pc \in Ended /\ OnlyStuck /\ cfg.hash # None => ~\E p \in AllPairs : Findable(p)

IInv == TypeOK /\ MediaOK /\ Progress /\ Chosen /\ SlotOK /\ Hunted

-----------------------------------------------------------------------------
(* The least elements that the model chooses exist. *)

LEMMA LeastNatural ==
  ASSUME NEW T, T \subseteq Nat, T # {}
  PROVE  \E x \in T : \A y \in T : x <= y
<1>2. IsWellFoundedOn({ss \in Nat \X Nat : ss[1] < ss[2]}, Nat)
  BY NatLessThanWellFounded DEF OpToRel
<1>3. PICK x \in T : \A y \in T : <<y, x>> \notin {ss \in Nat \X Nat : ss[1] < ss[2]}
  BY <1>2, WFMin
<1>4. ASSUME NEW y \in T PROVE x <= y
  <2>1. ~(y < x)
    BY <1>3
  <2> QED
    BY <2>1
<1> QED
  BY <1>4

LEMMA FirstIsOne ==
  ASSUME NEW vs \in SUBSET Volumes, vs # {}
  PROVE  First(vs) \in vs
<1> DEFINE ranks == {Vol[v].rank : v \in vs}
<1>1. ranks \subseteq Nat /\ ranks # {}
  BY VolAssumption
<1>2. PICK x \in ranks : \A y \in ranks : x <= y
  BY <1>1, LeastNatural
<1>3. PICK v \in vs : Vol[v].rank = x
  BY <1>2
<1>4. \A w \in vs : Vol[v].rank <= Vol[w].rank
  BY <1>2, <1>3
<1> QED
  BY <1>3, <1>4 DEF First

(* Ranked(ps): the pairs of one listing have a first. *)
LEMMA RankedIsFirst ==
  ASSUME NEW ps \in SUBSET Pairs, ps # {}, MediaOK
  PROVE  Ranked(ps) \in ps /\ \A q \in ps \ {Ranked(ps)} : Before(Ranked(ps), q)
<1> DEFINE rank(v) == Vol[v].rank
<1>0. \A p \in ps : /\ p = <<p[1], p[2]>> /\ {p[1], p[2]} \subseteq Candidates
                    /\ p[1] \in Volumes /\ p[2] \in Volumes
                    /\ Score(p[1], p[2]) \in 0..4
  <2> SUFFICES ASSUME NEW p \in ps
               PROVE  /\ p = <<p[1], p[2]>> /\ {p[1], p[2]} \subseteq Candidates
                      /\ p[1] \in Volumes /\ p[2] \in Volumes
                      /\ Score(p[1], p[2]) \in 0..4
    OBVIOUS
  <2>1. Candidates \subseteq Volumes
    BY DEF Candidates, MediaOK, Partitions, FilesOn
  <2>2. p \in OfKind(Candidates, "root") \X OfKind(Candidates, "hash")
    BY DEF Pairs
  <2>3. Score(p[1], p[2]) \in 0..4
    BY DEF Score
  <2> QED
    BY <2>1, <2>2, <2>3 DEF OfKind
<1>1. \A v \in Candidates, w \in Candidates : rank(v) = rank(w) => v = w
  <2> SUFFICES ASSUME NEW v \in Candidates, NEW w \in Candidates, rank(v) = rank(w), v # w
               PROVE  FALSE
    OBVIOUS
  <2>1. /\ v \in Volumes /\ w \in Volumes
        /\ Vol[v].on = "none" \/ Vol[w].on = "none" \/ Vol[v].on = Vol[w].on
    BY DEF Candidates, MediaOK, Partitions, FilesOn
  <2> QED
    BY <2>1, ListingAssumption
<1>2. PICK p1 \in ps : \A q \in ps : Score(q[1], q[2]) <= Score(p1[1], p1[2])
  <2> DEFINE S == {4 - Score(p[1], p[2]) : p \in ps}
  <2>1. S \subseteq Nat /\ S # {}
    BY <1>0
  <2>2. PICK x \in S : \A y \in S : x <= y
    BY <2>1, LeastNatural
  <2>3. PICK p \in ps : x = 4 - Score(p[1], p[2])
    BY <2>2
  <2>4. ASSUME NEW q \in ps PROVE Score(q[1], q[2]) <= Score(p[1], p[2])
    <3>1. x <= 4 - Score(q[1], q[2])
      BY <2>2
    <3> QED
      BY <3>1, <2>3, <1>0
  <2> QED
    BY <2>4
<1> DEFINE best == {p \in ps : Score(p[1], p[2]) = Score(p1[1], p1[2])}
<1>3. PICK p2 \in best : \A q \in best : rank(p2[2]) <= rank(q[2])
  <2> DEFINE S == {rank(p[2]) : p \in best}
  <2>1. S \subseteq Nat /\ S # {}
    BY <1>0, VolAssumption
  <2>2. PICK x \in S : \A y \in S : x <= y
    BY <2>1, LeastNatural
  <2>3. PICK p \in best : x = rank(p[2])
    BY <2>2
  <2> QED
    BY <2>2, <2>3
<1> DEFINE same == {p \in best : p[2] = p2[2]}
<1>4. PICK p3 \in same : \A q \in same : rank(p3[1]) <= rank(q[1])
  <2> DEFINE S == {rank(p[1]) : p \in same}
  <2>1. S \subseteq Nat /\ S # {}
    BY <1>0, VolAssumption
  <2>2. PICK x \in S : \A y \in S : x <= y
    BY <2>1, LeastNatural
  <2>3. PICK p \in same : x = rank(p[1])
    BY <2>2
  <2> QED
    BY <2>2, <2>3
<1>5. ASSUME NEW q \in ps \ {p3} PROVE Before(p3, q)
  <2>0. rank(p3[1]) \in Nat /\ rank(p3[2]) \in Nat /\ rank(q[1]) \in Nat /\ rank(q[2]) \in Nat
    BY <1>0, VolAssumption
  <2>1. CASE q \notin best
    BY <1>0, <1>2, <2>1 DEF Before
  <2>2. CASE q \in best /\ q[2] # p3[2]
    <3>1. rank(p3[2]) <= rank(q[2])
      BY <1>3, <2>2
    <3>2. rank(p3[2]) # rank(q[2])
      BY <1>0, <1>1, <2>2
    <3> QED
      BY <2>0, <2>2, <3>1, <3>2 DEF Before
  <2>3. CASE q \in best /\ q[2] = p3[2]
    <3>1. rank(p3[1]) <= rank(q[1])
      BY <1>4, <2>3
    <3>2. p3[1] # q[1]
      BY <1>0, <2>3
    <3>3. rank(p3[1]) # rank(q[1])
      BY <1>0, <1>1, <3>2
    <3> QED
      BY <2>0, <2>3, <3>1, <3>3 DEF Before
  <2> QED
    BY <2>1, <2>2, <2>3
<1> QED
  BY <1>5 DEF Ranked

-----------------------------------------------------------------------------
(* The invariant holds at first, and every step keeps it. *)

LEMMA InitHolds == Init => IInv
<1> SUFFICES ASSUME Init PROVE IInv
  OBVIOUS
<1>1. TypeOK
  BY BoundAssumption DEF Init, TypeOK, NoMedia, NoPair, NoRoot, NoMounts
<1>2. MediaOK
  BY DEF Init, MediaOK, NoMedia
<1>3. Progress
  BY BoundAssumption DEF Init, Progress, NoMounts
<1>4. Chosen
  BY DEF Init, Chosen, Settled, Optical, FromSlot, Sealed, OwnData, EspOfRoot, NoMounts
<1>5. SlotOK
  BY DEF Init, SlotOK, Settled
<1>6. Hunted
  BY DEF Init, Hunted, OnlyStuck, NoMedia, Ended
<1> QED
  BY <1>1, <1>2, <1>3, <1>4, <1>5, <1>6 DEF IInv

LEMMA CallFaults ==
  ASSUME TypeOK, NEW s, NEW failed \in AtMostOne(s), MayFail(failed)
  PROVE  /\ faults' \in 0..MaxFaults /\ faults <= faults'
         /\ faults' = faults <=> failed = {}
         /\ stuck' = stuck /\ OnlyStuck' => OnlyStuck /\ failed = {}
<1>1. CASE failed = {}
  <2>1. Cardinality(failed) = 0
    BY <1>1, FS_EmptySet
  <2> QED
    BY <1>1, <2>1, BoundAssumption DEF MayFail, TypeOK, OnlyStuck
<1>2. CASE failed # {}
  <2>1. PICK x \in s : failed = {x}
    BY <1>2 DEF AtMostOne
  <2>2. Cardinality(failed) = 1
    BY <2>1, FS_Singleton
  <2> QED
    BY <1>2, <2>2, BoundAssumption DEF MayFail, TypeOK, OnlyStuck
<1> QED
  BY <1>1, <1>2

LEMMA AppearKeeps ==
  ASSUME IInv, NEW d \in Disks, Appear(d)
  PROVE  IInv'
<1> USE DEF IInv, Appear
<1>1. seen \subseteq seen' /\ seen' \subseteq Partitions
  BY DEF Partitions, TypeOK
<1>2. TypeOK'
  BY <1>1 DEF TypeOK
<1>3. MediaOK'
  BY <1>1 DEF MediaOK, Portable
<1>4. Progress'
  <2>1. Candidates \subseteq Candidates'
    BY <1>1 DEF Candidates, Live, PortablePart, Portable
  <2>2. Pairs \subseteq Pairs'
    BY <2>1 DEF Pairs, OfKind, SamePairOrigin
  <2> QED
    BY <2>2 DEF Progress
<1>5. Chosen'
  BY DEF Chosen, Settled, KeepsData, FromSlot, Optical, Portable, Sealed, OwnData, EspOfRoot
<1>6. SlotOK'
  BY DEF SlotOK, FromSlot, Slots, SlotPair, Matches
<1>7. Hunted'
  BY DEF Hunted, OnlyStuck, Findable, Reachable, Matches
<1> QED
  BY <1>2, <1>3, <1>4, <1>5, <1>6, <1>7

LEMMA FindDataKeeps ==
  ASSUME IInv, FindData
  PROVE  IInv'
<1> USE DEF IInv
<1>1. CASE cfg.hash = None
  <2>1. /\ UNCHANGED <<cfg, seen, media, since, left, mapped, root, mnt, tries, faults, stuck>>
        /\ pc = "data" /\ pc' = "rescue"
    BY <1>1 DEF FindData
  <2>2. TypeOK' /\ MediaOK'
    BY <2>1 DEF TypeOK, MediaOK, Portable
  <2>3. Progress'
    BY <2>1 DEF Progress, Searching
  <2>4. Chosen' /\ SlotOK'
    BY <2>1 DEF Chosen, Settled, Optical, FromSlot, Sealed, OwnData, EspOfRoot, Portable, SlotOK
  <2>5. Hunted'
    BY <2>1, <1>1 DEF Hunted, OnlyStuck
  <2> QED
    BY <2>2, <2>3, <2>4, <2>5
<1>2. CASE cfg.hash # None
  <2> DEFINE parts == seen \cup UNION {FilesOn(p) : p \in seen}
  <2>1. PICK failed \in AtMostOne(parts) :
          /\ MayFail(failed)
          /\ IF media.data # "none" \/ DataPartitions(failed) = {}
             THEN UNCHANGED <<media, mnt>>
             ELSE LET p == First(DataPartitions(failed))
                  IN  /\ media' = [media EXCEPT !.data = p, !.slots = FilesOn(p) \ failed]
                      /\ mnt' = [mnt EXCEPT !.data = "sysdata"]
    BY <1>2 DEF FindData
  <2>2. /\ UNCHANGED <<cfg, seen, left, mapped, root, tries, stuck>>
        /\ pc = "data" /\ pc' = "iso" /\ since' = seen
    BY <1>2 DEF FindData
  <2>3. /\ faults' \in 0..MaxFaults /\ faults <= faults'
        /\ OnlyStuck' => OnlyStuck /\ failed = {}
    BY <2>1, <2>2, CallFaults
  <2>4. faults \in Nat /\ seen \subseteq Partitions /\ Partitions \subseteq Volumes
    BY DEF TypeOK, Partitions
  <2>5. /\ mnt'.var = mnt.var /\ mnt'.esp = mnt.esp
        /\ mnt' \in [data : {"none", "sysdata", "var", "data"}, var : BOOLEAN,
                     iso : {"none", "isomedia", "iso"}, esp : Partitions \cup {"none"}]
    BY <2>1 DEF TypeOK
  <2>6. /\ media' \in [data : Partitions \cup {"none"}, slots : SUBSET Volumes,
                       iso : Partitions \cup {"none"}, isoFiles : SUBSET Volumes]
        /\ MediaOK'
        /\ media'.data # "none" /\ OnlyStuck' => media'.slots = FilesOn(media'.data)
    <3>1. CASE media.data # "none" \/ DataPartitions(failed) = {}
      BY <2>1, <2>2, <2>3, <2>4, <3>1 DEF TypeOK, MediaOK, Portable, Hunted, OnlyStuck
    <3>2. CASE ~(media.data # "none" \/ DataPartitions(failed) = {})
      <4> DEFINE p == First(DataPartitions(failed))
      <4>1. p \in DataPartitions(failed)
        <5>1. DataPartitions(failed) \in SUBSET Volumes
          BY <2>4 DEF DataPartitions
        <5> QED
          BY <3>2, <5>1, FirstIsOne
      <4>2. p \in seen /\ ~IsOptical(p) /\ p # "none"
        BY <4>1, <2>4, FileAssumption DEF DataPartitions
      <4>3. media' = [media EXCEPT !.data = p, !.slots = FilesOn(p) \ failed]
        BY <2>1, <3>2
      <4>4. media'.data = p /\ media'.slots = FilesOn(p) \ failed
            /\ media'.iso = media.iso /\ media'.isoFiles = media.isoFiles
        BY <4>3 DEF TypeOK
      <4>5. media' \in [data : Partitions \cup {"none"}, slots : SUBSET Volumes,
                       iso : Partitions \cup {"none"}, isoFiles : SUBSET Volumes]
        BY <4>2, <4>3, <2>4 DEF TypeOK, FilesOn
      <4>6. MediaOK'
        BY <4>2, <4>4, <2>2 DEF MediaOK, Portable
      <4> QED
        BY <4>4, <4>5, <4>6, <2>3, <2>4
    <3> QED
      BY <3>1, <3>2
  <2>7. TypeOK'
    BY <2>2, <2>3, <2>5, <2>6 DEF TypeOK
  <2>8. Progress'
    BY <1>2, <2>2, <2>5 DEF Progress, Searching
  <2>9. Chosen' /\ SlotOK'
    BY <2>2, <2>5 DEF Chosen, Settled, Optical, FromSlot, Sealed, OwnData, EspOfRoot, Progress, Searching, SlotOK
  <2>10. Hunted'
    BY <2>2, <2>6 DEF Hunted, OnlyStuck, Ended
  <2> QED
    BY <2>6, <2>7, <2>8, <2>9, <2>10
<1> QED
  BY <1>1, <1>2

LEMMA FindISOKeeps ==
  ASSUME IInv, FindISO
  PROVE  IInv'
<1> USE DEF IInv
<1> DEFINE parts == seen \cup UNION {FilesOn(p) : p \in seen}
<1>1. PICK failed \in AtMostOne(parts) :
        /\ MayFail(failed)
        /\ IF Portable \/ media.iso # "none" \/ Discs(failed) = {}
           THEN UNCHANGED <<media, mnt>>
           ELSE LET p == First(Discs(failed))
                IN  /\ media' = [media EXCEPT !.iso = p, !.isoFiles = FilesOn(p)]
                    /\ mnt' = [mnt EXCEPT !.iso = "isomedia"]
  BY DEF FindISO
<1>2. /\ UNCHANGED <<cfg, seen, since, left, mapped, root, tries, stuck>>
      /\ pc = "iso" /\ pc' = "select"
  BY DEF FindISO
<1>3. /\ faults' \in 0..MaxFaults /\ faults <= faults' /\ faults \in Nat
      /\ OnlyStuck' => OnlyStuck
  BY <1>1, <1>2, CallFaults DEF TypeOK
<1>4. /\ mnt'.var = mnt.var /\ mnt'.esp = mnt.esp
      /\ mnt' \in [data : {"none", "sysdata", "var", "data"}, var : BOOLEAN,
                   iso : {"none", "isomedia", "iso"}, esp : Partitions \cup {"none"}]
  BY <1>1 DEF TypeOK
<1>5. /\ media' \in [data : Partitions \cup {"none"}, slots : SUBSET Volumes,
                     iso : Partitions \cup {"none"}, isoFiles : SUBSET Volumes]
      /\ MediaOK' /\ media'.data = media.data /\ media'.slots = media.slots
  <2>1. CASE Portable \/ media.iso # "none" \/ Discs(failed) = {}
    BY <1>1, <1>2, <2>1 DEF TypeOK, MediaOK, Portable
  <2>2. CASE ~(Portable \/ media.iso # "none" \/ Discs(failed) = {})
    <3> DEFINE p == First(Discs(failed))
    <3>1. p \in Discs(failed)
      <4>1. Discs(failed) \in SUBSET Volumes
        BY DEF Discs, TypeOK, Partitions
      <4> QED
        BY <2>2, <4>1, FirstIsOne
    <3>2. p \in seen /\ IsOptical(p) /\ p # "none" /\ p \in Partitions
      BY <3>1, FileAssumption DEF Discs, TypeOK, Partitions
    <3>3. media' = [media EXCEPT !.iso = p, !.isoFiles = FilesOn(p)]
      BY <1>1, <2>2
    <3>4. media'.iso = p /\ media'.isoFiles = FilesOn(p)
          /\ media'.data = media.data /\ media'.slots = media.slots
      BY <3>3 DEF TypeOK
    <3>5. media' \in [data : Partitions \cup {"none"}, slots : SUBSET Volumes,
                     iso : Partitions \cup {"none"}, isoFiles : SUBSET Volumes]
      BY <3>2, <3>3 DEF TypeOK, FilesOn
    <3>6. MediaOK'
      BY <2>2, <3>2, <3>4, <1>2 DEF MediaOK, Portable
    <3> QED
      BY <3>4, <3>5, <3>6
  <2> QED
    BY <2>1, <2>2
<1>6. TypeOK'
  BY <1>2, <1>3, <1>4, <1>5 DEF TypeOK
<1>7. Progress'
  BY <1>2, <1>4 DEF Progress, Searching
<1>8. Chosen' /\ SlotOK'
  BY <1>2, <1>4 DEF Chosen, Settled, Optical, FromSlot, Sealed, OwnData, EspOfRoot, Progress, Searching, SlotOK
<1>9. Hunted'
  BY <1>2, <1>3, <1>5 DEF Hunted, OnlyStuck, Ended
<1> QED
  BY <1>5, <1>6, <1>7, <1>8, <1>9

(* What can be found is among the volumes that are looked at. *)
LEMMA FindableIsCandidate ==
  ASSUME IInv, OnlyStuck, cfg.hash # None, NEW p \in AllPairs, Findable(p)
  PROVE  p[1] \in Candidates /\ p[2] \in Candidates /\ SamePairOrigin(p[1], p[2])
<1>1. /\ p[1] \in Volumes /\ Vol[p[1]].kind = "root"
      /\ p[2] \in Volumes /\ Vol[p[2]].kind = "hash"
  BY DEF AllPairs, OfKind
<1>2. since \subseteq seen /\ seen \subseteq Partitions
  BY DEF IInv, TypeOK
<1>3. MediaOK
  BY DEF IInv
<1>4. CASE cfg.mode = "installed"
  <2>1. {p[1], p[2]} \subseteq media.slots /\ Candidates = media.slots
    BY <1>4 DEF Findable, IInv, Hunted, OnlyStuck, Candidates, Live
  <2>2. {p[1], p[2]} \cap media.isoFiles = {}
    BY <1>3, <2>1 DEF MediaOK, FilesOn
  <2> QED
    BY <2>1, <2>2 DEF SamePairOrigin
<1>5. CASE cfg.mode = "portable"
  <2>1. Vol[p[1]].on = "none" /\ Vol[p[2]].on = "none" /\ Vol[p[1]].named /\ Vol[p[2]].named
    BY <1>1, <1>5, FileAssumption DEF Findable
  <2>2. {p[1], p[2]} \subseteq since /\ Vol[p[1]].disk = Vol[p[2]].disk
    BY <2>1 DEF Findable, Reachable
  <2>3. {p[1], p[2]} \subseteq Candidates
    BY <1>1, <1>2, <1>5, <2>1, <2>2 DEF Candidates, Live, PortablePart, IsOptical
  <2>4. {p[1], p[2]} \cap (media.slots \cup media.isoFiles) = {}
    BY <1>1, <1>2, <1>3, <2>1 DEF MediaOK, FilesOn, Partitions
  <2> QED
    BY <2>2, <2>3, <2>4 DEF SamePairOrigin
<1>6. CASE cfg.mode = "live"
  <2>1. /\ Vol[p[1]].on = "none" \/ Vol[p[1]].on = media.iso
        /\ Vol[p[2]].on = "none" \/ Vol[p[2]].on = media.iso
        /\ Vol[p[1]].disk = Vol[p[2]].disk /\ Reachable(p[1]) /\ Reachable(p[2])
    BY <1>6, <1>1 DEF Findable
  <2>2. ASSUME NEW v \in {p[1], p[2]}
        PROVE  /\ v \in Candidates /\ v \notin media.slots
               /\ v \in media.isoFiles <=> Vol[v].on # "none"
               /\ Vol[v].on # "none" => media.iso # "none" /\ Vol[v].on = media.iso
    <3>1. CASE Vol[v].on = "none"
      <4>1. v \in seen /\ ~IsOptical(v) /\ v \in Partitions
        BY <1>1, <1>2, <2>1, <3>1 DEF Reachable, IsOptical
      <4>2. v \in Candidates
        BY <4>1, <1>6 DEF Candidates, Live, PortablePart, Portable
      <4> QED
        BY <1>2, <1>3, <3>1, <4>1, <4>2 DEF MediaOK, FilesOn, Partitions
    <3>2. CASE Vol[v].on # "none"
      <4>1. v \in FilesOn(media.iso) /\ media.iso # "none" /\ Vol[v].on = media.iso
        BY <1>1, <2>1, <3>2 DEF FilesOn
      <4>2. v \in media.isoFiles
        BY <1>3, <4>1 DEF MediaOK
      <4>3. v \in Candidates
        BY <1>6, <4>2 DEF Candidates, Live
      <4>4. v \notin media.slots
        BY <1>3, <4>1 DEF MediaOK, FilesOn
      <4> QED
        BY <3>2, <4>1, <4>2, <4>3, <4>4
    <3> QED
      BY <3>1, <3>2
  <2>3. Vol[p[1]].on = "none" <=> Vol[p[2]].on = "none"
    <3>1. ASSUME NEW v \in Volumes, NEW w \in Volumes, Vol[v].on = "none", Vol[v].kind # "optical",
                 media.iso # "none", Vol[w].on = media.iso, Vol[v].disk = Vol[w].disk
          PROVE  FALSE
      <4>1. media.iso \in Volumes /\ Vol[media.iso].on = "none" /\ Vol[media.iso].kind = "optical"
        BY <1>2, <1>3, <3>1 DEF MediaOK, IsOptical, Partitions
      <4>2. Vol[w].disk = Vol[media.iso].disk
        BY <3>1, <4>1, FileAssumption
      <4> QED
        BY <3>1, <4>1, <4>2, FileAssumption
    <3> QED
      BY <1>1, <2>1, <2>2, <3>1
  <2> QED
    BY <2>1, <2>2, <2>3 DEF SamePairOrigin
<1> QED
  BY <1>4, <1>5, <1>6, ModeAssumption DEF IInv, TypeOK

LEMMA ListPairsKeeps ==
  ASSUME IInv, ListPairs
  PROVE  IInv'
<1> USE DEF IInv, ListPairs
<1>1. Candidates \subseteq Volumes
  BY DEF Candidates, TypeOK, Partitions
<1>2. TypeOK'
  BY <1>1 DEF TypeOK, Pairs, OfKind
<1>3. MediaOK'
  BY DEF MediaOK, Portable
<1>4. Progress'
  <2>1. Pairs' = Pairs
    BY DEF Pairs, Candidates, Live, PortablePart, Portable, SamePairOrigin
  <2> QED
    BY <2>1 DEF Progress, Searching
<1>5. Chosen' /\ SlotOK'
  BY DEF Chosen, Settled, Optical, FromSlot, Sealed, OwnData, EspOfRoot, Progress, Searching, SlotOK
<1>6. Hunted'
  <2>1. ASSUME OnlyStuck, NEW p \in AllPairs, Findable(p)
        PROVE  p \in left'
    <3>1. p[1] \in Candidates /\ p[2] \in Candidates /\ SamePairOrigin(p[1], p[2])
      BY <2>1, FindableIsCandidate DEF Progress
    <3> QED
      BY <3>1 DEF Pairs, AllPairs, OfKind
  <2>2. \A p : Findable(p)' <=> Findable(p)
    BY DEF Findable, Reachable, Matches
  <2> QED
    BY <2>1, <2>2 DEF Hunted, OnlyStuck, Ended
<1> QED
  BY <1>2, <1>3, <1>4, <1>5, <1>6

(* The two halves of a pair that is tried come from one place. *)
LEMMA HalvesMatch ==
  ASSUME MediaOK, NEW p \in Pairs
  PROVE  /\ p = <<p[1], p[2]>> /\ p[1] \in Volumes /\ p[2] \in Volumes
         /\ Vol[p[1]].disk = Vol[p[2]].disk /\ Vol[p[1]].on = Vol[p[2]].on
         /\ Vol[p[1]].on = "none" \/ p[1] \in media.slots \cup media.isoFiles
<1>1. /\ p = <<p[1], p[2]>> /\ p[1] \in Candidates /\ p[2] \in Candidates
      /\ SamePairOrigin(p[1], p[2])
  BY DEF Pairs, OfKind
<1>2. Candidates \subseteq Volumes
  BY DEF Candidates, MediaOK, Partitions, FilesOn
<1>3. ASSUME NEW c, {p[1], p[2]} \subseteq FilesOn(c), c \in Volumes
      PROVE  Vol[p[1]].disk = Vol[p[2]].disk /\ Vol[p[1]].on = Vol[p[2]].on
  <2>1. Vol[p[1]].on = c /\ Vol[p[2]].on = c /\ c # "none"
    BY <1>3, FileAssumption DEF FilesOn
  <2>2. Vol[p[1]].disk = Vol[c].disk /\ Vol[p[2]].disk = Vol[c].disk
    BY <2>1, <1>1, <1>2, FileAssumption
  <2> QED
    BY <2>1, <2>2
<1>4. CASE p[1] \in media.slots
  <2>1. {p[1], p[2]} \subseteq FilesOn(media.data) /\ media.data \in Volumes
    BY <1>1, <1>4 DEF SamePairOrigin, MediaOK, Partitions
  <2> QED
    BY <1>1, <1>2, <1>3, <1>4, <2>1
<1>5. CASE p[1] \in media.isoFiles
  <2>1. {p[1], p[2]} \subseteq FilesOn(media.iso) /\ media.iso \in Volumes
    BY <1>1, <1>5 DEF SamePairOrigin, MediaOK, Partitions
  <2> QED
    BY <1>1, <1>2, <1>3, <1>5, <2>1
<1>6. CASE p[1] \notin media.slots \cup media.isoFiles
  <2>1. p[2] \notin media.slots \cup media.isoFiles
    BY <1>1, <1>6 DEF SamePairOrigin
  <2>2. {p[1], p[2]} \subseteq Partitions
    BY <1>1, <1>6, <2>1 DEF Candidates, MediaOK
  <2> QED
    BY <1>1, <1>6, <2>2 DEF SamePairOrigin, Partitions
<1> QED
  BY <1>1, <1>2, <1>4, <1>5, <1>6

LEMMA TryFaults ==
  ASSUME TypeOK, NEW failed \in AtMostOne({"clear", "open", "close"}), MayFail(failed),
         stuck' = stuck + Cardinality(failed \ {"open"})
  PROVE  /\ faults' \in 0..MaxFaults /\ stuck' \in 0..faults' /\ stuck \in Nat
         /\ stuck' = IF failed \subseteq {"open"} THEN stuck ELSE stuck + 1
         /\ OnlyStuck' => OnlyStuck /\ failed # {"open"}
<1>1. /\ faults' \in 0..MaxFaults /\ faults <= faults' /\ faults \in Nat
      /\ stuck \in 0..faults
  BY CallFaults DEF TypeOK
<1>2. CASE failed = {}
  <2>1. Cardinality(failed \ {"open"}) = 0 /\ faults' = faults
    BY <1>2, CallFaults, FS_EmptySet
  <2> QED
    BY <1>1, <1>2, <2>1 DEF OnlyStuck
<1>3. CASE failed = {"open"}
  <2>1. Cardinality(failed \ {"open"}) = 0 /\ failed \ {"open"} = {}
    BY <1>3, FS_EmptySet
  <2>2. faults' = faults + 1
    BY <1>3, FS_Singleton DEF MayFail
  <2> QED
    BY <1>1, <1>3, <2>1, <2>2 DEF OnlyStuck
<1>4. ASSUME NEW x \in {"clear", "close"}, failed = {x}
      PROVE  /\ faults' \in 0..MaxFaults /\ stuck' \in 0..faults' /\ stuck \in Nat
             /\ stuck' = IF failed \subseteq {"open"} THEN stuck ELSE stuck + 1
             /\ OnlyStuck' => OnlyStuck /\ failed # {"open"}
  <2>1. failed \ {"open"} = failed
    BY <1>4
  <2>2. Cardinality(failed) = 1
    BY <1>4, FS_Singleton
  <2>3. faults' = faults + 1 /\ stuck' = stuck + 1
    BY <2>1, <2>2 DEF MayFail
  <2> QED
    BY <1>1, <1>4, <2>3 DEF OnlyStuck
<1> QED
  BY <1>2, <1>3, <1>4 DEF AtMostOne

LEMMA TryPairKeeps ==
  ASSUME IInv, TryPair
  PROVE  IInv'
<1> USE DEF IInv
<1> DEFINE p == Ranked(left)
<1>1. /\ pc = "pairs" /\ left # {} /\ left \subseteq Pairs /\ ~cfg.unlocked
      /\ root = NoRoot /\ cfg.hash # None
      /\ mapped # NoPair => stuck > 0
      /\ mapped \in (Volumes \X Volumes) \cup {NoPair}
  BY DEF TryPair, Progress, Searching, TypeOK
<1>2. p \in left /\ p \in Pairs
  BY <1>1, RankedIsFirst
<1>3. /\ p = <<p[1], p[2]>> /\ p[1] \in Volumes /\ p[2] \in Volumes
      /\ Vol[p[1]].disk = Vol[p[2]].disk /\ Vol[p[1]].on = Vol[p[2]].on
      /\ Vol[p[1]].on = "none" \/ p[1] \in media.slots \cup media.isoFiles
  BY <1>2, HalvesMatch
<1>4. PICK failed \in AtMostOne({"clear", "open", "close"}) :
        LET open == Close(mapped, "clear" \in failed)
        IN  /\ MayFail(failed)
            /\ stuck' = stuck + Cardinality(failed \ {"open"})
            /\ left' = left \ {p}
            /\ IF open # NoPair \/ Vol[p[2]].rel = None \/ "open" \in failed
               THEN mapped' = open /\ UNCHANGED <<pc, root>>
               ELSE IF Matches(p)
               THEN /\ mapped' = p
                    /\ root' = [data |-> p[1], hash |-> p[2]]
                    /\ pc' = "release"
               ELSE mapped' = Close(p, "close" \in failed) /\ UNCHANGED <<pc, root>>
  BY DEF TryPair
<1>5. UNCHANGED <<cfg, seen, media, since, mnt, tries>>
  BY DEF TryPair
<1>6. /\ faults' \in 0..MaxFaults /\ stuck' \in 0..faults' /\ stuck \in Nat
      /\ stuck' = IF failed \subseteq {"open"} THEN stuck ELSE stuck + 1
      /\ OnlyStuck' => OnlyStuck /\ failed # {"open"}
  BY <1>4, TryFaults
<1>7. MediaOK'
  BY <1>5 DEF MediaOK, Portable
<1>8. Pairs' = Pairs
  BY <1>5 DEF Pairs, Candidates, Live, PortablePart, Portable, SamePairOrigin
<1>9. CASE pc' = "release"
  <2>1. mapped' = p /\ root' = [data |-> p[1], hash |-> p[2]] /\ Matches(p)
    BY <1>1, <1>4, <1>9
  <2>2. TypeOK'
    BY <1>3, <1>4, <1>5, <1>6, <1>9, <2>1 DEF TypeOK
  <2>3. Progress'
    BY <1>1, <1>5, <1>9 DEF Progress, Searching
  <2>4. Sealed'
    BY <1>3, <1>5, <2>1 DEF Sealed, Matches
  <2>5. Chosen'
    BY <1>1, <1>3, <1>5, <1>9, <2>1, <2>4
       DEF Chosen, Settled, OwnData, EspOfRoot, Progress, Searching, FromSlot, Optical
  <2>6. SlotOK'
    BY <1>5, <2>1 DEF SlotOK, Matches
  <2>7. Hunted'
    BY <1>5, <1>6, <1>9 DEF Hunted, OnlyStuck, Ended
  <2> QED
    BY <1>7, <2>2, <2>3, <2>5, <2>6, <2>7
<1>10. CASE pc' # "release"
  <2>1. /\ pc' = pc /\ root' = root
        /\ mapped' \in {mapped, p, NoPair}
        /\ mapped' # NoPair => stuck' > 0
    BY <1>1, <1>4, <1>6, <1>10 DEF Close
  <2>2. TypeOK'
    BY <1>1, <1>3, <1>4, <1>5, <1>6, <2>1 DEF TypeOK
  <2>3. Progress'
    BY <1>1, <1>4, <1>5, <1>8, <2>1 DEF Progress, Searching
  <2>4. Chosen' /\ SlotOK'
    BY <1>1, <1>5, <2>1
       DEF Chosen, Settled, Optical, FromSlot, Sealed, OwnData, EspOfRoot, Progress, Searching, SlotOK
  <2>5. Hunted'
    <3>1. ASSUME OnlyStuck' PROVE ~Findable(p)
      <4>1. "open" \notin failed /\ stuck' <= 1
        BY <1>6, <3>1 DEF OnlyStuck, AtMostOne
      <4>2. "clear" \in failed => mapped = NoPair
        BY <1>1, <1>6, <4>1
      <4>3. Vol[p[2]].rel = None \/ ~Matches(p)
        BY <1>1, <1>4, <1>10, <2>1, <4>1, <4>2 DEF Close
      <4> QED
        BY <1>1, <4>3 DEF Findable, Matches
    <3>2. ASSUME OnlyStuck', NEW q \in AllPairs, Findable(q) PROVE q \in left'
      BY <1>1, <1>4, <1>6, <3>1, <3>2 DEF Hunted, OnlyStuck
    <3>3. \A q : Findable(q)' <=> Findable(q)
      BY <1>5 DEF Findable, Reachable, Matches
    <3> QED
      BY <1>1, <1>5, <1>6, <2>1, <3>2, <3>3 DEF Hunted, OnlyStuck, Ended
  <2> QED
    BY <1>7, <2>2, <2>3, <2>4, <2>5
<1> QED
  BY <1>9, <1>10

LEMMA SelectUnlockedKeeps ==
  ASSUME IInv, SelectUnlocked
  PROVE  IInv'
<1> USE DEF IInv
<1>1. PICK failed \in AtMostOne(media.slots) :
        /\ MayFail(failed)
        /\ IF ~Live /\ SlotsNamed(failed) # {}
           THEN /\ root' = [NoRoot EXCEPT !.data = First(SlotsNamed(failed))]
                /\ pc' = "release"
           ELSE IF RawRoots # {}
           THEN root' = [NoRoot EXCEPT !.data = FirstRaw] /\ pc' = "release"
           ELSE pc' = "pairs" /\ UNCHANGED root
  BY DEF SelectUnlocked
<1>2. /\ UNCHANGED <<cfg, seen, media, since, mapped, mnt, tries, stuck>>
      /\ left' = {} /\ pc = "select" /\ cfg.unlocked /\ root = NoRoot
  BY DEF SelectUnlocked, Progress, Searching
<1>3. /\ faults' \in 0..MaxFaults /\ faults <= faults' /\ faults \in Nat
      /\ faults' = faults <=> failed = {}
      /\ OnlyStuck' => OnlyStuck
  BY <1>1, <1>2, CallFaults DEF TypeOK
<1>4. MediaOK'
  BY <1>2 DEF MediaOK, Portable
<1>5. ASSUME pc' = "release"
      PROVE  /\ root'.data \in Volumes
             /\ \/ Vol[root'.data].on = "none"
                \/ root'.data \in media.slots \cup media.isoFiles
             /\ root' = [data |-> root'.data, hash |-> "none"]
             /\ root'.data \in media.slots /\ faults' = 0 =>
                  Vol[root'.data].rel = cfg.hash \/ ~\E q \in Slots : SlotPair(q)
  <2>1. CASE ~Live /\ SlotsNamed(failed) # {}
    <3>1. First(SlotsNamed(failed)) \in SlotsNamed(failed)
      <4>1. SlotsNamed(failed) \in SUBSET Volumes
        BY DEF SlotsNamed, OfKind, TypeOK
      <4> QED
        BY <2>1, <4>1, FirstIsOne
    <3>2. root' = [data |-> First(SlotsNamed(failed)), hash |-> "none"]
      BY <1>1, <2>1 DEF NoRoot
    <3>3. /\ Vol[First(SlotsNamed(failed))].rel = cfg.hash
          /\ First(SlotsNamed(failed)) \in Volumes
          /\ First(SlotsNamed(failed)) \in media.slots
      BY <3>1 DEF SlotsNamed, OfKind, Matches, TypeOK
    <3>4. root'.data = First(SlotsNamed(failed))
      BY <3>2
    <3> QED
      BY <3>2, <3>3, <3>4
  <2>2. CASE ~(~Live /\ SlotsNamed(failed) # {})
    <3>1. RawRoots # {} /\ root' = [data |-> FirstRaw, hash |-> "none"]
      BY <1>1, <1>5, <2>2 DEF NoRoot
    <3>2. RawRoots \in SUBSET Volumes
      BY DEF RawRoots, OfKind, TypeOK, Partitions
    <3>3. FirstRaw \in RawRoots
      BY <3>1, <3>2, FirstIsOne DEF FirstRaw
    <3>4. CASE Live
      BY <3>1, <3>2, <3>3, <3>4 DEF RawRoots, OfKind, MediaOK, FilesOn, Partitions
    <3>5. CASE ~Live
      <4>2. FirstRaw \in media.slots /\ FirstRaw \in Volumes /\ root'.data = FirstRaw
        BY <3>1, <3>2, <3>3, <3>5 DEF RawRoots, OfKind
      <4>1. ASSUME faults' = 0, NEW q \in Slots, SlotPair(q) PROVE FALSE
        <5>1. failed = {}
          BY <1>3, <4>1
        <5>2. q[1] \in media.slots /\ q[2] \in media.slots /\ q = <<q[1], q[2]>>
          BY <4>1 DEF Slots
        <5>3. q[1] \in SlotsNamed(failed)
          BY <4>1, <5>1, <5>2 DEF SlotsNamed, SlotPair, OfKind
        <5> QED
          BY <2>2, <3>5, <5>3
      <4> QED
        BY <3>1, <4>1, <4>2
    <3> QED
      BY <3>4, <3>5
  <2> QED
    BY <2>1, <2>2
<1>6. CASE pc' = "release"
  <2>1. TypeOK'
    BY <1>2, <1>3, <1>5, <1>6 DEF TypeOK
  <2>2. Progress'
    BY <1>2, <1>6 DEF Progress, Searching
  <2>3. Chosen'
    BY <1>2, <1>5, <1>6
       DEF Chosen, Settled, Optical, FromSlot, Sealed, OwnData, EspOfRoot, Progress, Searching
  <2>4. SlotOK'
    BY <1>2, <1>5, <1>6 DEF SlotOK, FromSlot, Slots, SlotPair, Matches
  <2>5. Hunted'
    BY <1>2, <1>3, <1>6 DEF Hunted, OnlyStuck, Ended
  <2> QED
    BY <1>4, <2>1, <2>2, <2>3, <2>4, <2>5
<1>7. CASE pc' # "release"
  <2>1. pc' = "pairs" /\ root' = root /\ RawRoots = {}
    BY <1>1, <1>7
  <2>2. TypeOK'
    BY <1>2, <1>3, <2>1 DEF TypeOK
  <2>3. Progress'
    BY <1>2, <2>1 DEF Progress, Searching
  <2>4. Chosen' /\ SlotOK'
    BY <1>2, <2>1
       DEF Chosen, Settled, Optical, FromSlot, Sealed, OwnData, EspOfRoot, Progress, Searching, SlotOK
  <2>5. Hunted'
    <3>1. ASSUME OnlyStuck', NEW q \in AllPairs, Findable(q) PROVE FALSE
      <4>1. OnlyStuck /\ cfg.hash # None
        BY <1>2, <1>3, <3>1 DEF Progress
      <4>2. q[1] \in Candidates /\ Vol[q[1]].kind = "root"
        BY <3>1, <4>1, FindableIsCandidate DEF AllPairs, OfKind
      <4>3. q[1] \in RawRoots
        BY <4>2 DEF Candidates, RawRoots, OfKind
      <4> QED
        BY <2>1, <4>3
    <3>2. \A q : Findable(q)' <=> Findable(q)
      BY <1>2 DEF Findable, Reachable, Matches
    <3> QED
      BY <1>2, <1>3, <2>1, <3>1, <3>2 DEF Hunted, OnlyStuck, Ended
  <2> QED
    BY <1>4, <2>2, <2>3, <2>4, <2>5
<1> QED
  BY <1>6, <1>7

LEMMA RetryKeeps ==
  ASSUME IInv, Retry
  PROVE  IInv'
<1> USE DEF IInv, Retry
<1>1. TypeOK' /\ MediaOK'
  BY BoundAssumption DEF TypeOK, MediaOK, Portable, Progress, Searching, GivesUp
<1>2. Progress'
  BY BoundAssumption DEF Progress, Searching, GivesUp, TypeOK
<1>3. Chosen' /\ SlotOK'
  BY DEF Chosen, Settled, Optical, FromSlot, Sealed, OwnData, EspOfRoot, Progress, Searching, SlotOK
<1>4. Hunted'
  <2>1. \A q : Findable(q)' <=> Findable(q)
    BY DEF Findable, Reachable, Matches
  <2> QED
    BY <2>1 DEF Hunted, OnlyStuck, Ended
<1> QED
  BY <1>1, <1>2, <1>3, <1>4

LEMMA ReleaseKeeps ==
  ASSUME IInv, ReleaseUnrelatedData
  PROVE  IInv'
<1> USE DEF IInv
<1>1. UNCHANGED <<cfg, seen, since, left, mapped, root, tries, stuck>> /\ pc = "release"
  BY DEF ReleaseUnrelatedData
<1>2. /\ ~mnt.var /\ mnt.esp = "none" /\ root.data \in Volumes
      /\ Vol[root.data].on = "none" \/ FromSlot \/ Optical
  BY <1>1 DEF Progress, Chosen, Settled, Optical, FromSlot
<1>3. CASE media.data = "none" \/ KeepsData
  <2>1. pc' = "mount" /\ UNCHANGED <<media, mnt, faults>>
    BY <1>3 DEF ReleaseUnrelatedData
  <2>2. TypeOK' /\ MediaOK'
    BY <1>1, <2>1 DEF TypeOK, MediaOK, Portable
  <2>3. Progress'
    BY <1>1, <2>1 DEF Progress, Searching
  <2>4. Chosen'
    BY <1>1, <1>2, <1>3, <2>1
       DEF Chosen, Settled, Optical, KeepsData, FromSlot, Portable, Sealed, OwnData, EspOfRoot
  <2>5. SlotOK' /\ Hunted'
    BY <1>1, <2>1 DEF SlotOK, Settled, FromSlot, Slots, SlotPair, Matches, Hunted, OnlyStuck, Ended
  <2> QED
    BY <2>2, <2>3, <2>4, <2>5
<1>4. CASE ~(media.data = "none" \/ KeepsData)
  <2>1. PICK failed \in AtMostOne({media.data}) :
          /\ MayFail(failed)
          /\ IF failed = {}
             THEN /\ media' = [media EXCEPT !.data = "none", !.slots = {}]
                  /\ mnt' = [mnt EXCEPT !.data = "none"]
                  /\ pc' = "mount"
             ELSE pc' = "rescue" /\ UNCHANGED <<media, mnt>>
    BY <1>4 DEF ReleaseUnrelatedData
  <2>2. /\ faults' \in 0..MaxFaults /\ faults <= faults' /\ faults \in Nat
        /\ faults' = faults <=> failed = {}
        /\ OnlyStuck' => failed = {}
    BY <1>1, <2>1, CallFaults DEF TypeOK
  <2>3. CASE failed = {}
    <3>1. /\ pc' = "mount" /\ media'.data = "none" /\ media'.slots = {}
          /\ media'.iso = media.iso /\ media'.isoFiles = media.isoFiles
          /\ mnt'.var = mnt.var /\ mnt'.esp = mnt.esp
      BY <2>1, <2>3 DEF TypeOK
    <3>2. TypeOK'
      BY <1>1, <2>1, <2>2, <2>3 DEF TypeOK
    <3>3. MediaOK'
      BY <1>1, <3>1 DEF MediaOK, Portable
    <3>4. Progress'
      BY <1>1, <1>2, <3>1 DEF Progress, Searching
    <3>5. Chosen'
      BY <1>1, <1>2, <1>4, <3>1 DEF KeepsData, Chosen, Settled, Optical, FromSlot, Sealed, OwnData, EspOfRoot
    <3>6. SlotOK' /\ Hunted'
      BY <1>1, <3>1 DEF SlotOK, FromSlot, Hunted, OnlyStuck, Ended
    <3> QED
      BY <3>2, <3>3, <3>4, <3>5, <3>6
  <2>4. CASE failed # {}
    <3>1. pc' = "rescue" /\ UNCHANGED <<media, mnt>> /\ faults' # 0
      BY <2>1, <2>2, <2>4
    <3>2. TypeOK' /\ MediaOK'
      BY <1>1, <2>2, <3>1 DEF TypeOK, MediaOK, Portable
    <3>3. Progress' /\ SlotOK' /\ Hunted'
      BY <1>1, <1>2, <2>2, <2>4, <3>1 DEF Progress, Searching, SlotOK, Settled, Hunted
    <3>4. Chosen'
      BY <1>1, <1>2, <3>1 DEF Chosen, Settled, Optical, FromSlot, Sealed, OwnData, EspOfRoot
    <3> QED
      BY <3>2, <3>3, <3>4
  <2> QED
    BY <2>3, <2>4
<1> QED
  BY <1>3, <1>4

LEMMA MountKeeps ==
  ASSUME IInv, MountInstalled \/ MountLive
  PROVE  IInv'
<1> USE DEF IInv
<1>1. /\ UNCHANGED <<cfg, seen, media, since, left, mapped, root, tries, stuck>>
      /\ pc = "mount" /\ pc' = "esp"
  BY DEF MountInstalled, MountLive
<1>2. /\ mnt.esp = "none" /\ root.data \in Volumes
      /\ Vol[root.data].on = "none" \/ FromSlot \/ Optical
  BY <1>1 DEF Progress, Chosen, Settled, Optical, FromSlot
<1>3. /\ mnt'.esp = mnt.esp
      /\ mnt' \in [data : {"none", "sysdata", "var", "data"}, var : BOOLEAN,
                   iso : {"none", "isomedia", "iso"}, esp : Partitions \cup {"none"}]
      /\ mnt'.var => mnt.var \/ Installed
  BY DEF MountInstalled, MountLive, TypeOK
<1>4. /\ faults' \in 0..MaxFaults /\ faults <= faults' /\ faults \in Nat
      /\ OnlyStuck' => OnlyStuck
  <2>1. CASE MountInstalled
    BY <1>1, <2>1 DEF MountInstalled, TypeOK, OnlyStuck
  <2>2. CASE MountLive
    <3>1. PICK failed \in AtMostOne({media.data}) : MayFail(failed)
      BY <2>2 DEF MountLive
    <3> QED
      BY <1>1, <3>1, CallFaults DEF TypeOK
  <2> QED
    BY <2>1, <2>2
<1>5. TypeOK' /\ MediaOK'
  BY <1>1, <1>3, <1>4 DEF TypeOK, MediaOK, Portable
<1>6. Progress'
  BY <1>1, <1>2, <1>3 DEF Progress, Searching
<1>7. Chosen'
  <2>1. OwnData'
    <3>1. CASE mnt.var
      BY <1>1, <3>1 DEF Progress
    <3>2. CASE Installed
      BY <1>1, <3>2 DEF Installed, Chosen, Settled, Optical, KeepsData, FromSlot, MediaOK, FilesOn,
                        OwnData, Portable
    <3>3. CASE ~mnt.var /\ ~Installed
      BY <1>3, <3>3 DEF OwnData
    <3> QED
      BY <3>1, <3>2, <3>3
  <2>2. Sealed' /\ EspOfRoot'
    BY <1>1, <1>2, <1>3 DEF Chosen, Sealed, EspOfRoot
  <2>3. mnt'.var => media.data # "none"
    BY <1>3 DEF Chosen, Installed
  <2> QED
    BY <1>1, <1>2, <2>1, <2>2, <2>3 DEF Chosen, Settled, Optical, KeepsData, FromSlot, Portable
<1>8. SlotOK' /\ Hunted'
  BY <1>1, <1>4 DEF SlotOK, Settled, FromSlot, Slots, SlotPair, Matches, Hunted, Ended
<1> QED
  BY <1>5, <1>6, <1>7, <1>8

LEMMA EspKeeps ==
  ASSUME IInv, MountESP
  PROVE  IInv'
<1> USE DEF IInv
<1> DEFINE esps == {p \in OfKind(seen, "esp") : Vol[p].disk = RootDisk}
<1>1. /\ UNCHANGED <<cfg, seen, media, since, left, mapped, root, tries, faults, stuck>>
      /\ pc = "esp" /\ pc' = "switch"
      /\ mnt' = [mnt EXCEPT !.esp = IF Optical THEN media.iso
                                    ELSE IF esps # {} THEN First(esps) ELSE @]
  BY DEF MountESP
<1>2. /\ mnt.esp = "none" /\ root.data \in Volumes
      /\ Vol[root.data].on = "none" \/ FromSlot \/ Optical
  BY <1>1 DEF Progress, Chosen, Settled, Optical, FromSlot
<1>3. /\ mnt'.esp \in Partitions \cup {"none"}
      /\ mnt'.esp # "none" => Vol[mnt'.esp].disk = Vol[root.data].disk
  <2>1. mnt'.esp = IF Optical THEN media.iso ELSE IF esps # {} THEN First(esps) ELSE mnt.esp
    BY <1>1 DEF TypeOK
  <2>2. CASE Optical
    <3>1. media.iso \in Partitions /\ Vol[root.data].on = media.iso /\ media.iso # "none"
      BY <2>2 DEF Optical, MediaOK, FilesOn
    <3> QED
      BY <1>2, <2>1, <2>2, <3>1, FileAssumption
  <2>3. CASE ~Optical /\ esps # {}
    <3>1. First(esps) \in esps
      <4>1. esps \in SUBSET Volumes
        BY DEF OfKind, TypeOK, Partitions
      <4> QED
        BY <2>3, <4>1, FirstIsOne
    <3>2. FromSlot => media.data \in Volumes /\ Vol[root.data].on = media.data
      BY DEF FromSlot, MediaOK, FilesOn, Partitions
    <3>3. RootDisk = Vol[root.data].disk
      BY <1>2, <2>3, <3>2, FileAssumption DEF RootDisk
    <3> QED
      BY <2>1, <2>3, <3>1, <3>3 DEF OfKind, TypeOK
  <2>4. CASE ~Optical /\ esps = {}
    BY <1>2, <2>1, <2>4
  <2> QED
    BY <2>2, <2>3, <2>4
<1>4. mnt'.var = mnt.var
  BY <1>1 DEF TypeOK
<1>5. TypeOK' /\ MediaOK'
  <2>1. mnt' \in [data : {"none", "sysdata", "var", "data"}, var : BOOLEAN,
                 iso : {"none", "isomedia", "iso"}, esp : Partitions \cup {"none"}]
    <3>1. mnt' = [mnt EXCEPT !.esp = mnt'.esp]
      BY <1>1 DEF TypeOK
    <3> QED
      BY <1>3, <3>1 DEF TypeOK
  <2> QED
    BY <1>1, <2>1 DEF TypeOK, MediaOK, Portable
<1>6. Progress'
  BY <1>1, <1>4 DEF Progress, Searching
<1>7. Chosen'
  <2>1. mnt.var /\ ~Portable => Vol[media.data].disk = Vol[root.data].disk
    <3>1. mnt.var /\ ~Portable =>
            media.data # "none" /\ Vol[root.data].on = media.data
      BY DEF Chosen, OwnData
    <3> QED
      BY <1>2, <3>1, FileAssumption
  <2>2. OwnData' /\ Sealed' /\ EspOfRoot'
    BY <1>1, <1>3, <1>4, <2>1 DEF Chosen, OwnData, Sealed, EspOfRoot, Portable
  <2> QED
    BY <1>1, <1>4, <2>2 DEF Chosen, Settled, Optical, KeepsData, FromSlot, Portable
<1>8. SlotOK' /\ Hunted'
  BY <1>1 DEF SlotOK, Settled, FromSlot, Slots, SlotPair, Matches, Hunted, OnlyStuck, Ended
<1> QED
  BY <1>5, <1>6, <1>7, <1>8

LEMMA EndKeeps ==
  ASSUME IInv, SwitchRoot \/ StepFails \/ Rescue
  PROVE  IInv'
<1> USE DEF IInv
<1>1. UNCHANGED <<cfg, seen, media, since, left, mapped, root, mnt, tries, stuck>>
  BY DEF SwitchRoot, StepFails, Rescue
<1>2. /\ \/ pc = "switch" /\ pc' = "up" /\ faults' = faults
         \/ pc \in {"mount", "switch"} /\ pc' = "rescue" /\ faults' = faults + 1
         \/ pc = "rescue" /\ pc' \in {"shell", "off"} /\ faults' = faults
      /\ faults' \in 0..MaxFaults /\ faults \in Nat /\ stuck \in 0..faults
  BY BoundAssumption DEF SwitchRoot, StepFails, Rescue, TypeOK
<1>3. TypeOK' /\ MediaOK'
  BY <1>1, <1>2 DEF TypeOK, MediaOK, Portable
<1>4. Progress'
  BY <1>1, <1>2 DEF Progress, Searching
<1>5. Chosen'
  <2>1. OwnData' /\ Sealed' /\ EspOfRoot'
    BY <1>1 DEF Chosen, OwnData, Sealed, EspOfRoot, Portable
  <2> QED
    BY <1>1, <1>2, <2>1 DEF Chosen, Settled, Optical, KeepsData, FromSlot, Portable
<1>6. SlotOK'
  BY <1>1, <1>2 DEF SlotOK, Settled, FromSlot, Slots, SlotPair, Matches
<1>7. Hunted'
  <2>1. \A q : Findable(q)' <=> Findable(q)
    BY <1>1 DEF Findable, Reachable, Matches
  <2>2. OnlyStuck' => OnlyStuck /\ faults' = faults
    BY <1>1, <1>2 DEF OnlyStuck
  <2> QED
    BY <1>1, <1>2, <2>1, <2>2 DEF Hunted, Ended
<1> QED
  BY <1>3, <1>4, <1>5, <1>6, <1>7

LEMMA NextKeeps == IInv /\ [Next]_vars => IInv'
<1> SUFFICES ASSUME IInv, [Next]_vars PROVE IInv'
  OBVIOUS
<1>1. CASE UNCHANGED vars
  BY <1>1 DEF vars, IInv, TypeOK, MediaOK, Portable, Progress, Pairs, Candidates, Live,
              PortablePart, SamePairOrigin, Chosen, Settled, Optical, OnlyStuck, Sealed, OwnData, EspOfRoot, KeepsData,
              FromSlot, SlotOK, Slots, SlotPair, Matches, Hunted, Findable, Reachable
<1>2. CASE Step
  BY <1>2, FindDataKeeps, FindISOKeeps, ListPairsKeeps, TryPairKeeps, SelectUnlockedKeeps,
     RetryKeeps, ReleaseKeeps, MountKeeps, EspKeeps, EndKeeps DEF Step
<1>3. CASE \E d \in Disks : Appear(d)
  BY <1>3, AppearKeeps
<1> QED
  BY <1>1, <1>2, <1>3 DEF Next

-----------------------------------------------------------------------------
(* The theorems. *)

(* BootInvariant: the inductive invariant holds on every machine. *)
THEOREM BootInvariant == Spec => []IInv
  BY InitHolds, NextKeeps, PTL DEF Spec

(* BootTypes: every reachable state of a boot is well typed. *)
THEOREM BootTypes == Spec => []TypeOK
<1>1. IInv => TypeOK
  BY DEF IInv
<1> QED
  BY <1>1, BootInvariant, PTL

(* RootIsSealed: a locked device never mounts a root other than a mapping  *)
(* of two halves of one release from one place, whatever disks it has.     *)
THEOREM RootIsSealed == Spec => []Sealed
<1>1. IInv => Sealed
  BY DEF IInv, Chosen
<1> QED
  BY <1>1, BootInvariant, PTL

(* DataIsOwn: the partition that becomes a writable /var is the one the    *)
(* root came from, unless the boot is portable.                            *)
THEOREM DataIsOwn == Spec => []OwnData
<1>1. IInv => OwnData
  BY DEF IInv, Chosen
<1> QED
  BY <1>1, BootInvariant, PTL

(* EspIsOfRoot: the ESP that MountESP mounts lies on the disk of the root, *)
(* also of one that is found through its slot's data partition, and an     *)
(* installed system's lies on the disk of its /var.                        *)
THEOREM EspIsOfRoot == Spec => []EspOfRoot
<1>1. IInv => EspOfRoot
  BY DEF IInv, Chosen
<1> QED
  BY <1>1, BootInvariant, PTL

(* SlotIsSigned: without a fault the slot the hash names is booted, on an  *)
(* unlocked device too.                                                    *)
THEOREM SlotIsSigned == Spec => []SignedSlot
<1>1. IInv => SignedSlot
  BY DEF IInv, SlotOK, SignedSlot, Settled, Slots, SlotPair
<1> QED
  BY <1>1, BootInvariant, PTL

(* RootIsFound: a boot that gives up with no fault, or none but one close  *)
(* of a mapping that failed, had nothing to find, for any number of tries  *)
(* and any order in which the disks come up.                               *)
THEOREM RootIsFound == Spec => []FindsRoot
<1>1. IInv => FindsRoot
  BY DEF IInv, Hunted, OnlyStuck, FindsRoot, Ended, AllPairs
<1> QED
  BY <1>1, BootInvariant, PTL

(* RightPairFirst: before the right pair of image files, only pairs that   *)
(* tree and size do not tell from it are mapped, on every machine.         *)
THEOREM RightPairFirst == Spec => RightFirst
<1> DEFINE Moved == pc = "pairs" /\ pc' = "pairs" /\ left' # left /\ faults' = faults
<1>1. ASSUME IInv, Next, Moved, NEW q \in left, Matches(q), Vol[q[1]].on # "none",
             NEW p \in left \ left'
      PROVE  Vol[p[2]].rel = cfg.hash /\ SizeFits(p[1], p[2])
  <2>1. TryPair
    BY <1>1 DEF Next, Step, FindData, FindISO, ListPairs, SelectUnlocked, Retry,
                ReleaseUnrelatedData, MountInstalled, MountLive, MountESP, SwitchRoot,
                StepFails, Rescue, Appear
  <2>2. left \subseteq Pairs /\ MediaOK /\ TypeOK /\ cfg.hash # None /\ cfg.hash \in Releases
    BY <1>1 DEF IInv, Progress, TypeOK
  <2>3. PICK failed \in AtMostOne({"clear", "open", "close"}) :
          LET r == Ranked(left)
              open == Close(mapped, "clear" \in failed)
          IN  /\ MayFail(failed)
              /\ left' = left \ {r}
              /\ IF open # NoPair \/ Vol[r[2]].rel = None \/ "open" \in failed
                 THEN mapped' = open /\ UNCHANGED <<pc, root>>
                 ELSE IF Matches(r)
                 THEN /\ mapped' = r
                      /\ root' = [data |-> r[1], hash |-> r[2]]
                      /\ pc' = "release"
                 ELSE mapped' = Close(r, "close" \in failed) /\ UNCHANGED <<pc, root>>
    BY <2>1 DEF TryPair
  <2>4. p = Ranked(left) /\ \A o \in left \ {p} : Before(p, o)
    BY <1>1, <2>2, <2>3, RankedIsFirst
  <2>5. failed = {}
    BY <1>1, <2>2, <2>3, CallFaults
  <2>6. Vol[p[2]].rel = None \/ ~Matches(p)
    BY <1>1, <2>3, <2>4, <2>5 DEF Close
  <2>7. p # q
    BY <1>1, <2>2, <2>6 DEF Matches
  <2>8. Score(q[1], q[2]) = 4
    <3>1. q[1] \in Volumes /\ Vol[q[1]].kind = "root"
      BY <1>1, <2>2, HalvesMatch DEF Pairs, OfKind
    <3>2. Vol[q[1]].bytes = SizeOf[cfg.hash]
      BY <1>1, <2>2, <3>1, SizeAssumption DEF Matches
    <3> QED
      BY <1>1, <2>2, <3>2 DEF Score, SizeFits, Matches
  <2>9. Score(p[1], p[2]) >= 4
    <3>1. Before(p, q) /\ Score(p[1], p[2]) \in 0..4
      BY <1>1, <2>4, <2>7 DEF Score
    <3> QED
      BY <2>8, <3>1 DEF Before
  <2> QED
    BY <2>9 DEF Score
<1>2. IInv /\ [Next]_vars =>
        [pc = "pairs" /\ pc' = "pairs" /\ left' # left /\ faults' = faults =>
           \A p \in left : Matches(p) /\ Vol[p[1]].on # "none" =>
             \A q \in left \ left' : Vol[q[2]].rel = cfg.hash /\ SizeFits(q[1], q[2])]_vars
  BY <1>1
<1> QED
  BY <1>2, BootInvariant, PTL DEF Spec, RightFirst
=============================================================================
