---------------------------- MODULE MCInitramfs ----------------------------
(***************************************************************************)
(* An instance of Initramfs for TLC: an installed disk with two slots and  *)
(* a torn one, a removable disk with a portable root beside another root,   *)
(* another installation and an optical medium.                             *)
(***************************************************************************)
EXTENDS Initramfs

MCSizeOf == <<10, 20>>

V(kind, rel, disk, on, rank) ==
  [kind |-> kind, rel |-> rel, disk |-> disk, on |-> on, named |-> FALSE,
   atomvar |-> FALSE, rank |-> rank,
   bytes |-> IF kind = "root" THEN MCSizeOf[rel] ELSE 0]

(* Slot files are listed active, next, prev; partitions by device path.    *)
MCVol ==
  [n1 |-> V("esp", 0, "nvme", "none", 11),
   n2 |-> [V("data", 0, "nvme", "none", 12) EXCEPT !.atomvar = TRUE],
   active |-> V("root", 1, "nvme", "n2", 1),
   activeHash |-> V("hash", 1, "nvme", "n2", 4),
   next |-> V("root", 2, "nvme", "n2", 2),
   nextHash |-> V("hash", 2, "nvme", "n2", 5),
   prevHash |-> V("hash", 0, "nvme", "n2", 6),
   a1 |-> V("esp", 0, "sda", "none", 13),
   a2 |-> [V("root", 1, "sda", "none", 14) EXCEPT !.bytes = 20],
   a3 |-> [V("root", 2, "sda", "none", 15) EXCEPT !.named = TRUE, !.bytes = 30],
   a4 |-> [V("hash", 2, "sda", "none", 16) EXCEPT !.named = TRUE],
   c1 |-> [V("data", 0, "sdc", "none", 20) EXCEPT !.atomvar = TRUE],
   other |-> V("root", 2, "sdc", "c1", 1),
   otherHash |-> V("hash", 2, "sdc", "c1", 4),
   sr0 |-> V("optical", 0, "sr0", "none", 18),
   iso |-> V("root", 1, "sr0", "sr0", 21),
   isoHash |-> V("hash", 1, "sr0", "sr0", 22)]

=============================================================================
