---------------------------- MODULE MCAtomUpdate ----------------------------
(* Instances of AtomUpdate for TLC. *)
EXTENDS AtomUpdate

(* Release 1 is the factory image; 2 is a kernel-only update of it, which *)
(* reuses its rootfs; 3 carries a rootfs of its own.                      *)
MCReleases == {1, 2, 3}
MCRootOf == [v \in MCReleases |-> IF v = 3 THEN 3 ELSE 1]

(* Every release its own rootfs. *)
MCOwnRoots == [v \in MCReleases |-> v]

=============================================================================
