---------------------------- MODULE MCEspTracks ----------------------------
(***************************************************************************)
(* Instances of EspTracks for TLC, and what the code says of the ESP that  *)
(* it does not keep.                                                       *)
(***************************************************************************)
EXTENDS EspTracks

(* Every release has its own rootfs. *)
MCRootOf == [v \in Releases |-> v]

(* FailedWasTried: "version %d did not start on this machine before, not   *)
(* retrying" (loader.go, StageLoader) is said of a loader that was handed  *)
(* control.  A restart of the daemon before the reboot, or a recovery      *)
(* staged after the loader, writes loader-failed for one that never was.   *)
FailedWasTried == loader.failed \in tried \cup {None}

(* UncommittedNotBootable: "Nothing is committed to the WAL unless every   *)
(* artifact is downloaded and verified, so a partial or tampered update    *)
(* never becomes bootable" (stage.go, Stage): what the loader starts from  *)
(* the active slot is a release that the WAL names.  A staging that starts *)
(* during the health checks replaces what the daemon goes on to promote,   *)
(* with its own firmware and its entry in the WAL still to come.           *)
UncommittedNotBootable ==
  used.faults = 0 /\ Bootable(active)
    => active.img[2] \in {wal.current, wal.pending, wal.lkg}
=============================================================================
