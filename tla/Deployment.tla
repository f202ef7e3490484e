----------------------------- MODULE Deployment -----------------------------
(***************************************************************************)
(* The rootfs and kernelcache track of deployment.json, the write-ahead    *)
(* log of internal/deployment: one record and the transitions the daemon   *)
(* applies to it.  Everything here is a pure operator on that record; the  *)
(* modules that extend this one decide when the record is written.         *)
(*                                                                         *)
(* A release "vN" is the number N: kcOf derives the kernelcache version    *)
(* from the label, so the two are coupled 1:1, and the empty string is     *)
(* None.  RootOf[v] is the dm-verity root hash of release v; two releases  *)
(* may share one (a kernel-only update).                                   *)
(***************************************************************************)
EXTENDS Naturals

CONSTANTS
  Releases,         \* the releases that can be installed or published
  RootOf,           \* the dm-verity root hash of each release
  MaxAttempts,      \* rootfs.max_attempts (New: 3)
  StableThreshold   \* kernelcache.stable_threshold (New: 3)

None == 0

ASSUME ReleasesAssumption == Releases \subseteq Nat \ {None}
ASSUME RootOfAssumption == RootOf \in [Releases -> Nat \ {None}]
ASSUME BudgetAssumption ==
  /\ MaxAttempts \in Nat \ {0}
  /\ StableThreshold \in Nat \ {0}

Roots == {RootOf[v] : v \in Releases}

(* RootFS, Kernelcache and AntiRollback, the fields the rootfs track uses. *)
Wal == [current     : Releases,
        pending     : Releases \cup {None},
        pendingHash : Roots \cup {None},
        rollback    : Releases \cup {None},
        attempts    : Nat,
        lkg         : Releases \cup {None},
        kcCurrent   : Releases,
        kcPending   : Releases \cup {None},
        state       : {"stable", "updating"},
        stableBoots : Nat,
        counter     : Releases \cup {None}]

(* A fresh WAL: the installed image is its own last_known_good. *)
New(v) == [current |-> v, pending |-> None, pendingHash |-> None,
           rollback |-> None, attempts |-> 0, lkg |-> v,
           kcCurrent |-> v, kcPending |-> None, state |-> "stable",
           stableBoots |-> 0, counter |-> None]

HasPending(d) == d.pending # None

(* A candidate is recorded and its boot budget armed; current stays. *)
Deploy(d, v) ==
  [d EXCEPT !.pending = v, !.attempts = MaxAttempts, !.kcPending = v,
            !.state = "updating", !.stableBoots = 0]

(* What stage saves: Deploy plus the verity hash of the candidate. *)
StagedDeploy(d, v) == [Deploy(d, v) EXCEPT !.pendingHash = RootOf[v]]

Promote(d) ==
  [d EXCEPT !.lkg = d.current, !.pending = None, !.attempts = 0,
            !.kcPending = None, !.stableBoots = 0, !.state = "stable",
            !.counter = d.kcCurrent]

(* The first good boot of a candidate makes it current. *)
SwitchToPending(d) ==
  IF d.current = d.pending THEN d
  ELSE [d EXCEPT !.rollback = d.current, !.current = d.pending,
                 !.kcCurrent = d.kcPending]

CountGoodBoot(d) ==
  [SwitchToPending(d) EXCEPT !.stableBoots = @ + 1, !.attempts = MaxAttempts]

ReachesThreshold(d) == CountGoodBoot(d).stableBoots >= StableThreshold

RecordGoodBoot(d) ==
  IF ReachesThreshold(d) THEN Promote(CountGoodBoot(d)) ELSE CountGoodBoot(d)

StayOnCurrent(d) == d.current  \* a mutant of RollbackTo

(* Back to last_known_good, else to the previous release, else stay. *)
RollbackTo(d) ==
  CASE d.lkg # None -> d.lkg
    [] d.lkg = None /\ d.rollback # None -> d.rollback
    [] OTHER -> d.current

RollbackRootfsOnly(d) ==  \* a mutant of Rollback: the kernelcache stays ahead
  [d EXCEPT !.current = RollbackTo(d), !.pending = None, !.attempts = 0,
            !.kcPending = None, !.stableBoots = 0, !.state = "stable"]

Rollback(d) ==
  [d EXCEPT !.current = RollbackTo(d), !.kcCurrent = RollbackTo(d),
            !.pending = None, !.attempts = 0, !.kcPending = None,
            !.stableBoots = 0, !.state = "stable"]

NeedsRecovery(d) == HasPending(d) /\ d.attempts = 0 /\ d.lkg = None

DecrementBootAttempt(d) ==
  IF d.attempts > 0 THEN [d EXCEPT !.attempts = @ - 1] ELSE d

-----------------------------------------------------------------------------
(* The ESP boot-state file. *)
BootStates == [target : {"active", "next", "recovery"}, trial : BOOLEAN, attempts : Nat]

ActiveState == [target |-> "active", trial |-> FALSE, attempts |-> 0]

(* writeDeploymentBootState: the boot-state that matches a WAL. *)
BootStateOf(d) ==
  CASE NeedsRecovery(d) ->
         [target |-> "recovery", trial |-> FALSE, attempts |-> 0]
    [] HasPending(d) /\ ~NeedsRecovery(d) ->
         [target |-> "next", trial |-> TRUE, attempts |-> d.attempts]
    [] OTHER -> ActiveState

ForgetSpentAttempts(d, b) == d  \* a mutant of ReconcileAttempts

(* BootSuccess on a boot that is not the candidate: the attempts the       *)
(* loader spent are read back from the boot-state, a loader that already   *)
(* fell back to active spends them all, and a spent budget rolls back.     *)
ReconcileAttempts(d, b) ==
  IF b.target = "active" THEN [d EXCEPT !.attempts = 0]
  ELSE IF b.target = "next" /\ b.trial /\ b.attempts <= d.attempts
       THEN [d EXCEPT !.attempts = b.attempts]
       ELSE DecrementBootAttempt(d)

SpentCandidateKept(d, b) ==  \* a mutant of RecordFailedBoot
  ReconcileAttempts([d EXCEPT !.stableBoots = 0], b)

RecordFailedBoot(d, b) ==
  LET r == ReconcileAttempts([d EXCEPT !.stableBoots = 0], b)
  IN  IF r.attempts = 0 THEN Rollback(r) ELSE r

HashConfirmed(d, v) ==  \* a mutant of IdentityConfirmed: the release is not compared
  v \in Releases /\ HasPending(d) /\ d.pendingHash = RootOf[v]

(* otad.BootSuccess's identity check: the signed command line of the       *)
(* running image names both the pending verity hash and the pending        *)
(* release.                                                                *)
IdentityConfirmed(d, v) ==
  /\ v \in Releases
  /\ d.pendingHash = RootOf[v]
  /\ d.pending = v

-----------------------------------------------------------------------------
(* The fields of one WAL agree: rootfs and kernelcache versions move       *)
(* together, and a counted good boot belongs to the version that is        *)
(* current, so promote never blesses a version other than the candidate.   *)
Coherent(d) ==
  /\ d.kcCurrent = d.current
  /\ d.kcPending = d.pending
  /\ d.state = "updating" <=> HasPending(d)
  /\ d.stableBoots > 0 => d.pending = d.current
  /\ d.attempts <= MaxAttempts
  /\ ~HasPending(d) => d.attempts = 0
=============================================================================
