---------------------------- MODULE UpdateServer ----------------------------
(***************************************************************************)
(* The update server (cmd/updated): `updated serve` with its request       *)
(* handlers, download goroutines and startup check, and the separate       *)
(* `updated poll` process of the timer.  They share a status file under    *)
(* /run, the server's in-memory status (statusStore, one action per mutex  *)
(* section), and the staging lock (flock, never waited for).               *)
(*                                                                         *)
(* A manifest is its release number: two manifests of the same release     *)
(* have different digests and count as different releases here.  A status  *)
(* keeps the release only where the server uses it again.                  *)
(***************************************************************************)
EXTENDS Naturals, FiniteSets

CONSTANTS
  Releases,    \* the releases the feed may serve
  Factory,     \* the release the device runs
  None,        \* no release
  Checkers,    \* concurrent GET /check requests
  Downloads,   \* bound: download goroutines alive at a time
  Attempts     \* startupCheck: checks before it gives up, 0 to leave it out

ASSUME ReleasesAssumption ==
  Releases \subseteq Nat /\ Factory \in Nat /\ None \in Nat \ (Releases \cup {Factory})
ASSUME AttemptsAssumption == Attempts \in Nat
ASSUME ThreadAssumption ==
  {"startup", "timer", "loader", "rebooter", "nobody"}
     \cap (Checkers \cup Downloads) = {} /\ Checkers \cap Downloads = {}

VARIABLES
  feed,        \* the release the feed serves
  installed,   \* installedVersion: the WAL's current, or its pending when newer
  file,        \* the status file, on a tmpfs
  live,        \* statusStore.live
  advertised,  \* statusStore.advertised
  lock,        \* the holder of the staging lock
  thread,      \* the program counter and local status of each thread
  tries,       \* startupCheck: checks it has made
  staged       \* history: releases staged since the machine booted

store == <<live, advertised>>
device == <<installed, staged>>
vars == <<feed, installed, file, live, advertised, lock, thread, tries,
          staged>>

-----------------------------------------------------------------------------
Threads == Checkers \cup Downloads \cup {"startup", "timer", "loader", "rebooter"}

States == {"none", "idle", "available", "downloading", "ready", "error"}
Statuses == [state : States, release : Releases \cup {None}]
Status(state, release) == [state |-> state, release |-> release]
NoStatus == Status("none", None)
IdleStatus == Status("idle", None)
ErrorStatus == Status("error", None)

Points == {"idle", "check", "asked", "askedAgain", "published", "writing",
           "claimed", "verify", "commit", "ended", "loading",
           "recovery", "repairing", "locked", "rebooting"}
AtRest == [pc |-> "idle", st |-> NoStatus, got |-> None]

At(t, point) == thread[t].pc = point
Goto(t, point) == thread' = [thread EXCEPT ![t].pc = point]
GotoWith(t, point, st) ==
  thread' = [thread EXCEPT ![t].pc = point, ![t].st = st]
End(t) == thread' = [thread EXCEPT ![t] = AtRest]

LockUntried == TRUE  \* a mutant of LockFree: the answer of flock is ignored

LockFree == lock = "nobody"

LiveDownload == live.state = "downloading"

(* currentLocked: the running download, else the file, else idle. *)
Shown == CASE LiveDownload -> live
           [] file.state # "none" -> file
           [] OTHER -> IdleStatus

-----------------------------------------------------------------------------
(* A check of the feed against the WAL; a failure is worth a retry only    *)
(* when the network, not a signature, is to blame.                         *)
Checked == IF feed > installed THEN Status("available", feed) ELSE IdleStatus

Asks(t) ==
  /\ \/ GotoWith(t, "asked", Checked)
     \/ GotoWith(t, "asked", ErrorStatus)
     \/ t = "startup" /\ GotoWith(t, "askedAgain", ErrorStatus)
  /\ UNCHANGED <<feed, device, file, store, lock, tries>>

OverwritingPoll(st) ==  \* a mutant of PublishPoll: ready is not kept
  IF LiveDownload
  THEN {[answer |-> live, file |-> file, err |-> FALSE]}
  ELSE {[answer |-> st, file |-> st, err |-> FALSE],
        [answer |-> st, file |-> file, err |-> TRUE]}

(* publishPoll: a running download and a ready update are kept; writing    *)
(* the file may fail.                                                      *)
PublishPoll(st) ==
  CASE LiveDownload -> {[answer |-> live, file |-> file, err |-> FALSE]}
    [] ~LiveDownload /\ file.state = "ready" ->
         {[answer |-> file, file |-> file, err |-> FALSE]}
    [] OTHER -> {[answer |-> st, file |-> st, err |-> FALSE],
                 [answer |-> st, file |-> file, err |-> TRUE]}

(* GET /check: the check, publishPoll and advertise are three sections. *)
CheckAsks(c) == At(c, "idle") /\ Asks(c)

CheckPublishes(c) ==
  /\ At(c, "asked")
  /\ \E out \in PublishPoll(thread[c].st) :
       /\ file' = out.file
       /\ GotoWith(c, "published", IF out.err THEN ErrorStatus ELSE out.answer)
  /\ UNCHANGED <<feed, device, store, lock, tries>>

Advertise(st) ==
  advertised' = IF st.state = "available" THEN st ELSE NoStatus

CheckAdvertises(c) ==
  /\ At(c, "published")
  /\ Advertise(thread[c].st)
  /\ End(c)
  /\ UNCHANGED <<feed, device, file, live, lock, tries>>

(* GET /status *)
StatusAdvertises ==
  /\ Advertise(Shown)
  /\ UNCHANGED <<feed, device, file, live, lock, thread, tries>>

-----------------------------------------------------------------------------
(* POST /download: the token names the advertised manifest. *)
ClaimDownload(d, token) ==
  /\ At(d, "idle")
  /\ advertised = Status("available", token)
  /\ advertised' = NoStatus
  /\ live' = Status("downloading", token)
  /\ GotoWith(d, "claimed", Status("ready", token))
  /\ UNCHANGED <<feed, device, file, lock, tries>>

BusyIsReady(st) == st  \* a mutant of Busy: a refused staging counts as done

(* The status a download ends with when the lock is taken. *)
Busy(st) == Status("downloading", st.release)

StageUnlocked(d) ==  \* a mutant of StageLocks: the lock is not tried
  /\ At(d, "claimed")
  /\ lock' = d
  /\ Goto(d, "verify")
  /\ UNCHANGED <<feed, device, file, store, tries>>

StageLocks(d) ==
  /\ At(d, "claimed")
  /\ IF LockFree
     THEN lock' = d /\ Goto(d, "verify")
     ELSE GotoWith(d, "ended", Busy(thread[d].st)) /\ UNCHANGED lock
  /\ UNCHANGED <<feed, device, file, store, tries>>

StageAnyManifest(d) ==  \* a mutant of StageVerifies: no digest is expected
  /\ At(d, "verify")
  /\ thread' = [thread EXCEPT ![d].pc = "commit", ![d].got = feed]
  /\ UNCHANGED <<feed, device, file, store, lock, tries>>

(* fetchVerifiedManifest: the manifest of now has the digest checked then. *)
StageVerifies(d) ==
  /\ At(d, "verify")
  /\ feed = thread[d].st.release
  /\ thread' = [thread EXCEPT ![d].pc = "commit", ![d].got = feed]
  /\ UNCHANGED <<feed, device, file, store, lock, tries>>

(* The candidate enters the WAL; releaseStageLock runs as stage returns. *)
StageCommits(d) ==
  /\ At(d, "commit")
  /\ installed' = thread[d].got
  /\ staged' = staged \cup {thread[d].got}
  /\ lock' = "nobody"
  /\ Goto(d, "ended")
  /\ UNCHANGED <<feed, file, store, tries>>

(* stage returns an error: a changed manifest, a refusal, a failed fetch.  *)
(* The release of an "error" is not used again and is left out.            *)
StageFails(d) ==
  /\ thread[d].pc \in {"verify", "commit"}
  /\ lock' = "nobody"
  /\ GotoWith(d, "ended", ErrorStatus)
  /\ UNCHANGED <<feed, device, file, store, tries>>

KeepLive(d) ==  \* a mutant of Complete: live is not reset
  /\ At(d, "ended")
  /\ file' \in {thread[d].st, file}
  /\ End(d)
  /\ UNCHANGED <<feed, device, store, lock, tries>>

(* complete: the error of writeState is dropped. *)
Complete(d) ==
  /\ At(d, "ended")
  /\ file' \in {thread[d].st, file}
  /\ live' = NoStatus
  /\ End(d)
  /\ UNCHANGED <<feed, device, advertised, lock, tries>>

-----------------------------------------------------------------------------
(* POST /loader/update and the two automatic stagings of startupCheck hold *)
(* the same lock; what they write is not a candidate of this module.       *)
LoaderLocks ==
  /\ At("loader", "idle")
  /\ LockFree
  /\ lock' = "loader"
  /\ Goto("loader", "loading")
  /\ UNCHANGED <<feed, device, file, store, tries>>

LoaderUnlocks ==
  /\ At("loader", "loading")
  /\ lock' = "nobody"
  /\ End("loader")
  /\ UNCHANGED <<feed, device, file, store, tries>>

(* startupCheck *)
MoreAttempts == tries + 1 < Attempts

StartupAsks ==
  /\ At("startup", "check")
  /\ Asks("startup")

StartupPublishes ==
  /\ thread["startup"].pc \in {"asked", "askedAgain"}
  /\ \E out \in PublishPoll(thread["startup"].st) :
       /\ file' = out.file
       /\ IF out.err \/ At("startup", "asked")
          THEN Goto("startup", "loading") /\ UNCHANGED tries
          ELSE /\ tries' = tries + 1
               /\ IF MoreAttempts THEN Goto("startup", "check")
                  ELSE End("startup")
  /\ UNCHANGED <<feed, device, store, lock>>

(* maybeAutoStageLoader, then maybeStageRecovery: each takes the lock, or   *)
(* gives up, and only after a check that found nothing to install.         *)
StartupLocks(from, to, after) ==
  /\ At("startup", from)
  /\ \/ /\ thread["startup"].st.state = "idle"
        /\ LockFree
        /\ lock' = "startup"
        /\ Goto("startup", to)
     \/ Goto("startup", after) /\ UNCHANGED lock
  /\ UNCHANGED <<feed, device, file, store, tries>>

StartupUnlocks ==
  /\ lock = "startup"
  /\ lock' = "nobody"
  /\ IF At("startup", "verify") THEN Goto("startup", "recovery") ELSE End("startup")
  /\ UNCHANGED <<feed, device, file, store, tries>>

MaybeAutoStageLoader == StartupLocks("loading", "verify", "recovery")
MaybeStageRecovery == StartupLocks("recovery", "repairing", "idle")

-----------------------------------------------------------------------------
(* updated poll, fired by the timer: a process with a statusStore of its   *)
(* own, which shares neither live nor the mutex: reading the file for      *)
(* "ready" and writing it are two steps of it.                             *)
TimerAsks == At("timer", "idle") /\ Asks("timer")

TimerReads ==
  /\ At("timer", "asked")
  /\ IF file.state = "ready" THEN End("timer") ELSE Goto("timer", "writing")
  /\ UNCHANGED <<feed, device, file, store, lock, tries>>

TimerWrites ==
  /\ At("timer", "writing")
  /\ file' = thread["timer"].st
  /\ End("timer")
  /\ UNCHANGED <<feed, device, store, lock, tries>>

TimerCannotWrite ==
  /\ At("timer", "writing")
  /\ End("timer")
  /\ UNCHANGED <<feed, device, file, store, lock, tries>>

(* POST /reboot: claimReboot keeps the lock until the machine is down. *)
RebootLocks ==
  /\ At("rebooter", "idle")
  /\ LockFree
  /\ lock' = "rebooter"
  /\ Goto("rebooter", "locked")
  /\ UNCHANGED <<feed, device, file, store, tries>>

RebootAccepted ==
  /\ At("rebooter", "locked")
  /\ Shown.state = "ready"
  /\ Goto("rebooter", "rebooting")
  /\ UNCHANGED <<feed, device, file, store, lock, tries>>

LeakLock ==  \* a mutant of RebootUnlocks: the lock outlives a failed reboot
  /\ \/ At("rebooter", "locked") /\ Shown.state # "ready"
     \/ At("rebooter", "rebooting")
  /\ End("rebooter")
  /\ UNCHANGED <<feed, device, file, store, lock, tries>>

(* Nothing is ready, or the reboot system call fails. *)
RebootUnlocks ==
  /\ \/ At("rebooter", "locked") /\ Shown.state # "ready"
     \/ At("rebooter", "rebooting")
  /\ lock' = "nobody"
  /\ End("rebooter")
  /\ UNCHANGED <<feed, device, file, store, tries>>

-----------------------------------------------------------------------------
(* The server starts with startupCheck; flock dies with its process. *)
ServerThreads(t) ==
  IF t = "startup" /\ Attempts > 0 THEN [AtRest EXCEPT !.pc = "check"] ELSE AtRest

ServerRestarts ==
  /\ thread' = [t \in Threads |-> IF t = "timer" THEN thread[t] ELSE ServerThreads(t)]
  /\ live' = NoStatus
  /\ advertised' = NoStatus
  /\ lock' = "nobody"
  /\ tries' = 0
  /\ UNCHANGED <<feed, device, file>>

(* A reboot empties /run; the boot may have rolled the candidate back. *)
MachineBoots ==
  /\ thread' = [t \in Threads |-> ServerThreads(t)]
  /\ live' = NoStatus
  /\ advertised' = NoStatus
  /\ lock' = "nobody"
  /\ tries' = 0
  /\ file' = NoStatus
  /\ staged' = {}
  /\ installed' \in {installed, Factory}
  /\ UNCHANGED feed

FeedPublishes(r) ==
  /\ feed' = r
  /\ UNCHANGED <<device, file, store, lock, thread, tries>>

-----------------------------------------------------------------------------
Init ==
  /\ feed \in Releases
  /\ installed = Factory
  /\ file = NoStatus
  /\ live = NoStatus
  /\ advertised = NoStatus
  /\ lock = "nobody"
  /\ thread = [t \in Threads |-> ServerThreads(t)]
  /\ tries = 0
  /\ staged = {}

Check(c) == CheckAsks(c) \/ CheckPublishes(c) \/ CheckAdvertises(c)
Download(d) == \/ StageLocks(d) \/ StageVerifies(d) \/ StageCommits(d)
               \/ StageFails(d) \/ Complete(d)
Startup == \/ StartupAsks \/ StartupPublishes \/ MaybeAutoStageLoader
           \/ MaybeStageRecovery \/ StartupUnlocks
Timer == TimerAsks \/ TimerReads \/ TimerWrites \/ TimerCannotWrite
Loader == LoaderLocks \/ LoaderUnlocks
Reboot == RebootLocks \/ RebootAccepted \/ RebootUnlocks

Next ==
  \/ \E c \in Checkers : Check(c)
  \/ \E d \in Downloads : Download(d) \/ \E r \in Releases : ClaimDownload(d, r)
  \/ StatusAdvertises
  \/ Startup \/ Timer \/ Loader \/ Reboot
  \/ ServerRestarts \/ MachineBoots
  \/ \E r \in Releases : FeedPublishes(r)

Spec == Init /\ [][Next]_vars

(* Every context of a download has a timeout and every handler returns;    *)
(* the timer fires again and again, and its writes to a tmpfs do not fail  *)
(* for ever.  No client owes a request.                                    *)
FairSpec ==
  /\ Spec
  /\ \A d \in Downloads : WF_vars(Download(d))
  /\ WF_vars(Startup)
  /\ WF_vars(Timer)
  /\ SF_vars(TimerWrites)
  /\ WF_vars(LoaderUnlocks)
  /\ WF_vars(RebootAccepted \/ RebootUnlocks)

-----------------------------------------------------------------------------
(* Critical: the thread is in a section that the staging lock guards.      *)
Critical(t) ==
  \/ t \in Downloads /\ thread[t].pc \in {"verify", "commit"}
  \/ t = "loader" /\ thread[t].pc = "loading"
  \/ t = "startup" /\ thread[t].pc \in {"verify", "repairing"}
  \/ t = "rebooter" /\ thread[t].pc \in {"locked", "rebooting"}

(* LockHeld: the staging lock is held exactly by the thread that is in     *)
(* such a section, so no two are in one together and none leaves its       *)
(* section without giving the lock back.                                   *)
LockHeld == \A t \in Threads : Critical(t) <=> lock = t

Types ==
  /\ feed \in Releases
  /\ installed \in Releases \cup {Factory}
  /\ {file, live, advertised} \subseteq Statuses
  /\ lock \in Threads \cup {"nobody"}
  /\ thread \in [Threads -> [pc : Points, st : Statuses, got : Releases \cup {None}]]
  /\ tries \in 0..Attempts
  /\ staged \subseteq Releases

(* TypeOK: the variables stay within their types, and the staging lock is  *)
(* held by the one thread that is in a section it guards: acquireStageLock *)
(* and its callers, through refusals, failures, crashes and boots.         *)
TypeOK == Types /\ LockHeld

(* ReadyIsStaged: the status "ready" names a release that was staged whole *)
(* since the machine booted, whatever polls, restarts and refused          *)
(* downloads wrote before or after.                                        *)
ReadyIsStaged == file.state = "ready" => file.release \in staged

(* StagedWasConsented: what is staged is the release of a download a       *)
(* client asked for, though the feed may have changed between the check,   *)
(* the answer and the download.                                            *)
StagedWasConsented ==
  [][staged' \subseteq staged \cup {thread[d].st.release : d \in Downloads}]_vars

(* QuietReboot: from the moment a reboot is accepted no OS candidate is    *)
(* committed to the WAL.  The stagings of loader and recovery, which leave *)
(* no trace in this module, hold the lock too: LockHeld keeps them out.    *)
QuietReboot == [][At("rebooter", "rebooting") => staged' \subseteq staged]_vars

(* ReadyKept: a check of the server never takes an offered reboot away;    *)
(* only the other process, whose read and write of the file a finishing    *)
(* download can fall between, and a boot of the machine do.                *)
ReadyKept ==
  [][file.state = "ready" /\ file'.state \in {"none", "idle", "available"}
     => At("timer", "writing") \/ staged' = {}]_vars

(* DownloadSettles: what the user is shown never stays at "downloading":   *)
(* a download ends, and the next poll replaces the status of a refused one.*)
DownloadSettles == Shown.state = "downloading" ~> Shown.state # "downloading"

(* LockReturns: the staging lock is free again and again: no failed        *)
(* staging, failed reboot or dead server keeps updates from being staged.  *)
LockReturns == []<>LockFree
=============================================================================
