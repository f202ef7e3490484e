------------------------------ MODULE EspTracks ------------------------------
(***************************************************************************)
(* Three updates share one ESP: the OS candidate and the loader candidate, *)
(* which both use the kernelcache-next slot and the boot-state, and the    *)
(* recovery slot.  Two processes work on it without a common lock: the     *)
(* update server, whose staging lock admits one staging at a time, and the *)
(* daemon's BootSuccess.  Each may be cut at any step.                     *)
(*                                                                         *)
(* Every step is one file replaced or removed, or one load or save of the  *)
(* WAL.  AtomUpdate has the OS update file by file; here the kernelcache   *)
(* pair stands for its four files and is promoted in one step.  Release v  *)
(* carries the OS v, the loader v and the recovery v.                      *)
(***************************************************************************)
EXTENDS Deployment

CONSTANTS
  Factory,      \* the release the device was provisioned with
  Healthy,      \* the releases whose health gate passes
  Starting,     \* the loaders that start on this machine
  Overlap,      \* an operation may start while the other process is in one
  MaxStagings,  \* bound: stagings
  MaxFaults,    \* bound: operations cut short
  MaxReruns     \* bound: restarts of the daemon within a session

ASSUME FactoryAssumption == Factory \in Releases /\ Factory \in Healthy
ASSUME BoundAssumption ==
  Overlap \in BOOLEAN /\ {MaxStagings, MaxFaults, MaxReruns} \subseteq Nat

VARIABLES
  wal,      \* deployment.json
  boot,     \* the boot-state
  next,     \* kernelcache-next.efi and its signature
  active,   \* kernelcache-active.efi and its signature
  prev,     \* kernelcache-prev.efi and its signature
  loader,   \* the installed loader and the markers of its candidate
  rec,      \* the recovery slot and its backup: the version of each file
  mode,     \* what the machine is doing
  running,  \* the release that runs
  checked,  \* BootSuccess has run in this session
  op,       \* op[p]: the operation of process p and its next step
  used,     \* the bounded events that have happened
  proven,   \* history: releases that passed their health gate while running
  tried,    \* history: loaders that were handed control
  started,  \* history: loaders that started
  handed    \* history: times the candidate was handed control

esp == <<boot, next, active, prev, loader, rec>>
session == <<mode, running, checked>>
history == <<proven, tried, started, handed>>
vars == <<wal, boot, next, active, prev, loader, rec, mode, running, checked, op,
          used, proven, tried, started, handed>>

-----------------------------------------------------------------------------
(* What kernelcache-next.efi, or the boot loader's own file, can hold. *)
Nothing == <<"nothing", None>>
Corrupt == <<"corrupt", None>>
Os(v) == <<"os", v>>
Loader(v) == <<"loader", v>>
Images == {Nothing, Corrupt} \cup {Os(v) : v \in Releases}
                             \cup {Loader(v) : v \in Releases}
Empty == [img |-> Nothing, sig |-> Nothing]

Processes == {"server", "daemon"}

(* The step after each step, by operation.  prepare is the promotion of a  *)
(* running candidate that a staging begins with.                           *)
Promotion == [promote |-> "arm", arm |-> "save", save |-> "clean",
              clean |-> "cleanSig", cleanSig |-> "idle"]
After == [
  stable |-> [install |-> "forget", forget |-> "cancel", cancel |-> "cancelRan",
              cancelRan |-> "repair", restoreSig |-> "arm", forgetSig |-> "arm",
              arm |-> "clean", clean |-> "cleanSig", cleanSig |-> "idle"],
  confirm |-> Promotion,
  prepare |-> [Promotion EXCEPT !.cleanSig = "check"],
  os |-> [cancel |-> "cancelRan", cancelRan |-> "fetch", fetch |-> "verify",
          verify |-> "fetchSig", fetchSig |-> "load", load |-> "save",
          save |-> "arm", arm |-> "idle"],
  loader |-> [fetch |-> "verify", verify |-> "fetchSig", fetchSig |-> "accept",
              accept |-> "cancelRan", cancelRan |-> "mark", mark |-> "arm",
              arm |-> "idle"],
  recovery |-> [restoreSig |-> "compare", forgetSig |-> "compare", keep |-> "keepSig",
                keepSig |-> "putSig", putSig |-> "put", put |-> "drop",
                drop |-> "dropSig", dropSig |-> "load", load |-> "save",
                save |-> "idle"]]

Kinds == DOMAIN After \cup {"none"}
Steps == {"idle", "decide", "marker", "install", "forget", "cancel", "cancelRan",
          "repair", "restoreSig", "forgetSig", "promote", "arm", "save", "clean", "cleanSig",
          "check", "fetch", "verify", "fetchSig", "load", "accept", "mark",
          "compare", "keep", "keepSig", "putSig", "put", "drop", "dropSig"}
Ops == [kind : Kinds, step : Steps, copy : Wal, rel : Releases \cup {None}]
Idle == [kind |-> "none", step |-> "idle", copy |-> New(Factory), rel |-> None]

Become(p, o) == op' = [op EXCEPT ![p] = IF o.step = "idle" THEN Idle ELSE o]
Goto(p, step) == Become(p, [op[p] EXCEPT !.step = step])
Proceed(p) == Goto(p, After[op[p].kind][op[p].step])
At(p, step) == op[p].step = step
Quiet == \A p \in Processes : op[p] = Idle

(* A process starts an operation: over the other's, or after it. *)
MayStart(p) == op[p] = Idle /\ (Overlap \/ Quiet)
Start(p, kind, step, rel) ==
  Become(p, [kind |-> kind, step |-> step, copy |-> wal, rel |-> rel])

Spend(what) == used' = [used EXCEPT ![what] = @ + 1]

-----------------------------------------------------------------------------
(* The installed loader. *)
Chainable(s) == s.img = s.sig /\ s.img \notin {Nothing, Corrupt}

TrialLeft == boot.target = "next" /\ boot.trial /\ boot.attempts > 0

KeepAttempts == boot  \* a mutant of SpendAttempt: the budget is not written back

SpendAttempt == IF TrialLeft THEN [boot EXCEPT !.attempts = @ - 1] ELSE boot

(* The stable cascade: active, prev, recovery. *)
Bootable(s) == Chainable(s) /\ s.img[1] = "os"

EnterStable ==
  IF Bootable(active) \/ Bootable(prev)
  THEN mode' = "up" /\ running' = (IF Bootable(active) THEN active ELSE prev).img[2]
  ELSE mode' = "recovery" /\ running' = None

(* A loader candidate leaves its mark and goes on to the stable cascade,   *)
(* or hangs.                                                               *)
EnterLoader(v) ==
  /\ tried' = tried \cup {v}
  /\ handed' = handed + 1
  /\ IF v \in Starting
     THEN /\ loader' = [loader EXCEPT !.ran = v]
          /\ started' = started \cup {v}
          /\ EnterStable
     ELSE mode' = "hung" /\ running' = None /\ UNCHANGED <<loader, started>>

LoaderBoots ==
  /\ boot' = SpendAttempt
  /\ IF TrialLeft /\ Chainable(next)
     THEN IF next.img[1] = "loader" THEN EnterLoader(next.img[2])
          ELSE /\ mode' = "up" /\ running' = next.img[2]
               /\ UNCHANGED <<loader, tried, started, handed>>
     ELSE EnterStable /\ UNCHANGED <<loader, tried, started, handed>>

(* Whatever file is in the loader's place is started by the firmware. *)
MachineBoots ==
  /\ mode = "off"
  /\ IF loader.installed[1] = "loader" THEN LoaderBoots
     ELSE /\ IF loader.installed[1] = "os"
             THEN mode' = "up" /\ running' = loader.installed[2]
             ELSE mode' = "hung" /\ running' = None
          /\ UNCHANGED <<boot, loader, tried, started, handed>>
  /\ UNCHANGED <<wal, next, active, prev, rec, checked, op, used, proven>>

(* Power loss or reboot: a fault when it cuts an operation short or stops  *)
(* a session before its boot is checked.                                   *)
IsFault == ~Quiet \/ (mode = "up" /\ ~checked)

PowerOff ==
  /\ mode # "off"
  /\ IF IsFault THEN used.faults < MaxFaults /\ Spend("faults") ELSE UNCHANGED used
  /\ mode' = "off"
  /\ running' = None
  /\ checked' = FALSE
  /\ op' = [p \in Processes |-> Idle]
  /\ UNCHANGED <<wal, esp, history>>

(* An operation returns an error or is killed. *)
OperationFails(p) ==
  /\ op[p] # Idle
  /\ used.faults < MaxFaults
  /\ Spend("faults")
  /\ Goto(p, "idle")
  /\ UNCHANGED <<wal, esp, session, history>>

-----------------------------------------------------------------------------
(* BootSuccess: load the WAL, then go the way of its copy.  Up to          *)
(* thirty seconds per health check pass before a pending one is decided.   *)
BootSuccess ==
  /\ mode = "up"
  /\ MayStart("daemon")
  /\ IF checked THEN used.reruns < MaxReruns /\ Spend("reruns") ELSE UNCHANGED used
  /\ checked' = TRUE
  /\ IF HasPending(wal) THEN Start("daemon", "confirm", "decide", None)
     ELSE Start("daemon", "stable", "marker", None)
  /\ UNCHANGED <<wal, esp, mode, running, history>>

Preflight == next.img # Nothing /\ next.sig # Nothing

Decided(d, step) == Become("daemon", [op["daemon"] EXCEPT !.copy = d, !.step = step])

Decide ==
  /\ At("daemon", "decide")
  /\ LET d == op["daemon"].copy
     IN  CASE running \notin Healthy -> Goto("daemon", "idle")
           [] running \in Healthy /\ ~IdentityConfirmed(d, running) ->
                Decided(RecordFailedBoot(d, boot), "arm")
           [] running \in Healthy /\ IdentityConfirmed(d, running) ->
                IF ~ReachesThreshold(d) THEN Decided(RecordGoodBoot(d), "arm")
                ELSE IF Preflight THEN Decided(RecordGoodBoot(d), "promote")
                ELSE Goto("daemon", "idle")
  /\ proven' = IF running \in Healthy THEN proven \cup {running} ELSE proven
  /\ UNCHANGED <<wal, esp, session, used, tried, started, handed>>

(* HandleLoaderCandidate: a candidate that left no mark has failed; one    *)
(* that did is installed, if next still holds it.                          *)
StillStaged(v) == next.img = Loader(v)

AnyCandidate(v) == TRUE  \* a mutant of LeftMark

LeftMark(v) == loader.ran = v

HandleMarker ==
  /\ At("daemon", "marker")
  /\ LET v == loader.cand
     IN  IF v = None THEN Goto("daemon", "repair") /\ UNCHANGED loader
         ELSE IF ~LeftMark(v)
              THEN Goto("daemon", "cancel") /\ loader' = [loader EXCEPT !.failed = v]
              ELSE /\ Goto("daemon", IF StillStaged(v) THEN "install" ELSE "cancel")
                   /\ UNCHANGED loader
  /\ UNCHANGED <<wal, boot, next, active, prev, rec, session, used, history>>

(* The image is copied from the slot, not from what was measured. *)
InstallLoader ==
  /\ At("daemon", "install")
  /\ IF next.img = Nothing THEN Goto("daemon", "cancel") /\ UNCHANGED loader
     ELSE Proceed("daemon") /\ loader' = [loader EXCEPT !.installed = next.img]
  /\ UNCHANGED <<wal, boot, next, active, prev, rec, session, used, history>>

ForgetFailure ==
  /\ At("daemon", "forget")
  /\ loader' = [loader EXCEPT !.failed = None]
  /\ Proceed("daemon")
  /\ UNCHANGED <<wal, boot, next, active, prev, rec, session, used, history>>

-----------------------------------------------------------------------------
(* Steps that operations share. *)
KeepCandidate(p) ==  \* a mutant of Cancel: the marker stays
  /\ At(p, "cancel")
  /\ Proceed(p)
  /\ UNCHANGED <<wal, esp, session, used, history>>

Cancel(p) ==
  /\ At(p, "cancel")
  /\ loader' = [loader EXCEPT !.cand = None]
  /\ Proceed(p)
  /\ UNCHANGED <<wal, boot, next, active, prev, rec, session, used, history>>

CancelRan(p) ==
  /\ At(p, "cancelRan")
  /\ loader' = [loader EXCEPT !.ran = None]
  /\ Proceed(p)
  /\ UNCHANGED <<wal, boot, next, active, prev, rec, session, used, history>>

(* RepairRecoverySlot: a pair that is there ends its backup, a missing     *)
(* file brings the backup back, image first.                               *)
Repair(p) ==
  /\ At(p, "repair")
  /\ CASE rec.cur # None /\ rec.curSig # None ->
            rec' = [rec EXCEPT !.prev = None] /\ Goto(p, "forgetSig")
       [] ~(rec.cur # None /\ rec.curSig # None) /\ rec.prev # None ->
            rec' = [rec EXCEPT !.cur = rec.prev, !.prev = None] /\ Goto(p, "restoreSig")
       [] OTHER -> UNCHANGED rec /\ Goto(p, After[op[p].kind].restoreSig)
  /\ UNCHANGED <<wal, boot, next, active, prev, loader, session, used, history>>

ForgetSig(p) ==
  /\ At(p, "forgetSig")
  /\ rec' = [rec EXCEPT !.prevSig = None]
  /\ Proceed(p)
  /\ UNCHANGED <<wal, boot, next, active, prev, loader, session, used, history>>

KeepNewSig(p) ==  \* a mutant of RestoreSig: a signature that is there is kept
  /\ At(p, "restoreSig")
  /\ rec' = IF rec.curSig # None THEN rec ELSE [rec EXCEPT !.curSig = rec.prevSig]
  /\ Proceed(p)
  /\ UNCHANGED <<wal, boot, next, active, prev, loader, session, used, history>>

(* A backup without signature is an error, which ends a staging. *)
RestoreSig(p) ==
  /\ At(p, "restoreSig")
  /\ IF rec.prevSig # None
     THEN rec' = [rec EXCEPT !.curSig = rec.prevSig, !.prevSig = None] /\ Proceed(p)
     ELSE UNCHANGED rec /\ (IF p = "daemon" THEN Proceed(p) ELSE Goto(p, "idle"))
  /\ UNCHANGED <<wal, boot, next, active, prev, loader, session, used, history>>

(* PromoteSlots, after its preflight.  A file that is empty by now, or in  *)
(* place already, is skipped.                                              *)
Replacing(new, old) == IF new = Nothing THEN old ELSE new
Displaced(new, old, kept) == IF new = old THEN kept ELSE old

PromoteNext(p) ==
  /\ At(p, "promote")
  /\ active' = [img |-> Replacing(next.img, active.img),
                sig |-> Replacing(next.sig, active.sig)]
  /\ prev' = [img |-> Displaced(active'.img, active.img, prev.img),
              sig |-> Displaced(active'.sig, active.sig, prev.sig)]
  /\ Proceed(p)
  /\ UNCHANGED <<wal, boot, next, loader, rec, session, used, history>>

LoaderTrial == [target |-> "next", trial |-> TRUE, attempts |-> 1]

(* writeDeploymentBootState on the copy, SyncBootState on the WAL as it is *)
(* by then, or the single trial of a loader.                               *)
Arm(p) ==
  /\ At(p, "arm")
  /\ boot' = CASE op[p].kind = "loader" -> LoaderTrial
               [] op[p].kind = "os" -> BootStateOf(wal)
               [] OTHER -> BootStateOf(op[p].copy)
  /\ Proceed(p)
  /\ UNCHANGED <<wal, next, active, prev, loader, rec, session, used, history>>

Save(p) ==
  /\ At(p, "save")
  /\ wal' = op[p].copy
  /\ IF op[p].kind = "confirm" /\ HasPending(op[p].copy) THEN Goto(p, "idle")
     ELSE Proceed(p)
  /\ UNCHANGED <<esp, session, used, history>>

(* CleanupNextSlots *)
Clean(p) ==
  /\ At(p, "clean")
  /\ next' = [next EXCEPT !.img = Nothing]
  /\ Proceed(p)
  /\ UNCHANGED <<wal, boot, active, prev, loader, rec, session, used, history>>

CleanSig(p) ==
  /\ At(p, "cleanSig")
  /\ next' = [next EXCEPT !.sig = Nothing]
  /\ Proceed(p)
  /\ UNCHANGED <<wal, boot, active, prev, loader, rec, session, used, history>>

-----------------------------------------------------------------------------
(* Stagings.  Any may be asked for by the user; the startup check stages   *)
(* a loader and then the recovery.                                         *)
BeginStaging ==
  /\ mode = "up"
  /\ MayStart("server")
  /\ used.stagings < MaxStagings
  /\ Spend("stagings")
  /\ UNCHANGED <<wal, esp, session, history>>

PendingSuffices == HasPending(wal)  \* a mutant of RunningIsCandidate

(* promoteRunningCandidate, then the OS itself. *)
RunningIsCandidate ==
  HasPending(wal) /\ wal.stableBoots >= 1 /\ IdentityConfirmed(wal, running)

StageOs(v) ==
  /\ BeginStaging
  /\ CASE ~RunningIsCandidate -> Start("server", "os", "check", v)
       [] RunningIsCandidate /\ Preflight ->
            Become("server", [kind |-> "prepare", step |-> "promote",
                              copy |-> Promote(wal), rel |-> v])
       [] OTHER -> UNCHANGED op

CheckDowngrade ==
  /\ At("server", "check")
  /\ IF op["server"].rel < wal.current THEN Goto("server", "idle")
     ELSE Become("server", [op["server"] EXCEPT !.kind = "os", !.step = "cancel"])
  /\ UNCHANGED <<wal, esp, session, used, history>>

InstalledVersion == IF loader.installed[1] = "loader" THEN loader.installed[2] ELSE 1

(* A loader that failed before is staged again only when the user insists. *)
StageLoader(v) ==
  /\ BeginStaging
  /\ ~HasPending(wal)
  /\ v > InstalledVersion
  /\ Start("server", "loader", "fetch", v)

StageRecovery(v) ==
  /\ BeginStaging
  /\ ~HasPending(wal)
  /\ Start("server", "recovery", "repair", v)

Wanted == IF op["server"].kind = "os" THEN Os(op["server"].rel)
          ELSE Loader(op["server"].rel)

ServerFails(slot) == next' = slot /\ Goto("server", "idle")

(* FetchTo renames the download into place, then it is measured. *)
Fetch ==
  /\ At("server", "fetch")
  /\ \/ \E img \in {Wanted, Corrupt} :
          next' = [next EXCEPT !.img = img] /\ Proceed("server")
     \/ ServerFails(next)
  /\ UNCHANGED <<wal, boot, active, prev, loader, rec, session, used, history>>

Verify ==
  /\ At("server", "verify")
  /\ IF next.img = Wanted THEN Proceed("server") /\ UNCHANGED next
     ELSE ServerFails([next EXCEPT !.img = Nothing])
  /\ UNCHANGED <<wal, boot, active, prev, loader, rec, session, used, history>>

FetchSig ==
  /\ At("server", "fetchSig")
  /\ \/ next' = [next EXCEPT !.sig = Wanted] /\ Proceed("server")
     \/ ServerFails([next EXCEPT !.img = Nothing])
     \/ ServerFails(Empty)
  /\ UNCHANGED <<wal, boot, active, prev, loader, rec, session, used, history>>

(* StageLoader reads the pair back and checks the signature. *)
Accept ==
  /\ At("server", "accept")
  /\ CASE Chainable(next) -> Proceed("server") /\ UNCHANGED next
       [] ~Chainable(next) /\ Nothing \in {next.img, next.sig} -> ServerFails(next)
       [] OTHER -> ServerFails(Empty)
  /\ UNCHANGED <<wal, boot, active, prev, loader, rec, session, used, history>>

Mark ==
  /\ At("server", "mark")
  /\ loader' = [loader EXCEPT !.cand = op["server"].rel]
  /\ handed' = 0
  /\ Proceed("server")
  /\ UNCHANGED <<wal, boot, next, active, prev, rec, session, used,
                 proven, tried, started>>

(* The WAL is loaded again before it is saved, by stage with its candidate *)
(* and by StageRecovery with the version of the recovery.                  *)
Load ==
  /\ At("server", "load")
  /\ LET o == op["server"]
     IN  Become("server", [o EXCEPT !.step = "save",
           !.copy = IF o.kind = "os" THEN StagedDeploy(wal, o.rel) ELSE wal])
  /\ UNCHANGED <<wal, esp, session, used, history>>

(* Room is made in the next slot, and the image is fetched and verified. *)
Compare ==
  /\ At("server", "compare")
  /\ CASE rec.cur = op["server"].rel -> Goto("server", "idle") /\ UNCHANGED next
       [] rec.cur # op["server"].rel ->
            /\ next' = [next EXCEPT !.img = Nothing]
            /\ \/ Goto("server", IF rec.cur # None THEN "keep" ELSE "putSig")
               \/ Goto("server", "idle")
  /\ UNCHANGED <<wal, boot, active, prev, loader, rec, session, used, history>>

(* The swap of the recovery slot, one rename or removal at a time. *)
Moved(step) ==
  LET v == op["server"].rel
  IN  CASE step = "keep" -> [rec EXCEPT !.prev = rec.cur, !.cur = None]
        [] step = "keepSig" ->
             IF rec.curSig = None THEN rec
             ELSE [rec EXCEPT !.prevSig = rec.curSig, !.curSig = None]
        [] step = "putSig" -> [rec EXCEPT !.curSig = v]
        [] step = "put" -> [rec EXCEPT !.cur = v]
        [] step = "drop" -> [rec EXCEPT !.prev = None]
        [] step = "dropSig" -> [rec EXCEPT !.prevSig = None]

Swap ==
  /\ op["server"].step \in {"keep", "keepSig", "putSig", "put", "drop", "dropSig"}
  /\ rec' = Moved(op["server"].step)
  /\ Proceed("server")
  /\ UNCHANGED <<wal, boot, next, active, prev, loader, session, used, history>>

-----------------------------------------------------------------------------
Init ==
  /\ wal = New(Factory)
  /\ boot = ActiveState
  /\ next = Empty
  /\ active = [img |-> Os(Factory), sig |-> Os(Factory)]
  /\ prev = Empty
  /\ loader = [installed |-> Loader(Factory), cand |-> None, ran |-> None,
               failed |-> None]
  /\ rec = [cur |-> Factory, curSig |-> Factory, prev |-> None, prevSig |-> None]
  /\ mode = "off"
  /\ running = None
  /\ checked = FALSE
  /\ op = [p \in Processes |-> Idle]
  /\ used = [stagings |-> 0, faults |-> 0, reruns |-> 0]
  /\ proven = {Factory}
  /\ tried = {}
  /\ started = {Factory}
  /\ handed = 0

ProcessStep(p) ==
  \/ Cancel(p) \/ CancelRan(p) \/ Repair(p) \/ ForgetSig(p) \/ RestoreSig(p)
  \/ PromoteNext(p) \/ Arm(p) \/ Save(p) \/ Clean(p) \/ CleanSig(p)

DaemonStep == Decide \/ HandleMarker \/ InstallLoader \/ ForgetFailure
              \/ ProcessStep("daemon")

ServerStep == CheckDowngrade \/ Fetch \/ Verify \/ FetchSig \/ Accept \/ Mark
              \/ Load \/ Compare \/ Swap \/ ProcessStep("server")

Next ==
  \/ MachineBoots
  \/ PowerOff
  \/ BootSuccess
  \/ DaemonStep
  \/ ServerStep
  \/ \E v \in Releases : StageOs(v) \/ StageLoader(v) \/ StageRecovery(v)
  \/ \E p \in Processes : OperationFails(p)

Spec == Init /\ [][Next]_vars

(* Both processes go on, the daemon runs in every session, and the machine *)
(* is restarted when a candidate waits for it or nothing runs on it.       *)
Restart ==
  /\ Quiet
  /\ mode = "up" => checked /\ loader.cand # None
  /\ PowerOff

FairSpec == /\ Spec
            /\ WF_vars(MachineBoots)
            /\ WF_vars(Restart)
            /\ WF_vars(~checked /\ BootSuccess)
            /\ WF_vars(DaemonStep)
            /\ WF_vars(ServerStep)

-----------------------------------------------------------------------------
(* InstalledStarted: while daemon and server take turns, the only loaders  *)
(* that ever replace the boot loader have started on this machine, though  *)
(* OS candidates and recoveries pass through the same slot.                *)
InstalledStarted == loader.installed \in {Loader(v) : v \in started}

(* TriedOnce: a staged loader is handed control at most once, wherever     *)
(* power is lost and whatever is staged after it: one that hangs costs one *)
(* boot ("it is tried once on the next boot", loader.go:195).              *)
TriedOnce == handed <= 1

(* RecoveryKept: one power loss, kill or error at any point of a recovery  *)
(* staging or of its repair still leaves files from which the next stable  *)
(* BootSuccess makes an image and a signature that belong together.        *)
RecoveryKept ==
  used.faults <= 1 /\ At("daemon", "arm") /\ op["daemon"].kind = "stable"
    => rec.cur # None /\ rec.cur = rec.curSig

(* ActiveProven: while daemon and server take turns and nothing fails, the *)
(* active slot holds a release that ran and passed its health gate.        *)
ActiveProven ==
  used.faults = 0 =>
    Chainable(active) /\ active.img \in {Os(v) : v \in proven}

(* CandidateEnds: no loader candidate waits for ever, on a machine that    *)
(* has a release left to run the daemon from.  The promotion of a pair     *)
(* whose staging over it was cut can leave it none.                        *)
CandidateEnds ==
  loader.cand # None ~> loader.cand = None \/ ~(Bootable(active) \/ Bootable(prev))
=============================================================================
