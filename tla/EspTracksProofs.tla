--------------------------- MODULE EspTracksProofs ---------------------------
(***************************************************************************)
(* What the ESP keeps while the daemon and the update server take turns,   *)
(* for every set of releases, every budget and any number of stagings,     *)
(* faults and reruns: only a loader that started is installed, a staged    *)
(* loader is handed control once, the recovery slot survives one fault,    *)
(* and without faults only proven releases are promoted.                   *)
(***************************************************************************)
EXTENDS EspTracks, DeploymentProofs

(* The steps each kind of operation goes through, and whose it is. *)
StableSteps == {"marker", "install", "forget", "cancel", "cancelRan", "repair",
                "restoreSig", "forgetSig", "arm", "clean", "cleanSig"}
ConfirmSteps == {"decide", "promote", "arm", "save", "clean", "cleanSig"}
PrepareSteps == {"promote", "arm", "save", "clean", "cleanSig", "check"}
OsSteps == {"check", "cancel", "cancelRan", "fetch", "verify", "fetchSig",
            "load", "save", "arm"}
LoaderSteps == {"fetch", "verify", "fetchSig", "accept", "cancelRan", "mark", "arm"}
RecoverySteps == {"repair", "restoreSig", "forgetSig", "compare", "keep", "keepSig",
                  "putSig", "put", "drop", "dropSig", "load", "save"}

Fits(p, o) ==
  \/ p = "daemon" /\ o.kind = "stable" /\ o.step \in StableSteps
  \/ p = "daemon" /\ o.kind = "confirm" /\ o.step \in ConfirmSteps
  \/ p = "server" /\ o.kind = "prepare" /\ o.step \in PrepareSteps
  \/ p = "server" /\ o.kind = "os" /\ o.step \in OsSteps
  \/ p = "server" /\ o.kind = "loader" /\ o.step \in LoaderSteps
  \/ p = "server" /\ o.kind = "recovery" /\ o.step \in RecoverySteps

(* An operation in flight: its copy of the WAL may be saved, a confirmed   *)
(* boot is decided on a pending candidate, a staging has a release.        *)
Underway(p, o) ==
  /\ o \in Ops
  /\ Fits(p, o)
  /\ GoodRecord(o.copy)
  /\ o.step = "decide" => HasPending(o.copy)
  /\ p = "server" => o.rel \in Releases

OpInv ==
  /\ op \in [Processes -> Ops]
  /\ \A p \in Processes : op[p] = Idle \/ Underway(p, op[p])

(* One process works at a time. *)
Turns == \E p \in Processes : \A q \in Processes \ {p} : op[q] = Idle

TypeInv ==
  /\ GoodRecord(wal)
  /\ boot \in BootStates
  /\ OpInv
  /\ ~Overlap => Turns
  /\ mode = "off" => Quiet
  /\ used \in [stagings : Nat, faults : Nat, reruns : Nat]
  /\ handed \in Nat

LEMMA KindsAre ==
  Kinds = {"stable", "confirm", "prepare", "os", "loader", "recovery", "none"}
BY DEF Kinds, After, Promotion

LEMMA AfterIs ==
  /\ After["stable"]["install"] = "forget" /\ After["stable"]["forget"] = "cancel"
  /\ After["stable"]["cancel"] = "cancelRan" /\ After["stable"]["cancelRan"] = "repair"
  /\ After["stable"]["restoreSig"] = "arm" /\ After["stable"]["forgetSig"] = "arm"
  /\ After["stable"]["arm"] = "clean" /\ After["stable"]["clean"] = "cleanSig"
  /\ After["stable"]["cleanSig"] = "idle"
  /\ \A k \in {"confirm", "prepare"} :
       /\ After[k]["promote"] = "arm" /\ After[k]["arm"] = "save"
       /\ After[k]["save"] = "clean" /\ After[k]["clean"] = "cleanSig"
  /\ After["confirm"]["cleanSig"] = "idle" /\ After["prepare"]["cleanSig"] = "check"
  /\ After["os"]["cancel"] = "cancelRan" /\ After["os"]["cancelRan"] = "fetch"
  /\ After["os"]["fetch"] = "verify" /\ After["os"]["verify"] = "fetchSig"
  /\ After["os"]["fetchSig"] = "load" /\ After["os"]["load"] = "save"
  /\ After["os"]["save"] = "arm" /\ After["os"]["arm"] = "idle"
  /\ After["loader"]["fetch"] = "verify" /\ After["loader"]["verify"] = "fetchSig"
  /\ After["loader"]["fetchSig"] = "accept" /\ After["loader"]["accept"] = "cancelRan"
  /\ After["loader"]["cancelRan"] = "mark" /\ After["loader"]["mark"] = "arm"
  /\ After["loader"]["arm"] = "idle"
  /\ After["recovery"]["restoreSig"] = "compare"
  /\ After["recovery"]["forgetSig"] = "compare"
  /\ After["recovery"]["keep"] = "keepSig" /\ After["recovery"]["keepSig"] = "putSig"
  /\ After["recovery"]["putSig"] = "put" /\ After["recovery"]["put"] = "drop"
  /\ After["recovery"]["drop"] = "dropSig" /\ After["recovery"]["dropSig"] = "load"
  /\ After["recovery"]["load"] = "save" /\ After["recovery"]["save"] = "idle"
BY DEF After, Promotion

LEMMA IdleOp == Idle \in Ops /\ Idle.step = "idle" /\ Idle.kind = "none"
<1>1. New(Factory) \in Wal
  <2>1. Factory \in Nat \ {0}
    BY FactoryAssumption, ReleasesAssumption DEF None
  <2> QED
    BY <2>1, FactoryAssumption DEF New, Wal, None
<1> QED
  BY <1>1, KindsAre DEF Idle, Ops, Steps

LEMMA Becomes ==
  ASSUME OpInv, NEW p \in Processes, NEW o, Become(p, o)
  PROVE  /\ op'[p] = IF o.step = "idle" THEN Idle ELSE o
         /\ \A q \in Processes \ {p} : op'[q] = op[q]
BY DEF OpInv, Become

LEMMA BecomeOp ==
  ASSUME OpInv, NEW p \in Processes, NEW o, Become(p, o),
         o.step = "idle" \/ Underway(p, o)
  PROVE  OpInv'
<1> DEFINE r == IF o.step = "idle" THEN Idle ELSE o
<1>1. r \in Ops /\ (r = Idle \/ Underway(p, r))
  BY IdleOp DEF Underway
<1>2. op' = [op EXCEPT ![p] = r]
  BY DEF Become
<1> HIDE DEF r
<1>3. op' \in [Processes -> Ops]
  BY <1>1, <1>2 DEF OpInv
<1>4. \A q \in Processes : op'[q] = Idle \/ Underway(q, op'[q])
  BY <1>1, <1>2 DEF OpInv
<1> QED
  BY <1>3, <1>4 DEF OpInv

(* What is known of an operation at a step of its own. *)
LEMMA AtWork ==
  ASSUME OpInv, NEW p \in Processes, op[p].step # "idle"
  PROVE  op[p] # Idle /\ Underway(p, op[p])
BY IdleOp DEF OpInv

LEMMA GotoOp ==
  ASSUME OpInv, NEW p \in Processes, op[p].step # "idle",
         NEW s \in Steps, s # "decide", Goto(p, s),
         s = "idle" \/ Fits(p, [op[p] EXCEPT !.step = s])
  PROVE  /\ OpInv'
         /\ op'[p] = IF s = "idle" THEN Idle ELSE [op[p] EXCEPT !.step = s]
         /\ \A q \in Processes \ {p} : op'[q] = op[q]
<1> DEFINE o == [op[p] EXCEPT !.step = s]
<1>1. Underway(p, op[p])
  BY AtWork
<1>2. o \in Ops /\ o.step = s /\ o.copy = op[p].copy /\ o.rel = op[p].rel
  BY <1>1 DEF Underway, Ops
<1>3. o.step = "idle" \/ Underway(p, o)
  BY <1>1, <1>2 DEF Underway
<1>4. Become(p, o)
  BY DEF Goto
<1> HIDE DEF o
<1> QED
  BY <1>2, <1>3, <1>4, Becomes, BecomeOp DEF o

LEMMA IdleGoto ==
  ASSUME OpInv, NEW p \in Processes, op[p].step # "idle", Goto(p, "idle")
  PROVE  /\ OpInv' /\ op'[p] = Idle
         /\ \A q \in Processes \ {p} : op'[q] = op[q]
BY GotoOp DEF Steps

(* Every step that has a successor has one of its own operation. *)
LEMMA SuccessorFits ==
  ASSUME NEW p \in Processes, NEW o, Underway(p, o),
         o.step \notin {"decide", "marker", "repair", "check", "compare"}
  PROVE  /\ After[o.kind][o.step] \in Steps \ {"decide"}
         /\ \/ After[o.kind][o.step] = "idle"
            \/ Fits(p, [o EXCEPT !.step = After[o.kind][o.step]])
<1> DEFINE s == After[o.kind][o.step]
           n == [o EXCEPT !.step = s]
<1>1. n.kind = o.kind /\ n.step = s
  BY DEF Underway, Ops
<1>2. CASE p = "daemon" /\ o.kind = "stable" /\ o.step \in StableSteps
  <2>1. s \in (StableSteps \cup {"idle"}) \ {"decide"}
    BY <1>2, AfterIs DEF StableSteps
  <2> HIDE DEF n, s
  <2> QED
    BY <1>1, <1>2, <2>1 DEF n, s, Fits, StableSteps, Steps
<1>3. CASE p = "daemon" /\ o.kind = "confirm" /\ o.step \in ConfirmSteps
  <2>1. s \in (ConfirmSteps \cup {"idle"}) \ {"decide"}
    BY <1>3, AfterIs DEF ConfirmSteps
  <2> HIDE DEF n, s
  <2> QED
    BY <1>1, <1>3, <2>1 DEF n, s, Fits, ConfirmSteps, Steps
<1>4. CASE p = "server" /\ o.kind = "prepare" /\ o.step \in PrepareSteps
  <2>1. s \in (PrepareSteps \cup {"idle"}) \ {"decide"}
    BY <1>4, AfterIs DEF PrepareSteps
  <2> HIDE DEF n, s
  <2> QED
    BY <1>1, <1>4, <2>1 DEF n, s, Fits, PrepareSteps, Steps
<1>5. CASE p = "server" /\ o.kind = "os" /\ o.step \in OsSteps
  <2>1. s \in (OsSteps \cup {"idle"}) \ {"decide"}
    BY <1>5, AfterIs DEF OsSteps
  <2> HIDE DEF n, s
  <2> QED
    BY <1>1, <1>5, <2>1 DEF n, s, Fits, OsSteps, Steps
<1>6. CASE p = "server" /\ o.kind = "loader" /\ o.step \in LoaderSteps
  <2>1. s \in (LoaderSteps \cup {"idle"}) \ {"decide"}
    BY <1>6, AfterIs DEF LoaderSteps
  <2> HIDE DEF n, s
  <2> QED
    BY <1>1, <1>6, <2>1 DEF n, s, Fits, LoaderSteps, Steps
<1>7. CASE p = "server" /\ o.kind = "recovery" /\ o.step \in RecoverySteps
  <2>1. s \in (RecoverySteps \cup {"idle"}) \ {"decide"}
    BY <1>7, AfterIs DEF RecoverySteps
  <2> HIDE DEF n, s
  <2> QED
    BY <1>1, <1>7, <2>1 DEF n, s, Fits, RecoverySteps, Steps
<1> QED
  BY <1>2, <1>3, <1>4, <1>5, <1>6, <1>7 DEF Underway, Fits

LEMMA ProceedOp ==
  ASSUME OpInv, NEW p \in Processes, Proceed(p),
         op[p].step \notin {"idle", "decide", "marker", "repair", "check", "compare"}
  PROVE  LET s == After[op[p].kind][op[p].step] IN
         /\ OpInv'
         /\ op'[p] = IF s = "idle" THEN Idle ELSE [op[p] EXCEPT !.step = s]
         /\ \A q \in Processes \ {p} : op'[q] = op[q]
<1>1. Underway(p, op[p])
  BY AtWork
<1> DEFINE s == After[op[p].kind][op[p].step]
<1>2. s \in Steps \ {"decide"} /\ (s = "idle" \/ Fits(p, [op[p] EXCEPT !.step = s]))
  BY <1>1, SuccessorFits
<1>3. Goto(p, s)
  BY DEF Proceed
<1> HIDE DEF s
<1>4. /\ OpInv'
      /\ op'[p] = IF s = "idle" THEN Idle ELSE [op[p] EXCEPT !.step = s]
      /\ \A q \in Processes \ {p} : op'[q] = op[q]
  BY <1>2, <1>3, GotoOp
<1> QED
  BY <1>4 DEF s

-----------------------------------------------------------------------------
(* Types and turns. *)

LEMMA InitType == Init => TypeInv
<1> SUFFICES ASSUME Init PROVE TypeInv
  OBVIOUS
<1>1. GoodRecord(wal)
  <2>1. GoodRecord([New(Factory) EXCEPT !.lkg = Factory])
    BY FactoryAssumption, NewRecord
  <2>2. [New(Factory) EXCEPT !.lkg = Factory] = New(Factory)
    BY DEF New
  <2> QED
    BY <2>1, <2>2 DEF Init
<1>2. OpInv
  BY IdleOp DEF Init, OpInv
<1>3. Quiet /\ Turns
  BY DEF Init, Quiet, Turns, Processes
<1>4. boot \in BootStates
  BY DEF Init, ActiveState, BootStates
<1> QED
  BY <1>1, <1>2, <1>3, <1>4 DEF Init, TypeInv

(* The frame of a step of p: what is left to show of one. *)
LEMMA WorkType ==
  ASSUME TypeInv, NEW p \in Processes, op[p].step # "idle",
         OpInv', \A q \in Processes \ {p} : op'[q] = op[q],
         GoodRecord(wal'), boot' \in BootStates, handed' \in Nat,
         UNCHANGED <<mode, used>>
  PROVE  TypeInv' /\ (~Overlap => \A q \in Processes \ {p} : op[q] = Idle /\ op'[q] = Idle)
<1>1. op[p] # Idle
  BY AtWork DEF TypeInv
<1>2. mode # "off"
  BY <1>1 DEF TypeInv, Quiet
<1>3. ~Overlap => \A q \in Processes \ {p} : op[q] = Idle
  BY <1>1 DEF TypeInv, Turns
<1>4. ~Overlap => Turns'
  BY <1>3 DEF Turns
<1> QED
  BY <1>2, <1>3, <1>4 DEF TypeInv

LEMMA MachineBootsType == TypeInv /\ MachineBoots => TypeInv'
<1> SUFFICES ASSUME TypeInv, MachineBoots PROVE TypeInv'
  OBVIOUS
<1>1. Quiet /\ UNCHANGED <<wal, op, used>>
  BY DEF MachineBoots, TypeInv
<1>2. OpInv' /\ Quiet' /\ (~Overlap => Turns')
  BY <1>1 DEF TypeInv, OpInv, Quiet, Turns
<1>3. boot' \in BootStates /\ handed' \in Nat
  <2>1. CASE loader.installed[1] # "loader"
    BY <2>1 DEF MachineBoots, TypeInv
  <2>2. CASE loader.installed[1] = "loader"
    <3>1. SpendAttempt \in BootStates
      BY DEF TypeInv, SpendAttempt, TrialLeft, BootStates
    <3>2. handed' \in {handed, handed + 1}
      BY <2>2 DEF MachineBoots, LoaderBoots, EnterLoader
    <3> QED
      BY <2>2, <3>1, <3>2 DEF MachineBoots, LoaderBoots, TypeInv
  <2> QED
    BY <2>1, <2>2
<1> QED
  BY <1>1, <1>2, <1>3 DEF TypeInv

LEMMA PowerOffType == TypeInv /\ PowerOff => TypeInv'
<1> SUFFICES ASSUME TypeInv, PowerOff PROVE TypeInv'
  OBVIOUS
<1>1. Quiet' /\ OpInv' /\ Turns'
  BY IdleOp DEF PowerOff, Quiet, OpInv, Turns, Processes
<1>2. used' \in [stagings : Nat, faults : Nat, reruns : Nat]
  BY DEF PowerOff, Spend, TypeInv
<1>3. UNCHANGED <<wal, boot, handed>>
  BY DEF PowerOff, esp, history
<1> QED
  BY <1>1, <1>2, <1>3 DEF TypeInv

LEMMA OperationFailsType ==
  ASSUME TypeInv, NEW p \in Processes, OperationFails(p) PROVE TypeInv'
<1>1. op[p] # Idle /\ Goto(p, "idle")
  BY DEF OperationFails
<1>2. op[p].step # "idle"
  BY <1>1 DEF TypeInv, OpInv, Underway, Fits, StableSteps, ConfirmSteps,
              PrepareSteps, OsSteps, LoaderSteps, RecoverySteps
<1>3. OpInv' /\ \A q \in Processes \ {p} : op'[q] = op[q]
  BY <1>1, <1>2, IdleGoto DEF TypeInv
<1>4. mode # "off"
  BY <1>1 DEF TypeInv, Quiet
<1>5. ~Overlap => Turns'
  BY <1>1, <1>3 DEF TypeInv, Turns
<1>6. used' \in [stagings : Nat, faults : Nat, reruns : Nat]
  BY DEF OperationFails, Spend, TypeInv
<1>7. UNCHANGED <<wal, boot, mode, handed>>
  BY DEF OperationFails, esp, session, history
<1> QED
  BY <1>3, <1>4, <1>5, <1>6, <1>7 DEF TypeInv

(* An operation starts on what is then the WAL, and no other is underway   *)
(* unless operations may overlap.                                          *)
LEMMA StartType ==
  ASSUME TypeInv, NEW p \in Processes, NEW o, MayStart(p), mode = "up",
         Become(p, o), Underway(p, o), UNCHANGED <<wal, boot, mode, handed>>,
         used' \in [stagings : Nat, faults : Nat, reruns : Nat]
  PROVE  /\ TypeInv' /\ op'[p] = o
         /\ \A q \in Processes \ {p} : op'[q] = op[q]
         /\ ~Overlap => \A q \in Processes \ {p} : op'[q] = Idle
<1>1. o.step # "idle"
  BY DEF Underway, Fits, StableSteps, ConfirmSteps,
         PrepareSteps, OsSteps, LoaderSteps, RecoverySteps
<1>2. OpInv' /\ op'[p] = o /\ \A q \in Processes \ {p} : op'[q] = op[q]
  BY <1>1, Becomes, BecomeOp DEF TypeInv
<1>3. ~Overlap => \A q \in Processes \ {p} : op'[q] = Idle
  BY <1>2 DEF MayStart, Quiet
<1>4. ~Overlap => Turns'
  BY <1>3 DEF Turns
<1> QED
  BY <1>2, <1>3, <1>4 DEF TypeInv

LEMMA BootSuccessType ==
  ASSUME TypeInv, BootSuccess
  PROVE  /\ TypeInv'
         /\ op'["daemon"] = IF HasPending(wal)
              THEN [kind |-> "confirm", step |-> "decide", copy |-> wal, rel |-> None]
              ELSE [kind |-> "stable", step |-> "marker", copy |-> wal, rel |-> None]
         /\ op'["server"] = op["server"]
         /\ ~Overlap => op'["server"] = Idle
<1> DEFINE c == [kind |-> "confirm", step |-> "decide", copy |-> wal, rel |-> None]
           s == [kind |-> "stable", step |-> "marker", copy |-> wal, rel |-> None]
           o == IF HasPending(wal) THEN c ELSE s
<1>1. "daemon" \in Processes /\ "server" \in Processes \ {"daemon"}
  BY DEF Processes
<1>2. c \in Ops /\ s \in Ops
  BY KindsAre DEF TypeInv, GoodRecord, Ops, Steps
<1>3. Underway("daemon", o)
  BY <1>2 DEF Underway, Fits, StableSteps, ConfirmSteps, TypeInv
<1>4. Become("daemon", o)
  BY DEF BootSuccess, Start
<1>5. UNCHANGED <<wal, boot, mode, handed>> /\ MayStart("daemon") /\ mode = "up"
  BY DEF BootSuccess, esp, history
<1>6. used' \in [stagings : Nat, faults : Nat, reruns : Nat]
  BY DEF BootSuccess, Spend, TypeInv
<1> HIDE DEF o
<1>7. /\ TypeInv' /\ op'["daemon"] = o
      /\ \A q \in Processes \ {"daemon"} : op'[q] = op[q]
      /\ ~Overlap => \A q \in Processes \ {"daemon"} : op'[q] = Idle
  BY <1>1, <1>3, <1>4, <1>5, <1>6, StartType
<1> QED
  BY <1>1, <1>7 DEF o

(* The four ways a pending boot is decided. *)
LEMMA DecideType ==
  ASSUME TypeInv, Decide
  PROVE  LET o == op["daemon"] IN
         /\ TypeInv'
         /\ op'["server"] = op["server"]
         /\ ~Overlap => op'["server"] = Idle
         /\ o.kind = "confirm" /\ o.step = "decide"
         /\ GoodRecord(o.copy) /\ HasPending(o.copy)
         /\ \/ op'["daemon"] = Idle
            \/ op'["daemon"] = [o EXCEPT !.copy = RecordFailedBoot(o.copy, boot),
                                         !.step = "arm"]
            \/ /\ running \in Healthy /\ IdentityConfirmed(o.copy, running)
               /\ ~ReachesThreshold(o.copy)
               /\ op'["daemon"] = [o EXCEPT !.copy = RecordGoodBoot(o.copy),
                                            !.step = "arm"]
            \/ /\ running \in Healthy /\ IdentityConfirmed(o.copy, running)
               /\ ReachesThreshold(o.copy) /\ Preflight
               /\ op'["daemon"] = [o EXCEPT !.copy = RecordGoodBoot(o.copy),
                                            !.step = "promote"]
<1> DEFINE o == op["daemon"]
           d == o.copy
           Into(c, s) == [o EXCEPT !.copy = c, !.step = s]
<1>1. "daemon" \in Processes /\ Processes \ {"daemon"} = {"server"}
  BY DEF Processes
<1>2. o.step = "decide"
  BY DEF Decide, At
<1>3. Underway("daemon", o)
  BY <1>1, <1>2, AtWork DEF TypeInv
<1>4. o.kind = "confirm" /\ GoodRecord(d) /\ HasPending(d)
  BY <1>2, <1>3 DEF Underway, Fits, StableSteps
<1>5. GoodRecord(RecordFailedBoot(d, boot)) /\ GoodRecord(RecordGoodBoot(d))
  BY <1>4, FailedBootRecord, RecordGoodBootRecord DEF TypeInv
<1>6. ASSUME NEW c, GoodRecord(c), NEW s \in {"arm", "promote"}, Decided(c, s)
      PROVE  OpInv' /\ op'["daemon"] = Into(c, s) /\ op'["server"] = op["server"]
  <2>1. Into(c, s) \in Ops /\ Into(c, s).step = s /\ Into(c, s).copy = c
        /\ Into(c, s).kind = "confirm"
    BY <1>3, <1>4, <1>6 DEF Underway, Ops, GoodRecord, Steps
  <2>2. Underway("daemon", Into(c, s))
    BY <1>6, <2>1 DEF Underway, Fits, ConfirmSteps
  <2>3. Become("daemon", Into(c, s))
    BY <1>6 DEF Decided
  <2> HIDE DEF Into
  <2> QED
    BY <1>1, <1>6, <2>1, <2>2, <2>3, Becomes, BecomeOp DEF TypeInv
<1>7. /\ OpInv'
      /\ op'["server"] = op["server"]
      /\ \/ op'["daemon"] = Idle
         \/ op'["daemon"] = Into(RecordFailedBoot(d, boot), "arm")
         \/ /\ running \in Healthy /\ IdentityConfirmed(d, running)
            /\ ~ReachesThreshold(d) /\ op'["daemon"] = Into(RecordGoodBoot(d), "arm")
         \/ /\ running \in Healthy /\ IdentityConfirmed(d, running)
            /\ ReachesThreshold(d) /\ Preflight
            /\ op'["daemon"] = Into(RecordGoodBoot(d), "promote")
  <2>1. CASE Goto("daemon", "idle")
    BY <1>1, <1>2, <2>1, IdleGoto DEF TypeInv
  <2>2. CASE Decided(RecordFailedBoot(d, boot), "arm")
    BY <1>5, <1>6, <2>2
  <2>3. CASE /\ running \in Healthy /\ IdentityConfirmed(d, running)
             /\ ~ReachesThreshold(d) /\ Decided(RecordGoodBoot(d), "arm")
    BY <1>5, <1>6, <2>3
  <2>4. CASE /\ running \in Healthy /\ IdentityConfirmed(d, running)
             /\ ReachesThreshold(d) /\ Preflight /\ Decided(RecordGoodBoot(d), "promote")
    BY <1>5, <1>6, <2>4
  <2> QED
    BY <2>1, <2>2, <2>3, <2>4 DEF Decide
<1>8. UNCHANGED <<wal, boot, mode, used, handed>>
  BY DEF Decide, esp, session
<1>9. TypeInv' /\ (~Overlap => op'["server"] = Idle)
  BY <1>1, <1>2, <1>7, <1>8, WorkType DEF TypeInv
<1> QED
  BY <1>2, <1>4, <1>7, <1>9

-----------------------------------------------------------------------------
(* What the processes rely on while they take turns, per theorem.          *)

(* The files of the ESP. *)
Pairs == [img : Images, sig : Images]
Loaders == [installed : Images, cand : Releases \cup {None},
            ran : Releases \cup {None}, failed : Releases \cup {None}]
Recoveries == [cur : Releases \cup {None}, curSig : Releases \cup {None},
               prev : Releases \cup {None}, prevSig : Releases \cup {None}]

FilesInv ==
  /\ next \in Pairs /\ active \in Pairs /\ prev \in Pairs
  /\ loader \in Loaders
  /\ rec \in Recoveries

(* The daemon installs what the loader that ran was staged from. *)
StartedInv ==
  /\ loader.installed \in {Loader(v) : v \in started}
  /\ loader.ran \in started \cup {None}
  /\ \A p \in Processes :
       At(p, "install") => next.img \in {Loader(v) : v \in started}

(* The copy of the WAL that an operation works on, against the WAL: only   *)
(* a staging of an OS brings in a candidate, and only its image is then in *)
(* the next slot.                                                          *)
ClaimOf(o) ==
  /\ o.kind \in {"stable", "loader", "recovery"} => ~HasPending(wal)
  /\ o.kind = "recovery" /\ o.step = "save" => ~HasPending(o.copy)
  /\ o.kind \in {"stable", "prepare"} => ~HasPending(o.copy)
  /\ o.kind = "confirm" /\ HasPending(o.copy) => o.copy.pending = wal.pending
  /\ o.step = "decide" => o.copy = wal
  /\ o.kind = "os" /\ o.step \in {"fetchSig", "load", "save"} => next.img = Os(o.rel)
  /\ o.kind = "os" /\ o.step = "save" =>
       o.copy.pending = o.rel /\ o.copy.stableBoots = 0

ClaimsInv == \A p \in Processes : ClaimOf(op[p])

(* A trial that is left belongs to an OS candidate, or is the single one   *)
(* of a loader that was not handed control yet.                            *)
TrialOf(o) ==
  /\ o.kind \in {"confirm", "prepare"} /\ o.step = "save" /\ ~HasPending(o.copy)
       => ~TrialLeft
  /\ o.kind = "loader" /\ o.step = "arm" => handed = 0

TriedInv ==
  /\ handed <= 1
  /\ HasPending(wal) => next.img[1] # "loader"
  /\ TrialLeft => HasPending(wal) \/ (handed = 0 /\ boot.attempts = 1)
  /\ \A p \in Processes : TrialOf(op[p])

(* The recovery slot: a pair, a pair that one step restores, or the image  *)
(* brought back before its signature.                                      *)
Whole == rec.cur # None /\ rec.curSig = rec.cur
Restorable ==
  /\ rec.cur = None /\ rec.prev # None
  /\ rec.prevSig = rec.prev \/ (rec.prevSig = None /\ rec.curSig = rec.prev)
Half ==
  /\ rec.cur # None /\ rec.prev = None
  /\ rec.prevSig = rec.cur \/ (rec.prevSig = None /\ rec.curSig = rec.cur)

RecoveryOf(o) ==
  /\ o.step = "restoreSig" => Half
  /\ o.step = "forgetSig" => Whole /\ rec.prev = None
  /\ o.kind = "stable" /\ o.step \in {"arm", "clean", "cleanSig"} => Whole
  /\ o.kind = "recovery" =>
       /\ o.step \in {"compare", "keep", "load", "save"} =>
            Whole /\ rec.prev = None /\ rec.prevSig = None
       /\ o.step = "keepSig" =>
            /\ rec.cur = None /\ rec.prev # None
            /\ rec.curSig = rec.prev /\ rec.prevSig = None
       /\ o.step \in {"putSig", "put"} =>
            rec.cur = None /\ rec.prev # None /\ rec.prevSig = rec.prev
       /\ o.step = "put" => rec.curSig = o.rel
       /\ o.step \in {"drop", "dropSig"} => Whole
       /\ o.step = "dropSig" => rec.prev = None

RecoveryInv ==
  used.faults <= 1 =>
    /\ \A p \in Processes : RecoveryOf(op[p])
    /\ \/ Whole \/ Restorable
       \/ \E p \in Processes : At(p, "restoreSig")
    /\ used.faults = 0 =>
         \/ Whole /\ \A p \in Processes : ~At(p, "restoreSig")
         \/ \E p \in Processes : op[p].step \in {"keepSig", "putSig", "put"}

(* Without faults, what is in the next slot is the pending candidate once  *)
(* the staging that brings it is done, and a counted good boot proves it.  *)
SlotOf(o) ==
  /\ o.step \notin {"verify", "fetchSig", "load", "save"} =>
       next.img \in {Nothing, Os(wal.pending)}
  /\ o.step \notin {"load", "save"} => next.sig \in {Nothing, Os(wal.pending)}

ProvenOf(o) ==
  /\ o.step = "promote" => next.sig = next.img /\ next.img \in {Os(v) : v \in proven}
  /\ o.kind = "confirm" /\ HasPending(o.copy) /\ o.copy.stableBoots > 0
       => o.copy.pending \in proven
  /\ o.kind = "os" /\ o.step \in {"load", "save"} => next.sig = Os(o.rel)

ProvenInv ==
  used.faults = 0 =>
    /\ Chainable(active) /\ active.img \in {Os(v) : v \in proven}
    /\ HasPending(wal) /\ wal.stableBoots > 0 => wal.pending \in proven
    /\ HasPending(wal) => SlotOf(op["server"])
    /\ \A p \in Processes : ProvenOf(op[p])

TurnsInv == FilesInv /\ StartedInv /\ ClaimsInv /\ TriedInv /\ RecoveryInv /\ ProvenInv

(* A step of p to its successor, or to step s, with the other process      *)
(* idle before and after it.                                               *)
Alone(p) == \A q \in Processes \ {p} : op[q] = Idle

LEMMA ProceedType ==
  ASSUME TypeInv, ~Overlap, NEW p \in Processes, Proceed(p),
         op[p].step \notin {"idle", "decide", "marker", "repair", "check", "compare"},
         GoodRecord(wal'), boot' \in BootStates, handed' \in Nat,
         UNCHANGED <<mode, used>>
  PROVE  LET s == After[op[p].kind][op[p].step] IN
         /\ TypeInv' /\ Alone(p) /\ Alone(p)'
         /\ Underway(p, op[p])
         /\ op'[p] = IF s = "idle" THEN Idle ELSE [op[p] EXCEPT !.step = s]
<1> DEFINE s == After[op[p].kind][op[p].step]
<1>1. /\ OpInv' /\ \A q \in Processes \ {p} : op'[q] = op[q]
      /\ op'[p] = IF s = "idle" THEN Idle ELSE [op[p] EXCEPT !.step = s]
  BY ProceedOp DEF TypeInv
<1>2. Underway(p, op[p])
  BY AtWork DEF TypeInv
<1> HIDE DEF s
<1> QED
  BY <1>1, <1>2, WorkType DEF Alone, s

LEMMA GotoType ==
  ASSUME TypeInv, ~Overlap, NEW p \in Processes, op[p].step # "idle",
         NEW s \in Steps, s # "decide", Goto(p, s),
         s = "idle" \/ Fits(p, [op[p] EXCEPT !.step = s]),
         GoodRecord(wal'), boot' \in BootStates, handed' \in Nat,
         UNCHANGED <<mode, used>>
  PROVE  /\ TypeInv' /\ Alone(p) /\ Alone(p)'
         /\ Underway(p, op[p])
         /\ op'[p] = IF s = "idle" THEN Idle ELSE [op[p] EXCEPT !.step = s]
<1>1. /\ OpInv' /\ \A q \in Processes \ {p} : op'[q] = op[q]
      /\ op'[p] = IF s = "idle" THEN Idle ELSE [op[p] EXCEPT !.step = s]
  BY GotoOp DEF TypeInv
<1>2. Underway(p, op[p])
  BY AtWork DEF TypeInv
<1> QED
  BY <1>1, <1>2, WorkType DEF Alone

(* An operation that moves to another step is otherwise the same. *)
LEMMA MovedOp ==
  ASSUME NEW o \in Ops, NEW s \in Steps
  PROVE  LET n == [o EXCEPT !.step = s] IN
         n.step = s /\ n.kind = o.kind /\ n.copy = o.copy /\ n.rel = o.rel
BY DEF Ops

LEMMA ImagesAre ==
  /\ Nothing \in Images /\ Corrupt \in Images
  /\ \A v \in Releases : Os(v) \in Images /\ Loader(v) \in Images
  /\ \A x \in Images :
       /\ x[1] = "loader" => x[2] \in Releases /\ x = Loader(x[2])
       /\ x[1] = "os" => x[2] \in Releases /\ x = Os(x[2])
  /\ \A v, w :
       /\ Os(v) # Nothing /\ Os(v) # Corrupt /\ Os(v) # Loader(w)
       /\ Loader(v) # Nothing /\ Loader(v) # Corrupt
       /\ Os(v) = Os(w) => v = w
       /\ Loader(v) = Loader(w) => v = w
       /\ Os(v)[1] # "loader" /\ Loader(v)[1] = "loader"
       /\ Loader(v)[2] = v
  /\ Nothing # Corrupt /\ Nothing[1] # "loader" /\ Corrupt[1] # "loader"
BY DEF Images, Nothing, Corrupt, Os, Loader

(* What a step leaves as it was. *)
LEMMA StartedFrame ==
  ASSUME StartedInv, NEW p \in Processes, Alone(p)',
         UNCHANGED <<loader, started>>, op'[p].step # "install"
  PROVE  StartedInv'
<1>1. \A q \in Processes : op'[q].step # "install"
  BY IdleOp DEF Alone
<1> QED
  BY <1>1 DEF StartedInv, At

LEMMA TriedFrame ==
  ASSUME TriedInv, NEW p \in Processes, Alone(p)',
         UNCHANGED <<wal, boot, handed>>,
         HasPending(wal) => next'.img = next.img \/ next'.img[1] # "loader",
         TrialOf(op[p])'
  PROVE  TriedInv'
<1>1. \A q \in Processes : TrialOf(op[q])'
  BY IdleOp DEF Alone, TrialOf
<1> QED
  BY <1>1 DEF TriedInv, TrialLeft

LEMMA RecoveryFrame ==
  ASSUME RecoveryInv, NEW p \in Processes, Alone(p), Alone(p)',
         UNCHANGED <<rec, used>>,
         op[p].step \notin {"restoreSig", "keepSig", "putSig", "put"},
         op'[p].step # "restoreSig",
         used.faults <= 1 => RecoveryOf(op[p])'
  PROVE  RecoveryInv'
<1> SUFFICES ASSUME used'.faults <= 1 PROVE RecoveryInv'
  BY DEF RecoveryInv
<1>1. \A q \in Processes : RecoveryOf(op[q])'
  BY IdleOp DEF Alone, RecoveryOf
<1>2. \A q \in Processes : op[q].step \notin {"restoreSig", "keepSig", "putSig", "put"}
  BY IdleOp DEF Alone
<1>3. \A q \in Processes : op'[q].step # "restoreSig"
  BY IdleOp DEF Alone
<1>4. (Whole \/ Restorable) /\ (used.faults = 0 => Whole)
  BY <1>2 DEF RecoveryInv, At
<1>5. (Whole \/ Restorable)' /\ (used'.faults = 0 => Whole')
  BY <1>4 DEF Whole, Restorable
<1> QED
  BY <1>1, <1>3, <1>5 DEF RecoveryInv, At

LEMMA ProvenFrame ==
  ASSUME ProvenInv, NEW p \in Processes, Alone(p)',
         UNCHANGED <<wal, active, used>>, proven \subseteq proven',
         used.faults = 0 => /\ HasPending(wal) => SlotOf(op["server"])'
                            /\ ProvenOf(op[p])'
  PROVE  ProvenInv'
<1> SUFFICES ASSUME used'.faults = 0 PROVE ProvenInv'
  BY DEF ProvenInv
<1>1. \A q \in Processes : ProvenOf(op[q])'
  BY IdleOp DEF Alone, ProvenOf
<1> QED
  BY <1>1 DEF ProvenInv, Chainable

LEMMA ClaimsFrame ==
  ASSUME TypeInv, ClaimsInv, NEW p \in Processes, Alone(p)', wal' = wal,
         op[p] \in Ops, NEW s \in Steps,
         op'[p] = Idle \/ op'[p] = [op[p] EXCEPT !.step = s],
         s \notin {"decide", "fetchSig"}, s = "load" => op[p].kind # "os",
         s = "save" => op[p].kind \notin {"os", "recovery"}
  PROVE  ClaimsInv'
<1>1. ClaimOf(op[p])
  BY DEF ClaimsInv
<1>2. ASSUME NEW q \in Processes, op'[q] = Idle PROVE ClaimOf(op[q])'
  BY <1>2, IdleOp DEF ClaimOf
<1>3. ASSUME op'[p] = [op[p] EXCEPT !.step = s] PROVE ClaimOf(op[p])'
  <2>1. /\ op'[p].step = s /\ op'[p].kind = op[p].kind
        /\ op'[p].copy = op[p].copy /\ op'[p].rel = op[p].rel
    BY <1>3, MovedOp
  <2> QED
    BY <1>1, <2>1 DEF ClaimOf
<1> QED
  BY <1>2, <1>3 DEF ClaimsInv, Alone

(* A step of the daemon or of the server that leaves the WAL, the boot     *)
(* files and the next slot alone.                                          *)
LEMMA MoveFrame ==
  ASSUME TypeInv, ClaimsInv, TriedInv, ProvenInv,
         NEW p \in Processes, Alone(p), Alone(p)', op[p] \in Ops, NEW s \in Steps,
         UNCHANGED <<wal, boot, next, active, used, proven, handed>>,
         op'[p] = Idle \/ op'[p] = [op[p] EXCEPT !.step = s],
         op[p].step \notin {"verify", "fetchSig", "load", "save"},
         s \notin {"decide", "save", "fetchSig", "promote"},
         s = "load" => op[p].kind # "os",
         s = "arm" => op[p].kind # "loader"
  PROVE  ClaimsInv' /\ TriedInv' /\ ProvenInv'
<1>1. \/ op'[p] = Idle
      \/ /\ op'[p].step = s /\ op'[p].kind = op[p].kind
         /\ op'[p].copy = op[p].copy /\ op'[p].rel = op[p].rel
  <2>1. CASE op'[p] = [op[p] EXCEPT !.step = s]
    BY <2>1 DEF Ops
  <2> QED
    BY <2>1
<1>2. ClaimsInv'
  BY ClaimsFrame
<1>3. TrialOf(op[p])'
  BY <1>1, IdleOp DEF TrialOf
<1>4. TriedInv'
  BY <1>3, TriedFrame
<1>5. ASSUME used.faults = 0, HasPending(wal) PROVE SlotOf(op["server"])'
  <2>1. SlotOf(op["server"])
    BY <1>5 DEF ProvenInv
  <2>2. CASE p = "daemon"
    <3>1. op["server"] = Idle /\ op'["server"] = Idle
      BY <2>2 DEF Alone, Processes
    <3> QED
      BY <2>1, <3>1 DEF SlotOf
  <2>3. CASE p = "server"
    BY <2>1, <2>3 DEF SlotOf
  <2> QED
    BY <2>2, <2>3 DEF Processes
<1>6. ASSUME used.faults = 0 PROVE ProvenOf(op[p])'
  <2>1. ProvenOf(op[p])
    BY <1>6 DEF ProvenInv
  <2> QED
    BY <1>1, <2>1, IdleOp DEF ProvenOf
<1>7. ProvenInv'
  BY <1>5, <1>6, ProvenFrame
<1> QED
  BY <1>2, <1>4, <1>7

-----------------------------------------------------------------------------
(* Each step, while the other process is idle. *)

LEMMA CancelTurns ==
  ASSUME TypeInv, ~Overlap, TurnsInv, NEW p \in Processes, Cancel(p)
  PROVE  TypeInv' /\ TurnsInv'
<1>1. /\ op[p].step = "cancel" /\ Proceed(p)
      /\ UNCHANGED <<wal, boot, next, active, prev, rec, mode, used, proven,
                     started, handed>>
      /\ loader' = [loader EXCEPT !.cand = None]
  BY DEF Cancel, At, session, history
<1>2. /\ TypeInv' /\ Alone(p) /\ Alone(p)' /\ Underway(p, op[p])
      /\ op'[p] = IF After[op[p].kind]["cancel"] = "idle" THEN Idle
                  ELSE [op[p] EXCEPT !.step = After[op[p].kind]["cancel"]]
  BY <1>1, ProceedType DEF TypeInv
<1>3. After[op[p].kind]["cancel"] = "cancelRan"
  BY <1>1, <1>2, AfterIs DEF Underway, Fits, ConfirmSteps, PrepareSteps, LoaderSteps,
                             RecoverySteps
<1>4. /\ op'[p] = [op[p] EXCEPT !.step = "cancelRan"]
      /\ op'[p].step = "cancelRan" /\ op'[p].kind = op[p].kind /\ op[p] \in Ops
  BY <1>2, <1>3, MovedOp DEF Underway, Steps
<1>5. FilesInv' /\ StartedInv'
  <2>1. loader' \in Loaders /\ loader'.installed = loader.installed
        /\ loader'.ran = loader.ran
    BY <1>1 DEF TurnsInv, FilesInv, Loaders
  <2>2. FilesInv'
    BY <1>1, <2>1 DEF TurnsInv, FilesInv
  <2>3. \A q \in Processes : op'[q].step # "install"
    BY <1>2, <1>4, IdleOp DEF Alone
  <2> QED
    BY <1>1, <2>1, <2>2, <2>3 DEF TurnsInv, StartedInv, At
<1>6. ClaimsInv' /\ TriedInv' /\ ProvenInv'
  BY <1>1, <1>2, <1>4, MoveFrame DEF TurnsInv, Steps
<1>7. RecoveryInv'
  BY <1>1, <1>2, <1>4, RecoveryFrame DEF TurnsInv, RecoveryOf
<1> QED
  BY <1>2, <1>5, <1>6, <1>7 DEF TurnsInv

LEMMA CancelRanTurns ==
  ASSUME TypeInv, ~Overlap, TurnsInv, NEW p \in Processes, CancelRan(p)
  PROVE  TypeInv' /\ TurnsInv'
<1>1. /\ op[p].step = "cancelRan" /\ Proceed(p)
      /\ UNCHANGED <<wal, boot, next, active, prev, rec, mode, used, proven,
                     started, handed>>
      /\ loader' = [loader EXCEPT !.ran = None]
  BY DEF CancelRan, At, session, history
<1> DEFINE s == After[op[p].kind]["cancelRan"]
<1>2. /\ TypeInv' /\ Alone(p) /\ Alone(p)' /\ Underway(p, op[p])
      /\ op'[p] = IF s = "idle" THEN Idle ELSE [op[p] EXCEPT !.step = s]
  BY <1>1, ProceedType DEF TypeInv
<1>3. s \in {"repair", "fetch", "mark"}
  BY <1>1, <1>2, AfterIs DEF Underway, Fits, ConfirmSteps, PrepareSteps, RecoverySteps
<1> HIDE DEF s
<1>4. /\ op'[p] = [op[p] EXCEPT !.step = s] /\ s \in Steps
      /\ op'[p].step = s /\ op'[p].kind = op[p].kind /\ op[p] \in Ops
  BY <1>2, <1>3, MovedOp DEF Underway, Steps
<1>5. FilesInv' /\ StartedInv'
  <2>1. loader' \in Loaders /\ loader'.installed = loader.installed
        /\ loader'.ran = None
    BY <1>1 DEF TurnsInv, FilesInv, Loaders
  <2>2. FilesInv'
    BY <1>1, <2>1 DEF TurnsInv, FilesInv
  <2>3. \A q \in Processes : op'[q].step # "install"
    BY <1>2, <1>3, <1>4, IdleOp DEF Alone
  <2> QED
    BY <1>1, <2>1, <2>2, <2>3 DEF TurnsInv, StartedInv, At
<1>6. ClaimsInv' /\ TriedInv' /\ ProvenInv'
  BY <1>1, <1>2, <1>3, <1>4, MoveFrame DEF TurnsInv
<1>7. RecoveryInv'
  BY <1>1, <1>2, <1>3, <1>4, RecoveryFrame DEF TurnsInv, RecoveryOf
<1> QED
  BY <1>2, <1>5, <1>6, <1>7 DEF TurnsInv

LEMMA DaemonIs == "daemon" \in Processes /\ Processes \ {"daemon"} = {"server"}
                  /\ "server" \in Processes /\ Processes \ {"server"} = {"daemon"}
BY DEF Processes

LEMMA ForgetFailureTurns ==
  ASSUME TypeInv, ~Overlap, TurnsInv, ForgetFailure
  PROVE  TypeInv' /\ TurnsInv'
<1> DEFINE p == "daemon"
<1>1. /\ op[p].step = "forget" /\ Proceed(p)
      /\ UNCHANGED <<wal, boot, next, active, prev, rec, mode, used, proven,
                     started, handed>>
      /\ loader' = [loader EXCEPT !.failed = None]
  BY DEF ForgetFailure, At, session, history
<1>2. /\ TypeInv' /\ Alone(p) /\ Alone(p)' /\ Underway(p, op[p])
      /\ op'[p] = IF After[op[p].kind]["forget"] = "idle" THEN Idle
                  ELSE [op[p] EXCEPT !.step = After[op[p].kind]["forget"]]
  BY <1>1, DaemonIs, ProceedType DEF TypeInv
<1>3. After[op[p].kind]["forget"] = "cancel"
  BY <1>1, <1>2, AfterIs DEF Underway, Fits, ConfirmSteps
<1>4. /\ op'[p] = [op[p] EXCEPT !.step = "cancel"]
      /\ op'[p].step = "cancel" /\ op'[p].kind = op[p].kind /\ op[p] \in Ops
  BY <1>2, <1>3, MovedOp DEF Underway, Steps
<1>5. FilesInv' /\ StartedInv'
  <2>1. loader' \in Loaders /\ loader'.installed = loader.installed
        /\ loader'.ran = loader.ran
    BY <1>1 DEF TurnsInv, FilesInv, Loaders
  <2>2. FilesInv'
    BY <1>1, <2>1 DEF TurnsInv, FilesInv
  <2>3. \A q \in Processes : op'[q].step # "install"
    BY <1>2, <1>4, IdleOp DEF Alone
  <2> QED
    BY <1>1, <2>1, <2>2, <2>3 DEF TurnsInv, StartedInv, At
<1>6. ClaimsInv' /\ TriedInv' /\ ProvenInv'
  BY <1>1, <1>2, <1>4, DaemonIs, MoveFrame DEF TurnsInv, Steps
<1>7. RecoveryInv'
  BY <1>1, <1>2, <1>4, DaemonIs, RecoveryFrame DEF TurnsInv, RecoveryOf
<1> QED
  BY <1>2, <1>5, <1>6, <1>7 DEF TurnsInv

LEMMA HandleMarkerTurns ==
  ASSUME TypeInv, ~Overlap, TurnsInv, HandleMarker
  PROVE  TypeInv' /\ TurnsInv'
<1> DEFINE p == "daemon"
<1>1. /\ op[p].step = "marker"
      /\ UNCHANGED <<wal, boot, next, active, prev, rec, mode, used, proven,
                     started, handed>>
  BY DEF HandleMarker, At, session, history
<1>2. PICK s \in {"repair", "cancel", "install"} :
        /\ Goto(p, s)
        /\ loader' \in {loader, [loader EXCEPT !.failed = loader.cand]}
        /\ s = "install" => /\ loader.cand # None /\ loader.ran = loader.cand
                            /\ next.img = Loader(loader.cand)
  BY DEF HandleMarker, LeftMark, StillStaged
<1>3. Underway(p, op[p]) /\ op[p].kind = "stable" /\ op[p] \in Ops
  BY <1>1, DaemonIs, AtWork DEF TypeInv, Underway, Fits, ConfirmSteps
<1>4. s \in Steps /\ Fits(p, [op[p] EXCEPT !.step = s])
  BY <1>3, MovedOp DEF Steps, Fits, StableSteps
<1>5. /\ TypeInv' /\ Alone(p) /\ Alone(p)'
      /\ op'[p] = [op[p] EXCEPT !.step = s]
  BY <1>1, <1>2, <1>4, DaemonIs, GotoType DEF TypeInv
<1>6. op'[p].step = s /\ op'[p].kind = op[p].kind
  BY <1>3, <1>4, <1>5, MovedOp
<1>7. FilesInv' /\ StartedInv'
  <2>1. loader' \in Loaders /\ loader'.installed = loader.installed
        /\ loader'.ran = loader.ran
    BY <1>2 DEF TurnsInv, FilesInv, Loaders
  <2>2. FilesInv'
    BY <1>1, <2>1 DEF TurnsInv, FilesInv
  <2>3. op'["server"].step # "install"
    BY <1>5, DaemonIs, IdleOp DEF Alone
  <2>4. s = "install" => loader.ran \in started
    BY <1>2 DEF TurnsInv, StartedInv
  <2>5. At(p, "install")' => next.img \in {Loader(v) : v \in started}
    BY <1>2, <1>6, <2>4 DEF At
  <2> QED
    BY <1>1, <2>1, <2>2, <2>3, <2>5, DaemonIs DEF TurnsInv, StartedInv, At
<1>8. ClaimsInv' /\ TriedInv' /\ ProvenInv'
  BY <1>1, <1>3, <1>4, <1>5, DaemonIs, MoveFrame DEF TurnsInv
<1>9. RecoveryInv'
  BY <1>1, <1>3, <1>5, <1>6, DaemonIs, RecoveryFrame DEF TurnsInv, RecoveryOf
<1> QED
  BY <1>5, <1>7, <1>8, <1>9 DEF TurnsInv

LEMMA InstallLoaderTurns ==
  ASSUME TypeInv, ~Overlap, TurnsInv, InstallLoader
  PROVE  TypeInv' /\ TurnsInv'
<1> DEFINE p == "daemon"
<1>1. /\ op[p].step = "install"
      /\ UNCHANGED <<wal, boot, next, active, prev, rec, mode, used, proven,
                     started, handed>>
  BY DEF InstallLoader, At, session, history
<1>2. next.img \in {Loader(v) : v \in started}
  BY <1>1, DaemonIs DEF TurnsInv, StartedInv, At
<1>3. Proceed(p) /\ loader' = [loader EXCEPT !.installed = next.img]
  BY <1>2, ImagesAre DEF InstallLoader
<1>4. /\ TypeInv' /\ Alone(p) /\ Alone(p)' /\ Underway(p, op[p])
      /\ op'[p] = IF After[op[p].kind]["install"] = "idle" THEN Idle
                  ELSE [op[p] EXCEPT !.step = After[op[p].kind]["install"]]
  BY <1>1, <1>3, DaemonIs, ProceedType DEF TypeInv
<1>5. After[op[p].kind]["install"] = "forget"
  BY <1>1, <1>4, AfterIs DEF Underway, Fits, ConfirmSteps
<1>6. /\ op'[p] = [op[p] EXCEPT !.step = "forget"]
      /\ op'[p].step = "forget" /\ op'[p].kind = op[p].kind /\ op[p] \in Ops
  BY <1>4, <1>5, MovedOp DEF Underway, Steps
<1>7. FilesInv' /\ StartedInv'
  <2>1. loader' \in Loaders /\ loader'.installed = next.img
        /\ loader'.ran = loader.ran
    BY <1>3 DEF TurnsInv, FilesInv, Loaders, Pairs
  <2>2. FilesInv'
    BY <1>1, <2>1 DEF TurnsInv, FilesInv
  <2>3. \A q \in Processes : op'[q].step # "install"
    BY <1>4, <1>6, IdleOp DEF Alone
  <2> QED
    BY <1>1, <1>2, <2>1, <2>2, <2>3 DEF TurnsInv, StartedInv, At
<1>8. ClaimsInv' /\ TriedInv' /\ ProvenInv'
  BY <1>1, <1>4, <1>6, DaemonIs, MoveFrame DEF TurnsInv, Steps
<1>9. RecoveryInv'
  BY <1>1, <1>4, <1>6, DaemonIs, RecoveryFrame DEF TurnsInv, RecoveryOf
<1> QED
  BY <1>4, <1>7, <1>8, <1>9 DEF TurnsInv

(* A step on the recovery slot. *)
LEMMA RecoveryStep ==
  ASSUME TypeInv, ~Overlap, TurnsInv, NEW p \in Processes, op[p].step # "idle",
         NEW s \in Steps, Goto(p, s), s \notin {"decide", "save", "fetchSig", "promote", "install"},
         s = "idle" \/ Fits(p, [op[p] EXCEPT !.step = s]),
         op[p].step \notin {"verify", "fetchSig", "load", "save"},
         op[p].kind \in {"stable", "recovery"},
         rec' \in Recoveries,
         UNCHANGED <<wal, boot, next, active, prev, loader, session, used, history>>
  PROVE  /\ TypeInv' /\ FilesInv' /\ StartedInv' /\ ClaimsInv' /\ TriedInv' /\ ProvenInv'
         /\ Alone(p) /\ Alone(p)'
         /\ op[p] \in Ops /\ Underway(p, op[p])
         /\ \/ s = "idle" /\ op'[p] = Idle
            \/ /\ op'[p] = [op[p] EXCEPT !.step = s]
               /\ op'[p].step = s /\ op'[p].kind = op[p].kind /\ op'[p].rel = op[p].rel
<1>1. UNCHANGED <<wal, boot, next, active, prev, loader, mode, used, proven, started, handed>>
  BY DEF session, history
<1>2. /\ TypeInv' /\ Alone(p) /\ Alone(p)' /\ Underway(p, op[p])
      /\ op'[p] = IF s = "idle" THEN Idle ELSE [op[p] EXCEPT !.step = s]
  BY <1>1, GotoType DEF TypeInv
<1>3. op[p] \in Ops
  BY <1>2 DEF Underway
<1>4. \/ s = "idle" /\ op'[p] = Idle
      \/ /\ op'[p] = [op[p] EXCEPT !.step = s]
         /\ op'[p].step = s /\ op'[p].kind = op[p].kind /\ op'[p].rel = op[p].rel
  BY <1>2, <1>3 DEF Ops
<1>5. FilesInv'
  BY <1>1 DEF TurnsInv, FilesInv
<1>6. StartedInv'
  <2>1. op'[p].step # "install"
    BY <1>4, IdleOp
  <2> QED
    BY <1>1, <1>2, <2>1, StartedFrame DEF TurnsInv
<1>7. ClaimsInv' /\ TriedInv' /\ ProvenInv'
  <2>1. op'[p] = Idle \/ op'[p] = [op[p] EXCEPT !.step = s]
    BY <1>4
  <2>2. op[p].kind # "os" /\ op[p].kind # "loader"
    OBVIOUS
  <2> QED
    BY <1>1, <1>2, <1>3, <2>1, <2>2, MoveFrame DEF TurnsInv
<1> QED
  BY <1>2, <1>3, <1>4, <1>5, <1>6, <1>7

(* Where RecoveryInv stands when no swap is underway. *)
LEMMA NoSwap ==
  ASSUME RecoveryInv, used.faults <= 1, NEW p \in Processes, Alone(p)
  PROVE  /\ RecoveryOf(op[p])
         /\ op[p].step # "restoreSig" => Whole \/ Restorable
         /\ op[p].step \notin {"keepSig", "putSig", "put"} /\ used.faults = 0
              => Whole /\ op[p].step # "restoreSig"
BY IdleOp DEF RecoveryInv, Alone, At

LEMMA RecoveryNext ==
  ASSUME NEW p \in Processes, Alone(p)',
         used'.faults <= 1 =>
           /\ RecoveryOf(op[p])'
           /\ Whole' \/ Restorable' \/ op'[p].step = "restoreSig"
           /\ used'.faults = 0 =>
                \/ Whole' /\ op'[p].step # "restoreSig"
                \/ op'[p].step \in {"keepSig", "putSig", "put"}
  PROVE  RecoveryInv'
<1>1. ASSUME NEW q \in Processes, op'[q] = Idle PROVE RecoveryOf(op[q])'
  BY <1>1, IdleOp DEF RecoveryOf
<1> QED
  BY <1>1, IdleOp DEF RecoveryInv, Alone, At

LEMMA RepairTurns ==
  ASSUME TypeInv, ~Overlap, TurnsInv, NEW p \in Processes, Repair(p)
  PROVE  TypeInv' /\ TurnsInv'
<1>1. /\ op[p].step = "repair"
      /\ UNCHANGED <<wal, boot, next, active, prev, loader, session, used, history>>
  BY DEF Repair, At
<1>2. Underway(p, op[p]) /\ op[p] \in Ops
  BY <1>1, AtWork DEF TypeInv, Underway
<1>3. op[p].kind \in {"stable", "recovery"}
  BY <1>1, <1>2 DEF Underway, Fits, ConfirmSteps, PrepareSteps, OsSteps, LoaderSteps
<1>4. After[op[p].kind].restoreSig \in {"arm", "compare"}
      /\ (op[p].kind = "stable" <=> After[op[p].kind].restoreSig = "arm")
  BY <1>3, AfterIs
<1>5. PICK s \in {"forgetSig", "restoreSig", "arm", "compare"} :
        /\ Goto(p, s)
        /\ \/ /\ rec.cur # None /\ rec.curSig # None /\ s = "forgetSig"
              /\ rec' = [rec EXCEPT !.prev = None]
           \/ /\ ~(rec.cur # None /\ rec.curSig # None) /\ rec.prev # None
              /\ s = "restoreSig" /\ rec' = [rec EXCEPT !.cur = rec.prev, !.prev = None]
           \/ /\ ~(rec.cur # None /\ rec.curSig # None) /\ rec.prev = None
              /\ s = After[op[p].kind].restoreSig /\ rec' = rec
  BY <1>4 DEF Repair
<1>6. s \in Steps /\ Fits(p, [op[p] EXCEPT !.step = s])
  <2>1. [op[p] EXCEPT !.step = s].step = s /\ [op[p] EXCEPT !.step = s].kind = op[p].kind
    BY <1>2 DEF Ops
  <2>2. s \in Steps /\ (op[p].kind = "stable" => s # "compare")
        /\ (op[p].kind = "recovery" => s # "arm")
    BY <1>4, <1>5 DEF Steps
  <2> QED
    BY <1>1, <1>2, <1>3, <2>1, <2>2
    DEF Underway, Fits, StableSteps, RecoverySteps
<1>7. rec' \in Recoveries
  BY <1>5 DEF TurnsInv, FilesInv, Recoveries
<1>8. /\ TypeInv' /\ FilesInv' /\ StartedInv' /\ ClaimsInv' /\ TriedInv' /\ ProvenInv'
      /\ Alone(p) /\ Alone(p)'
      /\ op'[p].step = s /\ op'[p].kind = op[p].kind
  BY <1>1, <1>3, <1>5, <1>6, <1>7, RecoveryStep
<1>9. RecoveryInv'
  <2> SUFFICES ASSUME used.faults <= 1
               PROVE  /\ RecoveryOf(op[p])'
                      /\ Whole' \/ op'[p].step = "restoreSig"
                      /\ used.faults = 0 => Whole' /\ op'[p].step # "restoreSig"
    BY <1>1, <1>8, RecoveryNext
  <2>1. Whole \/ (Restorable /\ used.faults # 0)
    BY <1>1, <1>8, NoSwap DEF TurnsInv, Whole, Restorable
  <2>2. CASE Whole
    <3>1. s = "forgetSig" /\ rec' = [rec EXCEPT !.prev = None]
      BY <1>5, <2>2 DEF Whole
    <3>2. Whole' /\ rec'.prev = None
      BY <2>2, <3>1 DEF Whole, TurnsInv, FilesInv, Recoveries
    <3> QED
      BY <1>8, <3>1, <3>2 DEF RecoveryOf
  <2>3. CASE Restorable /\ used.faults # 0
    <3>1. s = "restoreSig" /\ rec' = [rec EXCEPT !.cur = rec.prev, !.prev = None]
      BY <1>5, <2>3 DEF Restorable
    <3>2. Half'
      BY <2>3, <3>1 DEF Restorable, Half, TurnsInv, FilesInv, Recoveries
    <3> QED
      BY <1>8, <2>3, <3>1, <3>2 DEF RecoveryOf
  <2> QED
    BY <2>1, <2>2, <2>3
<1> QED
  BY <1>8, <1>9 DEF TurnsInv

LEMMA ForgetSigTurns ==
  ASSUME TypeInv, ~Overlap, TurnsInv, NEW p \in Processes, ForgetSig(p)
  PROVE  TypeInv' /\ TurnsInv'
<1>1. /\ op[p].step = "forgetSig" /\ Proceed(p)
      /\ rec' = [rec EXCEPT !.prevSig = None]
      /\ UNCHANGED <<wal, boot, next, active, prev, loader, session, used, history>>
  BY DEF ForgetSig, At
<1> DEFINE s == After[op[p].kind]["forgetSig"]
<1>2. Underway(p, op[p])
  BY <1>1, AtWork DEF TypeInv
<1>3. op[p].kind \in {"stable", "recovery"} /\ op[p] \in Ops
  BY <1>1, <1>2 DEF Underway, Fits, ConfirmSteps, PrepareSteps, OsSteps, LoaderSteps
<1>4. s \in {"arm", "compare"} /\ Goto(p, s)
  BY <1>1, <1>3, AfterIs DEF Proceed
<1>5. s \in Steps /\ (s = "idle" \/ Fits(p, [op[p] EXCEPT !.step = s]))
  BY <1>1, <1>2, <1>4, SuccessorFits
<1> HIDE DEF s
<1>6. rec' \in Recoveries
  BY <1>1 DEF TurnsInv, FilesInv, Recoveries
<1>7. /\ TypeInv' /\ FilesInv' /\ StartedInv' /\ ClaimsInv' /\ TriedInv' /\ ProvenInv'
      /\ Alone(p) /\ Alone(p)'
      /\ op'[p].step = s /\ op'[p].kind = op[p].kind
  BY <1>1, <1>3, <1>4, <1>5, <1>6, RecoveryStep
<1>8. RecoveryInv'
  <2> SUFFICES ASSUME used.faults <= 1
               PROVE  RecoveryOf(op[p])' /\ Whole'
    BY <1>1, <1>4, <1>7, RecoveryNext
  <2>1. Whole /\ rec.prev = None
    BY <1>1, <1>7, NoSwap DEF TurnsInv, RecoveryOf
  <2>2. Whole' /\ rec'.prev = None /\ rec'.prevSig = None
    BY <1>1, <2>1 DEF Whole, TurnsInv, FilesInv, Recoveries
  <2> QED
    BY <1>4, <1>7, <2>2 DEF RecoveryOf
<1> QED
  BY <1>7, <1>8 DEF TurnsInv

LEMMA RestoreSigTurns ==
  ASSUME TypeInv, ~Overlap, TurnsInv, NEW p \in Processes, RestoreSig(p)
  PROVE  TypeInv' /\ TurnsInv'
<1>1. /\ op[p].step = "restoreSig"
      /\ UNCHANGED <<wal, boot, next, active, prev, loader, session, used, history>>
  BY DEF RestoreSig, At
<1>2. Underway(p, op[p])
  BY <1>1, AtWork DEF TypeInv
<1>3. op[p].kind \in {"stable", "recovery"} /\ op[p] \in Ops
  BY <1>1, <1>2 DEF Underway, Fits, ConfirmSteps, PrepareSteps, OsSteps, LoaderSteps
<1>4. PICK s \in {"arm", "compare", "idle"} :
        /\ Goto(p, s)
        /\ s = "idle" \/ s = After[op[p].kind]["restoreSig"]
        /\ \/ rec.prevSig # None
              /\ rec' = [rec EXCEPT !.curSig = rec.prevSig, !.prevSig = None]
           \/ rec.prevSig = None /\ rec' = rec
  BY <1>1, <1>3, AfterIs DEF RestoreSig, Proceed
<1>5. s \in Steps /\ (s = "idle" \/ Fits(p, [op[p] EXCEPT !.step = s]))
  BY <1>1, <1>2, <1>4, SuccessorFits DEF Steps
<1>6. rec' \in Recoveries
  BY <1>4 DEF TurnsInv, FilesInv, Recoveries
<1>7. /\ TypeInv' /\ FilesInv' /\ StartedInv' /\ ClaimsInv' /\ TriedInv' /\ ProvenInv'
      /\ Alone(p) /\ Alone(p)'
      /\ \/ op'[p] = Idle
         \/ op'[p].step = s /\ op'[p].kind = op[p].kind
  BY <1>1, <1>3, <1>4, <1>5, <1>6, RecoveryStep
<1>8. RecoveryInv'
  <2> SUFFICES ASSUME used.faults <= 1
               PROVE  RecoveryOf(op[p])' /\ Whole' /\ op'[p].step # "restoreSig"
    BY <1>1, <1>7, RecoveryNext
  <2>1. Half
    BY <1>1, <1>7, NoSwap DEF TurnsInv, RecoveryOf
  <2>2. Whole' /\ rec'.prev = None /\ rec'.prevSig = None
    <3>1. rec \in Recoveries
      BY DEF TurnsInv, FilesInv
    <3>2. CASE rec.prevSig = None /\ rec' = rec
      <4>1. rec.curSig = rec.cur /\ rec.cur # None /\ rec.prev = None
        BY <2>1, <3>2 DEF Half
      <4> QED
        BY <3>2, <4>1 DEF Whole
    <3>3. CASE /\ rec.prevSig # None
               /\ rec' = [rec EXCEPT !.curSig = rec.prevSig, !.prevSig = None]
      <4>1. rec.prevSig = rec.cur /\ rec.cur # None /\ rec.prev = None
        BY <2>1, <3>3 DEF Half
      <4>2. /\ rec'.cur = rec.cur /\ rec'.curSig = rec.prevSig
            /\ rec'.prev = rec.prev /\ rec'.prevSig = None
        BY <3>1, <3>3 DEF Recoveries
      <4> QED
        BY <4>1, <4>2 DEF Whole
    <3> QED
      BY <1>4, <3>2, <3>3
  <2> QED
    BY <1>4, <1>7, <2>2, IdleOp DEF RecoveryOf
<1> QED
  BY <1>7, <1>8 DEF TurnsInv

LEMMA SwapTurns ==
  ASSUME TypeInv, ~Overlap, TurnsInv, Swap
  PROVE  TypeInv' /\ TurnsInv'
<1> DEFINE p == "server"
           t == op[p].step
           s == After[op[p].kind][t]
<1>1. /\ t \in {"keep", "keepSig", "putSig", "put", "drop", "dropSig"} /\ Goto(p, s)
      /\ rec' = Moved(t)
      /\ UNCHANGED <<wal, boot, next, active, prev, loader, session, used, history>>
  BY DEF Swap, Proceed
<1>2. Underway(p, op[p]) /\ op[p] \in Ops
  BY <1>1, DaemonIs, AtWork DEF TypeInv, Underway
<1>3. op[p].kind = "recovery"
  BY <1>1, <1>2 DEF Underway, Fits, PrepareSteps, OsSteps, LoaderSteps
<1>4. s \in Steps /\ (s = "idle" \/ Fits(p, [op[p] EXCEPT !.step = s]))
  BY <1>1, <1>2, DaemonIs, SuccessorFits
<1>5. /\ t = "keep" => s = "keepSig"
      /\ t = "keepSig" => s = "putSig"
      /\ t = "putSig" => s = "put"
      /\ t = "put" => s = "drop"
      /\ t = "drop" => s = "dropSig"
      /\ t = "dropSig" => s = "load"
  BY <1>3, AfterIs
<1>6. op[p].rel \in Releases /\ op[p].rel # None
  BY <1>2, ReleasesAssumption DEF Underway
<1>7. rec' \in Recoveries
  BY <1>1, <1>6 DEF Moved, TurnsInv, FilesInv, Recoveries
<1> HIDE DEF s
<1>8. /\ TypeInv' /\ FilesInv' /\ StartedInv' /\ ClaimsInv' /\ TriedInv' /\ ProvenInv'
      /\ Alone(p) /\ Alone(p)'
      /\ op'[p].step = s /\ op'[p].kind = "recovery" /\ op'[p].rel = op[p].rel
  BY <1>1, <1>3, <1>4, <1>5, <1>7, <1>2, DaemonIs, RecoveryStep
<1>9. RecoveryInv'
  <2> SUFFICES ASSUME used.faults <= 1
               PROVE  /\ RecoveryOf(op[p])'
                      /\ Whole' \/ Restorable'
                      /\ Whole' \/ op'[p].step \in {"keepSig", "putSig", "put"}
    BY <1>1, <1>5, <1>8, DaemonIs, RecoveryNext
  <2>1. RecoveryOf(op[p]) /\ rec \in Recoveries
    BY <1>8, DaemonIs, NoSwap DEF TurnsInv, FilesInv
  <2>2. CASE t = "keep"
    <3>1. rec' = [rec EXCEPT !.prev = rec.cur, !.cur = None]
      BY <1>1, <2>2 DEF Moved
    <3> QED
      BY <1>3, <1>5, <1>8, <2>1, <2>2, <3>1
      DEF RecoveryOf, Whole, Restorable, Recoveries
  <2>3. CASE t = "keepSig"
    <3>1. rec' = [rec EXCEPT !.prevSig = rec.curSig, !.curSig = None]
      BY <1>1, <1>3, <2>1, <2>3 DEF Moved, RecoveryOf
    <3> QED
      BY <1>3, <1>5, <1>8, <2>1, <2>3, <3>1
      DEF RecoveryOf, Whole, Restorable, Recoveries
  <2>4. CASE t = "putSig"
    <3>1. rec' = [rec EXCEPT !.curSig = op[p].rel]
      BY <1>1, <2>4 DEF Moved
    <3> QED
      BY <1>3, <1>5, <1>8, <2>1, <2>4, <3>1
      DEF RecoveryOf, Whole, Restorable, Recoveries
  <2>5. CASE t = "put"
    <3>1. rec' = [rec EXCEPT !.cur = op[p].rel]
      BY <1>1, <2>5 DEF Moved
    <3> QED
      BY <1>3, <1>5, <1>6, <1>8, <2>1, <2>5, <3>1
      DEF RecoveryOf, Whole, Restorable, Recoveries
  <2>6. CASE t = "drop"
    <3>1. rec' = [rec EXCEPT !.prev = None]
      BY <1>1, <2>6 DEF Moved
    <3> QED
      BY <1>3, <1>5, <1>8, <2>1, <2>6, <3>1
      DEF RecoveryOf, Whole, Restorable, Recoveries
  <2>7. CASE t = "dropSig"
    <3>1. rec' = [rec EXCEPT !.prevSig = None]
      BY <1>1, <2>7 DEF Moved
    <3> QED
      BY <1>3, <1>5, <1>8, <2>1, <2>7, <3>1
      DEF RecoveryOf, Whole, Restorable, Recoveries
  <2> QED
    BY <1>1, <2>2, <2>3, <2>4, <2>5, <2>6, <2>7
<1> QED
  BY <1>8, <1>9 DEF TurnsInv

LEMMA CleanTurns ==
  ASSUME TypeInv, ~Overlap, TurnsInv, NEW p \in Processes, Clean(p)
  PROVE  TypeInv' /\ TurnsInv'
<1>1. /\ op[p].step = "clean" /\ Proceed(p)
      /\ UNCHANGED <<wal, boot, active, prev, loader, rec, mode, used, proven,
                     started, handed>>
      /\ next' = [next EXCEPT !.img = Nothing]
  BY DEF Clean, At, session, history
<1> DEFINE s == After[op[p].kind]["clean"]
<1>2. /\ TypeInv' /\ Alone(p) /\ Alone(p)' /\ Underway(p, op[p])
      /\ op'[p] = IF s = "idle" THEN Idle ELSE [op[p] EXCEPT !.step = s]
  BY <1>1, ProceedType DEF TypeInv
<1>3. op[p].kind \in {"stable", "confirm", "prepare"} /\ op[p] \in Ops
  BY <1>1, <1>2 DEF Underway, Fits, OsSteps, LoaderSteps, RecoverySteps
<1>4. s \in {"cleanSig"} /\ s \in Steps
  BY <1>3, AfterIs DEF Steps
<1> HIDE DEF s
<1>5. \/ op'[p] = Idle /\ s = "idle"
      \/ /\ op'[p] = [op[p] EXCEPT !.step = s]
         /\ op'[p].step = s /\ op'[p].kind = op[p].kind
  BY <1>2, <1>3, <1>4 DEF Ops
<1>6. /\ next \in Pairs /\ next' \in Pairs /\ next'.img = Nothing
      /\ next'.sig = next.sig
  BY <1>1, ImagesAre DEF TurnsInv, FilesInv, Pairs
<1>7. FilesInv'
  BY <1>1, <1>6 DEF TurnsInv, FilesInv
<1>8. StartedInv'
  BY <1>1, <1>2, <1>4, <1>5, IdleOp, StartedFrame DEF TurnsInv
<1>9. ClaimsInv'
  <2>1. op'[p] = Idle \/ op'[p] = [op[p] EXCEPT !.step = s]
    BY <1>5
  <2> QED
    BY <1>1, <1>2, <1>3, <1>4, <2>1, ClaimsFrame DEF TurnsInv
<1>10. TriedInv'
  <2>1. TrialOf(op[p])'
    BY <1>4, <1>5, IdleOp DEF TrialOf
  <2> QED
    BY <1>1, <1>2, <1>6, <2>1, ImagesAre, TriedFrame DEF TurnsInv
<1>11. RecoveryInv'
  <2>1. ASSUME used.faults <= 1 PROVE RecoveryOf(op[p])'
    <3>1. RecoveryOf(op[p])
      BY <2>1 DEF TurnsInv, RecoveryInv
    <3>2. op[p].kind = "stable" => Whole'
      BY <1>1, <3>1 DEF RecoveryOf, Whole
    <3> QED
      BY <1>3, <1>4, <1>5, <3>2, IdleOp DEF RecoveryOf
  <2> QED
    BY <1>1, <1>2, <1>4, <1>5, <2>1, IdleOp, RecoveryFrame DEF TurnsInv
<1>12. ProvenInv'
  <2>1. ASSUME used.faults = 0, HasPending(wal) PROVE SlotOf(op["server"])'
    <3>1. SlotOf(op["server"])
      BY <2>1 DEF TurnsInv, ProvenInv
    <3>2. op["server"].step \notin {"verify", "fetchSig", "load", "save"}
      BY <1>1, <1>2, IdleOp DEF Alone, Processes
    <3> QED
      BY <1>1, <1>6, <3>1, <3>2 DEF SlotOf
  <2>2. ASSUME used.faults = 0 PROVE ProvenOf(op[p])'
    <3>1. ProvenOf(op[p])
      BY <2>2 DEF TurnsInv, ProvenInv
    <3>2. op'[p] = Idle \/ op'[p].copy = op[p].copy
      BY <1>3, <1>5 DEF Ops
    <3> QED
      BY <1>1, <1>3, <1>4, <1>5, <3>1, <3>2, IdleOp DEF ProvenOf
  <2> QED
    BY <1>1, <1>2, <2>1, <2>2, ProvenFrame DEF TurnsInv
<1> QED
  BY <1>2, <1>7, <1>8, <1>9, <1>10, <1>11, <1>12 DEF TurnsInv

LEMMA CleanSigTurns ==
  ASSUME TypeInv, ~Overlap, TurnsInv, NEW p \in Processes, CleanSig(p)
  PROVE  TypeInv' /\ TurnsInv'
<1>1. /\ op[p].step = "cleanSig" /\ Proceed(p)
      /\ UNCHANGED <<wal, boot, active, prev, loader, rec, mode, used, proven,
                     started, handed>>
      /\ next' = [next EXCEPT !.sig = Nothing]
  BY DEF CleanSig, At, session, history
<1> DEFINE s == After[op[p].kind]["cleanSig"]
<1>2. /\ TypeInv' /\ Alone(p) /\ Alone(p)' /\ Underway(p, op[p])
      /\ op'[p] = IF s = "idle" THEN Idle ELSE [op[p] EXCEPT !.step = s]
  BY <1>1, ProceedType DEF TypeInv
<1>3. op[p].kind \in {"stable", "confirm", "prepare"} /\ op[p] \in Ops
  BY <1>1, <1>2 DEF Underway, Fits, OsSteps, LoaderSteps, RecoverySteps
<1>4. s \in {"idle", "check"} /\ s \in Steps
  BY <1>3, AfterIs DEF Steps
<1> HIDE DEF s
<1>5. \/ op'[p] = Idle /\ s = "idle"
      \/ /\ op'[p] = [op[p] EXCEPT !.step = s]
         /\ op'[p].step = s /\ op'[p].kind = op[p].kind
  BY <1>2, <1>3, <1>4 DEF Ops
<1>6. /\ next \in Pairs /\ next' \in Pairs /\ next'.sig = Nothing
      /\ next'.img = next.img
  BY <1>1, ImagesAre DEF TurnsInv, FilesInv, Pairs
<1>7. FilesInv'
  BY <1>1, <1>6 DEF TurnsInv, FilesInv
<1>8. StartedInv'
  BY <1>1, <1>2, <1>4, <1>5, IdleOp, StartedFrame DEF TurnsInv
<1>9. ClaimsInv'
  <2>1. op'[p] = Idle \/ op'[p] = [op[p] EXCEPT !.step = s]
    BY <1>5
  <2> QED
    BY <1>1, <1>2, <1>3, <1>4, <2>1, ClaimsFrame DEF TurnsInv
<1>10. TriedInv'
  <2>1. TrialOf(op[p])'
    BY <1>4, <1>5, IdleOp DEF TrialOf
  <2> QED
    BY <1>1, <1>2, <1>6, <2>1, ImagesAre, TriedFrame DEF TurnsInv
<1>11. RecoveryInv'
  <2>1. ASSUME used.faults <= 1 PROVE RecoveryOf(op[p])'
    <3>1. RecoveryOf(op[p])
      BY <2>1 DEF TurnsInv, RecoveryInv
    <3>2. op[p].kind = "stable" => Whole'
      BY <1>1, <3>1 DEF RecoveryOf, Whole
    <3> QED
      BY <1>3, <1>4, <1>5, <3>2, IdleOp DEF RecoveryOf
  <2> QED
    BY <1>1, <1>2, <1>4, <1>5, <2>1, IdleOp, RecoveryFrame DEF TurnsInv
<1>12. ProvenInv'
  <2>1. ASSUME used.faults = 0, HasPending(wal) PROVE SlotOf(op["server"])'
    <3>1. SlotOf(op["server"])
      BY <2>1 DEF TurnsInv, ProvenInv
    <3>2. op["server"].step \notin {"verify", "fetchSig", "load", "save"}
      BY <1>1, <1>2, IdleOp DEF Alone, Processes
    <3> QED
      BY <1>1, <1>6, <3>1, <3>2 DEF SlotOf
  <2>2. ASSUME used.faults = 0 PROVE ProvenOf(op[p])'
    <3>1. ProvenOf(op[p])
      BY <2>2 DEF TurnsInv, ProvenInv
    <3>2. op'[p] = Idle \/ op'[p].copy = op[p].copy
      BY <1>3, <1>5 DEF Ops
    <3> QED
      BY <1>1, <1>3, <1>4, <1>5, <3>1, <3>2, IdleOp DEF ProvenOf
  <2> QED
    BY <1>1, <1>2, <2>1, <2>2, ProvenFrame DEF TurnsInv
<1> QED
  BY <1>2, <1>7, <1>8, <1>9, <1>10, <1>11, <1>12 DEF TurnsInv

LEMMA PromoteNextTurns ==
  ASSUME TypeInv, ~Overlap, TurnsInv, NEW p \in Processes, PromoteNext(p)
  PROVE  TypeInv' /\ TurnsInv'
<1>1. /\ op[p].step = "promote" /\ Proceed(p)
      /\ UNCHANGED <<wal, boot, next, loader, rec, mode, used, proven, started, handed>>
      /\ active' = [img |-> Replacing(next.img, active.img),
                    sig |-> Replacing(next.sig, active.sig)]
      /\ prev' = [img |-> Displaced(active'.img, active.img, prev.img),
                  sig |-> Displaced(active'.sig, active.sig, prev.sig)]
  BY DEF PromoteNext, At, session, history
<1>12. active' \in Pairs /\ prev' \in Pairs
  <2>1. next \in Pairs /\ active \in Pairs /\ prev \in Pairs
    BY DEF TurnsInv, FilesInv
  <2>2. active' \in Pairs
    BY <1>1, <2>1 DEF Replacing, Pairs
  <2>3. prev' \in Pairs
    BY <1>1, <2>1 DEF Displaced, Pairs
  <2> QED
    BY <2>2, <2>3
<1>2. /\ TypeInv' /\ Alone(p) /\ Alone(p)' /\ Underway(p, op[p])
      /\ op'[p] = IF After[op[p].kind]["promote"] = "idle" THEN Idle
                  ELSE [op[p] EXCEPT !.step = After[op[p].kind]["promote"]]
  BY <1>1, ProceedType DEF TypeInv
<1>3. op[p].kind \in {"confirm", "prepare"} /\ op[p] \in Ops
  BY <1>1, <1>2 DEF Underway, Fits, StableSteps, OsSteps, LoaderSteps, RecoverySteps
<1>4. After[op[p].kind]["promote"] = "arm"
  BY <1>3, AfterIs
<1>5. /\ op'[p] = [op[p] EXCEPT !.step = "arm"] /\ op'[p].step = "arm"
      /\ op'[p].kind = op[p].kind /\ op'[p].copy = op[p].copy
  BY <1>2, <1>3, <1>4 DEF Ops
<1>6. FilesInv'
  BY <1>1, <1>12 DEF TurnsInv, FilesInv
<1>7. StartedInv'
  BY <1>1, <1>2, <1>5, StartedFrame DEF TurnsInv
<1>8. ClaimsInv'
  BY <1>1, <1>2, <1>3, <1>5, ClaimsFrame DEF TurnsInv, Steps
<1>9. TriedInv'
  BY <1>1, <1>2, <1>3, <1>5, TriedFrame DEF TurnsInv, TrialOf
<1>10. RecoveryInv'
  BY <1>1, <1>2, <1>3, <1>5, RecoveryFrame DEF TurnsInv, RecoveryOf
<1>11. ProvenInv'
  <2> SUFFICES ASSUME used.faults = 0 PROVE ProvenInv'
    BY <1>1 DEF ProvenInv
  <2>1. Chainable(active)' /\ active'.img \in {Os(v) : v \in proven}
    <3>1. next.img = next.sig /\ next.img \in {Os(v) : v \in proven}
      BY <1>1 DEF TurnsInv, ProvenInv, ProvenOf, Chainable
    <3>2. next.img \notin {Nothing, Corrupt}
      BY <3>1, ImagesAre
    <3>3. active'.img = next.img /\ active'.sig = next.sig
      BY <1>1, <3>1, <3>2 DEF Replacing
    <3> QED
      BY <1>1, <3>1, <3>2, <3>3 DEF Chainable
  <2>2. HasPending(wal) => SlotOf(op["server"])'
    <3>1. HasPending(wal) => SlotOf(op["server"])
      BY DEF TurnsInv, ProvenInv
    <3>2. op["server"].step \notin {"verify", "fetchSig", "load", "save"}
      BY <1>1, <1>2, IdleOp DEF Alone, Processes
    <3> QED
      BY <1>1, <3>1, <3>2 DEF SlotOf
  <2>3. \A q \in Processes : ProvenOf(op[q])'
    <3>1. ProvenOf(op[p])'
      BY <1>1, <1>3, <1>5 DEF TurnsInv, ProvenInv, ProvenOf
    <3> QED
      BY <1>2, <3>1, IdleOp DEF Alone, ProvenOf
  <2> QED
    BY <1>1, <2>1, <2>2, <2>3 DEF TurnsInv, ProvenInv
<1> QED
  BY <1>2, <1>6, <1>7, <1>8, <1>9, <1>10, <1>11 DEF TurnsInv

LEMMA ArmTurns ==
  ASSUME TypeInv, ~Overlap, TurnsInv, NEW p \in Processes, Arm(p)
  PROVE  TypeInv' /\ TurnsInv'
<1> DEFINE s == After[op[p].kind]["arm"]
<1>1. /\ op[p].step = "arm" /\ Proceed(p)
      /\ UNCHANGED <<wal, next, active, prev, loader, rec, mode, used, proven,
                     started, handed>>
      /\ boot' = CASE op[p].kind = "loader" -> LoaderTrial
                   [] op[p].kind = "os" -> BootStateOf(wal)
                   [] OTHER -> BootStateOf(op[p].copy)
  BY DEF Arm, At, session, history
<1>2. Underway(p, op[p])
  BY <1>1, AtWork DEF TypeInv
<1>3. op[p].kind \in {"stable", "confirm", "prepare", "os", "loader"} /\ op[p] \in Ops
  BY <1>1, <1>2 DEF Underway, Fits, RecoverySteps
<1>4. boot' \in BootStates
  <2>1. LoaderTrial \in BootStates
    BY DEF LoaderTrial, BootStates
  <2>2. BootStateOf(wal) \in BootStates /\ BootStateOf(op[p].copy) \in BootStates
    BY <1>2, BootStateOfGood DEF TypeInv, Underway
  <2> QED
    BY <1>1, <1>3, <2>1, <2>2
<1>5. /\ TypeInv' /\ Alone(p) /\ Alone(p)'
      /\ op'[p] = IF s = "idle" THEN Idle ELSE [op[p] EXCEPT !.step = s]
  BY <1>1, <1>4, ProceedType DEF TypeInv
<1>6. /\ op[p].kind = "stable" => s = "clean"
      /\ op[p].kind \in {"confirm", "prepare"} => s = "save"
      /\ op[p].kind \in {"os", "loader"} => s = "idle"
  BY AfterIs
<1>7. s \in {"clean", "save", "idle"} /\ s \in Steps
  BY <1>3, <1>6 DEF Steps
<1> HIDE DEF s
<1>8. \/ op'[p] = Idle /\ s = "idle"
      \/ /\ op'[p] = [op[p] EXCEPT !.step = s] /\ op'[p].step = s
         /\ op'[p].kind = op[p].kind /\ op'[p].copy = op[p].copy
  BY <1>3, <1>5, <1>7 DEF Ops
<1>9. FilesInv'
  BY <1>1 DEF TurnsInv, FilesInv
<1>10. StartedInv'
  BY <1>1, <1>5, <1>7, <1>8, IdleOp, StartedFrame DEF TurnsInv
<1>11. ClaimsInv'
  <2>1. op'[p] = Idle \/ op'[p] = [op[p] EXCEPT !.step = s]
    BY <1>8
  <2> QED
    BY <1>1, <1>3, <1>5, <1>6, <1>7, <2>1, ClaimsFrame DEF TurnsInv
<1>12. TriedInv'
  <2>1. ClaimOf(op[p]) /\ TrialOf(op[p])
    BY DEF TurnsInv, ClaimsInv, TriedInv
  <2>2. /\ TrialLeft' => HasPending(wal) \/ (handed = 0 /\ boot'.attempts = 1)
        /\ TrialOf(op[p])'
    <3>1. CASE op[p].kind = "loader"
      <4>1. boot' = LoaderTrial /\ op'[p] = Idle /\ handed = 0
        BY <1>1, <1>6, <1>5, <2>1, <3>1 DEF TrialOf
      <4> QED
        BY <4>1, IdleOp DEF LoaderTrial, TrialOf
    <3>2. CASE op[p].kind = "os"
      <4>1. boot' = BootStateOf(wal) /\ op'[p] = Idle
        BY <1>1, <1>6, <1>5, <3>2
      <4>2. ~HasPending(wal) => boot' = ActiveState
        BY <4>1, BootStateOfGood DEF TypeInv
      <4> QED
        BY <4>1, <4>2, IdleOp DEF TrialLeft, ActiveState, TrialOf
    <3>3. CASE op[p].kind \in {"stable", "confirm", "prepare"}
      <4>1. boot' = BootStateOf(op[p].copy)
        BY <1>1, <3>3
      <4>2. ~HasPending(op[p].copy) => boot' = ActiveState
        BY <1>2, <4>1, BootStateOfGood DEF Underway
      <4>3. ~HasPending(op[p].copy) => ~TrialLeft'
        BY <4>2 DEF TrialLeft, ActiveState
      <4>4. HasPending(op[p].copy) => HasPending(wal)
        BY <2>1, <3>3 DEF ClaimOf, HasPending
      <4>5. TrialOf(op[p])'
        BY <1>8, <3>3, <4>3, IdleOp DEF TrialOf
      <4> QED
        BY <4>3, <4>4, <4>5
    <3> QED
      BY <1>3, <3>1, <3>2, <3>3
  <2>3. \A q \in Processes : TrialOf(op[q])'
    BY <1>5, <2>2, IdleOp DEF Alone, TrialOf
  <2> QED
    BY <1>1, <2>2, <2>3 DEF TurnsInv, TriedInv
<1>13. RecoveryInv'
  <2>1. ASSUME used.faults <= 1 PROVE RecoveryOf(op[p])'
    <3>1. RecoveryOf(op[p])
      BY <2>1 DEF TurnsInv, RecoveryInv
    <3>2. op[p].kind = "stable" => Whole'
      BY <1>1, <3>1 DEF RecoveryOf, Whole
    <3> QED
      BY <1>3, <1>7, <1>8, <3>2, IdleOp DEF RecoveryOf
  <2> QED
    BY <1>1, <1>5, <1>7, <1>8, <2>1, IdleOp, RecoveryFrame DEF TurnsInv
<1>14. ProvenInv'
  <2>1. ASSUME used.faults = 0, HasPending(wal) PROVE SlotOf(op["server"])'
    <3>1. SlotOf(op["server"])
      BY <2>1 DEF TurnsInv, ProvenInv
    <3>2. op["server"].step \notin {"verify", "fetchSig", "load", "save"}
      BY <1>1, <1>5, IdleOp DEF Alone, Processes
    <3> QED
      BY <1>1, <3>1, <3>2 DEF SlotOf
  <2>2. ASSUME used.faults = 0 PROVE ProvenOf(op[p])'
    <3>1. ProvenOf(op[p])
      BY <2>2 DEF TurnsInv, ProvenInv
    <3> QED
      BY <1>1, <1>3, <1>6, <1>7, <1>8, <3>1, IdleOp DEF ProvenOf
  <2> QED
    BY <1>1, <1>5, <2>1, <2>2, ProvenFrame DEF TurnsInv
<1> QED
  BY <1>5, <1>9, <1>10, <1>11, <1>12, <1>13, <1>14 DEF TurnsInv

LEMMA SaveTurns ==
  ASSUME TypeInv, ~Overlap, TurnsInv, NEW p \in Processes, Save(p)
  PROVE  TypeInv' /\ TurnsInv'
<1> DEFINE o == op[p]
           kept == o.kind = "confirm" /\ HasPending(o.copy)
           s == IF kept THEN "idle" ELSE After[o.kind]["save"]
<1>1. /\ o.step = "save" /\ wal' = o.copy /\ Goto(p, s)
      /\ UNCHANGED <<boot, next, active, prev, loader, rec, mode, used, proven,
                     started, handed>>
  BY DEF Save, At, Proceed, esp, session, history
<1>2. Underway(p, o) /\ o \in Ops /\ GoodRecord(wal')
  BY <1>1, AtWork DEF TypeInv, Underway
<1>3. o.kind \in {"confirm", "prepare", "os", "recovery"}
  BY <1>1, <1>2 DEF Underway, Fits, StableSteps, LoaderSteps
<1>4. /\ o.kind = "confirm" => s = IF HasPending(o.copy) THEN "idle" ELSE "clean"
      /\ o.kind = "prepare" => s = "clean"
      /\ o.kind = "os" => s = "arm"
      /\ o.kind = "recovery" => s = "idle"
  BY AfterIs
<1>5. s \in {"idle", "clean", "arm"} /\ s \in Steps
  BY <1>3, <1>4 DEF Steps
<1>6. s = "idle" \/ Fits(p, [o EXCEPT !.step = s])
  BY <1>1, <1>2, SuccessorFits
<1> HIDE DEF s
<1>7. /\ TypeInv' /\ Alone(p) /\ Alone(p)'
      /\ op'[p] = IF s = "idle" THEN Idle ELSE [o EXCEPT !.step = s]
  BY <1>1, <1>2, <1>5, <1>6, GotoType DEF TypeInv
<1>8. \/ op'[p] = Idle /\ s = "idle"
      \/ /\ op'[p] = [o EXCEPT !.step = s] /\ op'[p].step = s /\ s # "idle"
         /\ op'[p].kind = o.kind /\ op'[p].copy = o.copy /\ op'[p].rel = o.rel
  BY <1>2, <1>5, <1>7 DEF Ops
<1>9. ClaimOf(o) /\ TrialOf(o)
  BY DEF TurnsInv, ClaimsInv, TriedInv
<1>10. o.kind \in {"prepare", "recovery"} => ~HasPending(o.copy)
  BY <1>1, <1>9 DEF ClaimOf
<1>11. o.kind = "os" => /\ p = "server" /\ o.rel \in Releases /\ HasPending(o.copy)
                        /\ next.img = Os(o.rel)
                        /\ o.copy.pending = o.rel /\ o.copy.stableBoots = 0
  BY <1>1, <1>2, <1>9, ReleasesAssumption DEF ClaimOf, Underway, Fits, HasPending
<1>12. o.kind = "confirm" /\ HasPending(o.copy) =>
         /\ HasPending(wal) /\ o.copy.pending = wal.pending /\ op'[p] = Idle
  BY <1>4, <1>8, <1>9 DEF ClaimOf, HasPending
<1>13. FilesInv'
  BY <1>1 DEF TurnsInv, FilesInv
<1>14. StartedInv'
  BY <1>1, <1>5, <1>7, <1>8, IdleOp, StartedFrame DEF TurnsInv
<1>15. ClaimsInv'
  <2>1. ClaimOf(op[p])'
    BY <1>3, <1>4, <1>5, <1>8, <1>10, IdleOp DEF ClaimOf
  <2> QED
    BY <1>7, <2>1, IdleOp DEF ClaimsInv, Alone, ClaimOf
<1>16. TriedInv'
  <2>1. HasPending(wal') => next.img[1] # "loader"
    BY <1>1, <1>3, <1>10, <1>11, <1>12, ImagesAre DEF TurnsInv, TriedInv
  <2>2. TrialLeft => HasPending(wal') \/ (handed = 0 /\ boot.attempts = 1)
    <3>1. CASE o.kind \in {"confirm", "prepare"} /\ ~HasPending(o.copy)
      BY <1>1, <1>9, <3>1 DEF TrialOf
    <3>2. CASE o.kind \in {"confirm", "os"} /\ HasPending(o.copy)
      BY <1>1, <3>2
    <3>3. CASE o.kind = "recovery"
      BY <1>9, <3>3 DEF ClaimOf, TurnsInv, TriedInv
    <3> QED
      BY <1>3, <1>10, <1>11, <3>1, <3>2, <3>3
  <2>3. \A q \in Processes : TrialOf(op[q])'
    <3>1. TrialOf(op[p])'
      BY <1>4, <1>5, <1>8, IdleOp, <1>3 DEF TrialOf
    <3> QED
      BY <1>7, <3>1, IdleOp DEF Alone, TrialOf
  <2>4. TrialLeft' = TrialLeft
    BY <1>1 DEF TrialLeft
  <2> QED
    BY <1>1, <2>1, <2>2, <2>3, <2>4 DEF TurnsInv, TriedInv
<1>17. RecoveryInv'
  <2>1. RecoveryOf(op[p])'
    BY <1>3, <1>4, <1>5, <1>8, IdleOp DEF RecoveryOf
  <2> QED
    BY <1>1, <1>5, <1>7, <1>8, <2>1, IdleOp, RecoveryFrame DEF TurnsInv
<1>18. ProvenInv'
  <2> SUFFICES ASSUME used.faults = 0 PROVE ProvenInv'
    BY <1>1 DEF ProvenInv
  <2>1. ProvenOf(o) /\ Chainable(active) /\ active.img \in {Os(v) : v \in proven}
        /\ (HasPending(wal) => SlotOf(op["server"]))
    BY DEF TurnsInv, ProvenInv
  <2>2. HasPending(wal') /\ wal'.stableBoots > 0 => wal'.pending \in proven
    <3>1. CASE o.kind = "os"
      BY <1>1, <1>11, <3>1
    <3>2. CASE o.kind = "confirm"
      BY <1>1, <2>1, <3>2 DEF ProvenOf
    <3> QED
      BY <1>1, <1>3, <1>10, <3>1, <3>2
  <2>3. HasPending(wal') => SlotOf(op["server"])'
    <3>1. CASE o.kind = "confirm" /\ HasPending(o.copy)
      <4>1. p = "daemon"
        BY <1>2, <3>1 DEF Underway, Fits
      <4>2. op["server"] = Idle /\ op'["server"] = Idle
        BY <1>7, <4>1, DaemonIs DEF Alone
      <4> QED
        BY <1>1, <1>12, <2>1, <3>1, <4>2 DEF SlotOf
    <3>2. CASE o.kind = "os"
      <4>1. op'["server"].step = "arm"
        BY <1>4, <1>8, <1>11, <3>2
      <4>2. next.sig = Os(o.rel)
        BY <1>1, <2>1, <3>2 DEF ProvenOf
      <4> QED
        BY <1>1, <1>11, <3>2, <4>1, <4>2 DEF SlotOf
    <3> QED
      BY <1>1, <1>3, <1>10, <3>1, <3>2
  <2>4. \A q \in Processes : ProvenOf(op[q])'
    <3>1. ProvenOf(op[p])'
      BY <1>3, <1>4, <1>5, <1>8, IdleOp DEF ProvenOf
    <3> QED
      BY <1>7, <3>1, IdleOp DEF Alone, ProvenOf
  <2>5. Chainable(active)'
    BY <1>1, <2>1 DEF Chainable
  <2> QED
    BY <1>1, <2>1, <2>2, <2>3, <2>4, <2>5 DEF ProvenInv
<1> QED
  BY <1>7, <1>13, <1>14, <1>15, <1>16, <1>17, <1>18 DEF TurnsInv

-----------------------------------------------------------------------------
(* An operation that starts, or a staging that turns from one to another.  *)
LEMMA FreshTurns ==
  ASSUME TypeInv, TurnsInv, NEW p \in Processes, Alone(p), Alone(p)',
         UNCHANGED <<wal, esp, proven, started, handed>>, used'.faults = used.faults,
         op[p].step \in {"idle", "check"}, op'[p].step # "install",
         op'[p].step # "restoreSig",
         ClaimOf(op[p])', TrialOf(op[p])', RecoveryOf(op[p])',
         used.faults = 0 => ProvenOf(op[p])'
  PROVE  TurnsInv'
<1>1. UNCHANGED <<wal, boot, next, active, prev, loader, rec, proven, started, handed>>
  BY DEF esp
<1>2. \A q \in Processes : op[q].step \in {"idle", "check"}
  BY IdleOp DEF Alone
<1>3. FilesInv'
  BY <1>1 DEF TurnsInv, FilesInv
<1>4. StartedInv'
  BY <1>1, StartedFrame DEF TurnsInv
<1>5. ClaimsInv'
  BY IdleOp DEF ClaimsInv, Alone, ClaimOf
<1>6. TriedInv'
  BY <1>1, TriedFrame DEF TurnsInv
<1>7. RecoveryInv'
  <2> SUFFICES ASSUME used.faults <= 1
               PROVE  /\ RecoveryOf(op[p])' /\ (Whole' \/ Restorable')
                      /\ used.faults = 0 => Whole'
    BY RecoveryNext
  <2>1. (Whole \/ Restorable) /\ (used.faults = 0 => Whole)
    BY NoSwap DEF TurnsInv
  <2> QED
    BY <1>1, <2>1 DEF Whole, Restorable
<1>8. ProvenInv'
  <2> SUFFICES ASSUME used.faults = 0 PROVE ProvenInv'
    BY DEF ProvenInv
  <2>1. HasPending(wal) => SlotOf(op["server"])'
    BY <1>1, <1>2, DaemonIs DEF TurnsInv, ProvenInv, SlotOf
  <2>2. \A q \in Processes : ProvenOf(op[q])'
    BY IdleOp DEF Alone, ProvenOf
  <2> QED
    BY <1>1, <2>1, <2>2 DEF TurnsInv, ProvenInv, Chainable
<1> QED
  BY <1>3, <1>4, <1>5, <1>6, <1>7, <1>8 DEF TurnsInv

LEMMA BootSuccessTurns ==
  ASSUME TypeInv, ~Overlap, TurnsInv, BootSuccess
  PROVE  TypeInv' /\ TurnsInv'
<1> DEFINE p == "daemon"
<1>1. /\ TypeInv'
      /\ op'[p] = IF HasPending(wal)
           THEN [kind |-> "confirm", step |-> "decide", copy |-> wal, rel |-> None]
           ELSE [kind |-> "stable", step |-> "marker", copy |-> wal, rel |-> None]
      /\ op'["server"] = Idle /\ op["server"] = Idle
  BY BootSuccessType
<1>2. op[p] = Idle /\ Alone(p) /\ Alone(p)'
  BY <1>1, DaemonIs DEF BootSuccess, MayStart, Alone
<1>3. UNCHANGED <<wal, esp, proven, started, handed>> /\ used'.faults = used.faults
  BY DEF BootSuccess, history, Spend, TypeInv
<1>4. /\ op'[p].step = IF HasPending(wal) THEN "decide" ELSE "marker"
      /\ op'[p].kind = IF HasPending(wal) THEN "confirm" ELSE "stable"
      /\ op'[p].copy = wal
  BY <1>1
<1>5. ClaimOf(op[p])'
  BY <1>3, <1>4 DEF ClaimOf
<1>6. TrialOf(op[p])' /\ RecoveryOf(op[p])'
  BY <1>4 DEF TrialOf, RecoveryOf
<1>7. used.faults = 0 => ProvenOf(op[p])'
  BY <1>3, <1>4 DEF ProvenOf, TurnsInv, ProvenInv
<1>8. TurnsInv'
  BY <1>2, <1>3, <1>4, <1>5, <1>6, <1>7, DaemonIs, IdleOp, FreshTurns
<1> QED
  BY <1>1, <1>8

LEMMA CheckDowngradeTurns ==
  ASSUME TypeInv, ~Overlap, TurnsInv, CheckDowngrade
  PROVE  TypeInv' /\ TurnsInv'
<1> DEFINE p == "server"
           o == [op[p] EXCEPT !.kind = "os", !.step = "cancel"]
<1>1. /\ op[p].step = "check" /\ (Goto(p, "idle") \/ Become(p, o))
      /\ UNCHANGED <<wal, boot, next, active, prev, loader, rec, mode, used, proven,
                     started, handed>>
  BY DEF CheckDowngrade, At, esp, session, history
<1>2. Underway(p, op[p])
  BY <1>1, DaemonIs, AtWork DEF TypeInv
<1>3. /\ o \in Ops /\ o.kind = "os" /\ o.step = "cancel" /\ Underway(p, o)
  BY <1>2, KindsAre DEF Underway, Ops, Steps, Fits, OsSteps
<1>4. /\ OpInv' /\ op'["daemon"] = op["daemon"] /\ op'[p] \in {Idle, o}
  <2>1. CASE Goto(p, "idle")
    BY <1>1, <2>1, DaemonIs, IdleGoto DEF TypeInv
  <2>2. CASE Become(p, o)
    BY <1>3, <2>2, DaemonIs, Becomes, BecomeOp DEF TypeInv
  <2> QED
    BY <1>1, <2>1, <2>2
<1>5. TypeInv' /\ Alone(p) /\ Alone(p)'
  BY <1>1, <1>4, DaemonIs, WorkType DEF TypeInv, Alone
<1>6. /\ op'[p].step \in {"idle", "cancel"} /\ op'[p].kind \in {"none", "os"}
  BY <1>3, <1>4, IdleOp
<1>7. ClaimOf(op[p])' /\ TrialOf(op[p])' /\ RecoveryOf(op[p])' /\ ProvenOf(op[p])'
  BY <1>6 DEF ClaimOf, TrialOf, RecoveryOf, ProvenOf
<1>8. TurnsInv'
  BY <1>1, <1>5, <1>6, <1>7, DaemonIs, FreshTurns DEF esp
<1> QED
  BY <1>5, <1>8

(* A staging that is asked for. *)
LEMMA StageTurns ==
  ASSUME TypeInv, ~Overlap, TurnsInv, BeginStaging, NEW o,
         Become("server", o), Underway("server", o),
         o.step \in {"check", "promote", "fetch", "repair"},
         o.kind \in {"loader", "recovery"} => ~HasPending(wal),
         o.kind = "prepare" => ~HasPending(o.copy),
         o.step = "promote" /\ used.faults = 0 =>
           next.sig = next.img /\ next.img \in {Os(v) : v \in proven}
  PROVE  TypeInv' /\ TurnsInv'
<1> DEFINE p == "server"
<1>1. /\ MayStart(p) /\ mode = "up" /\ op[p] = Idle
      /\ UNCHANGED <<wal, boot, mode, handed>>
      /\ UNCHANGED <<wal, esp, proven, started, handed>>
      /\ used' \in [stagings : Nat, faults : Nat, reruns : Nat]
      /\ used'.faults = used.faults
  BY DEF BeginStaging, MayStart, esp, session, history, Spend, TypeInv
<1>2. /\ TypeInv' /\ op'[p] = o /\ Alone(p)' /\ Alone(p)
  BY <1>1, DaemonIs, StartType DEF Alone
<1>3. o.kind \in {"prepare", "os", "loader", "recovery"}
  BY DEF Underway, Fits
<1>4. ClaimOf(op[p])' /\ TrialOf(op[p])' /\ RecoveryOf(op[p])'
  BY <1>1, <1>2, <1>3 DEF ClaimOf, TrialOf, RecoveryOf
<1>5. used.faults = 0 => ProvenOf(op[p])'
  BY <1>1, <1>2, <1>3 DEF ProvenOf, esp
<1>6. TurnsInv'
  BY <1>1, <1>2, <1>4, <1>5, DaemonIs, IdleOp, FreshTurns
<1> QED
  BY <1>2, <1>6

LEMMA StageOsTurns ==
  ASSUME TypeInv, ~Overlap, TurnsInv, NEW v \in Releases, StageOs(v)
  PROVE  TypeInv' /\ TurnsInv'
<1>1. BeginStaging
  BY DEF StageOs
<1>2. CASE Start("server", "os", "check", v)
  <2> DEFINE o == [kind |-> "os", step |-> "check", copy |-> wal, rel |-> v]
  <2>1. Become("server", o)
    BY <1>2 DEF Start
  <2>2. o \in Ops /\ o.kind = "os" /\ o.step = "check" /\ o.copy = wal /\ o.rel = v
    BY KindsAre DEF TypeInv, GoodRecord, Ops, Steps
  <2>3. Underway("server", o)
    BY <2>2 DEF Underway, Fits, OsSteps, TypeInv
  <2> HIDE DEF o
  <2> QED
    BY <1>1, <2>1, <2>2, <2>3, StageTurns
<1>3. CASE RunningIsCandidate /\ Preflight
           /\ Become("server", [kind |-> "prepare", step |-> "promote",
                                copy |-> Promote(wal), rel |-> v])
  <2> DEFINE o == [kind |-> "prepare", step |-> "promote", copy |-> Promote(wal), rel |-> v]
  <2>1. GoodRecord(Promote(wal)) /\ ~HasPending(Promote(wal))
    BY PromoteRecord DEF TypeInv
  <2>2. /\ o \in Ops /\ o.kind = "prepare" /\ o.step = "promote"
        /\ o.copy = Promote(wal) /\ o.rel = v
    BY <2>1, KindsAre DEF GoodRecord, Ops, Steps
  <2>3. Underway("server", o)
    BY <2>1, <2>2 DEF Underway, Fits, PrepareSteps
  <2>4. ASSUME used.faults = 0
        PROVE  next.sig = next.img /\ next.img \in {Os(w) : w \in proven}
    <3>1. HasPending(wal) /\ wal.stableBoots > 0
      BY <1>3 DEF RunningIsCandidate, TypeInv, GoodRecord, Wal
    <3>2. wal.pending \in proven /\ SlotOf(op["server"])
      BY <2>4, <3>1 DEF TurnsInv, ProvenInv
    <3>3. op["server"].step = "idle"
      BY <1>1, IdleOp DEF BeginStaging, MayStart
    <3>4. next.img = Os(wal.pending) /\ next.sig = Os(wal.pending)
      BY <1>3, <3>2, <3>3 DEF SlotOf, Preflight
    <3> QED
      BY <3>2, <3>4
  <2> HIDE DEF o
  <2> QED
    BY <1>1, <1>3, <2>1, <2>2, <2>3, <2>4, StageTurns DEF o
<1>4. CASE UNCHANGED op
  <2>1. /\ UNCHANGED <<wal, boot, next, active, prev, loader, rec, mode, op, proven,
                       started, handed>>
        /\ used' \in [stagings : Nat, faults : Nat, reruns : Nat]
        /\ used'.faults = used.faults
    BY <1>1, <1>4 DEF BeginStaging, esp, session, history, Spend, TypeInv
  <2>2. TypeInv'
    BY <2>1 DEF TypeInv, OpInv, Turns, Quiet
  <2>3. FilesInv' /\ StartedInv' /\ ClaimsInv' /\ TriedInv'
    BY <2>1 DEF TurnsInv, FilesInv, StartedInv, ClaimsInv, ClaimOf, TriedInv, TrialOf,
                TrialLeft, At
  <2>4. RecoveryInv'
    BY <2>1 DEF TurnsInv, RecoveryInv, RecoveryOf, Whole, Restorable, Half, At
  <2>5. ProvenInv'
    BY <2>1 DEF TurnsInv, ProvenInv, ProvenOf, SlotOf, Chainable
  <2> QED
    BY <2>2, <2>3, <2>4, <2>5 DEF TurnsInv
<1> QED
  BY <1>2, <1>3, <1>4 DEF StageOs

LEMMA StageLoaderTurns ==
  ASSUME TypeInv, ~Overlap, TurnsInv, NEW v \in Releases, StageLoader(v)
  PROVE  TypeInv' /\ TurnsInv'
<1> DEFINE o == [kind |-> "loader", step |-> "fetch", copy |-> wal, rel |-> v]
<1>1. BeginStaging /\ ~HasPending(wal) /\ Become("server", o)
  BY DEF StageLoader, Start
<1>2. o \in Ops /\ o.kind = "loader" /\ o.step = "fetch" /\ o.copy = wal /\ o.rel = v
  BY KindsAre DEF TypeInv, GoodRecord, Ops, Steps
<1>3. Underway("server", o)
  BY <1>2 DEF Underway, Fits, LoaderSteps, TypeInv
<1> HIDE DEF o
<1> QED
  BY <1>1, <1>2, <1>3, StageTurns

LEMMA StageRecoveryTurns ==
  ASSUME TypeInv, ~Overlap, TurnsInv, NEW v \in Releases, StageRecovery(v)
  PROVE  TypeInv' /\ TurnsInv'
<1> DEFINE o == [kind |-> "recovery", step |-> "repair", copy |-> wal, rel |-> v]
<1>1. BeginStaging /\ ~HasPending(wal) /\ Become("server", o)
  BY DEF StageRecovery, Start
<1>2. /\ o \in Ops /\ o.kind = "recovery" /\ o.step = "repair" /\ o.copy = wal
      /\ o.rel = v
  BY KindsAre DEF TypeInv, GoodRecord, Ops, Steps
<1>3. Underway("server", o)
  BY <1>2 DEF Underway, Fits, RecoverySteps, TypeInv
<1> HIDE DEF o
<1> QED
  BY <1>1, <1>2, <1>3, StageTurns

(* A decided boot keeps the candidate, and counts it only when it is good. *)
LEMMA DecidedCopy ==
  ASSUME NEW d, GoodRecord(d), HasPending(d), NEW b \in BootStates
  PROVE  /\ LET r == RecordFailedBoot(d, b) IN
              HasPending(r) => r.pending = d.pending /\ r.stableBoots = 0
         /\ ReachesThreshold(d) => ~HasPending(RecordGoodBoot(d))
         /\ ~ReachesThreshold(d) => RecordGoodBoot(d).pending = d.pending
<1>1. d \in Wal /\ Coherent(d)
  BY DEF GoodRecord
<1>2. HasPending(RecordFailedBoot(d, b)) => RecordFailedBoot(d, b).pending = d.pending
  BY FailedBootRecord
<1>3. HasPending(RecordFailedBoot(d, b)) => RecordFailedBoot(d, b).stableBoots = 0
  <2> DEFINE c == [d EXCEPT !.stableBoots = 0]
  <2>1. c \in Wal /\ c.stableBoots = 0
    BY <1>1 DEF Wal
  <2> HIDE DEF c
  <2>2. PICK n \in 0 .. c.attempts : ReconcileAttempts(c, b) = [c EXCEPT !.attempts = n]
    BY <2>1, ReconcileRecord
  <2> DEFINE e == [c EXCEPT !.attempts = n]
  <2>3. e \in Wal /\ e.stableBoots = 0
    BY <2>1, <2>2 DEF Wal
  <2> HIDE DEF e
  <2>4. RecordFailedBoot(d, b) = IF e.attempts = 0 THEN Rollback(e) ELSE e
    BY <2>2 DEF RecordFailedBoot, c, e
  <2>5. ~HasPending(Rollback(e))
    BY <2>3, RollbackRecord
  <2> QED
    BY <2>3, <2>4, <2>5
<1>4. GoodRecord(CountGoodBoot(d))
  BY CountGoodBootRecord
<1>5. ReachesThreshold(d) => ~HasPending(RecordGoodBoot(d))
  BY <1>4, PromoteRecord DEF RecordGoodBoot
<1>6. CountGoodBoot(d).pending = d.pending
  <2> DEFINE s == SwitchToPending(d)
  <2>1. d.pending \in Releases /\ d.kcPending = d.pending
    BY <1>1 DEF Wal, Coherent, HasPending
  <2>2. s \in Wal /\ s.pending = d.pending
    BY <1>1, <2>1 DEF SwitchToPending, Wal
  <2>3. CountGoodBoot(d)
          = [s EXCEPT !.stableBoots = s.stableBoots + 1, !.attempts = MaxAttempts]
    BY DEF CountGoodBoot
  <2> HIDE DEF s
  <2> QED
    BY <2>2, <2>3 DEF Wal
<1> QED
  BY <1>2, <1>3, <1>5, <1>6 DEF RecordGoodBoot

LEMMA DecideTurns ==
  ASSUME TypeInv, ~Overlap, TurnsInv, Decide
  PROVE  TypeInv' /\ TurnsInv'
<1> DEFINE p == "daemon"
           o == op[p]
           d == o.copy
<1>1. /\ TypeInv' /\ op'["server"] = Idle /\ op["server"] = Idle
      /\ o.kind = "confirm" /\ o.step = "decide" /\ o \in Ops
      /\ GoodRecord(d) /\ HasPending(d) /\ d = wal
  <2>1. ClaimOf(op[p])
    BY DaemonIs DEF TurnsInv, ClaimsInv
  <2>2. o \in Ops
    BY DaemonIs DEF TypeInv, OpInv
  <2> QED
    BY <2>1, <2>2, DecideType DEF ClaimOf
<1>2. /\ UNCHANGED <<wal, boot, next, active, prev, loader, rec, mode, used, started, handed>>
      /\ proven' = IF running \in Healthy THEN proven \cup {running} ELSE proven
  BY DEF Decide, esp, session
<1>3. Alone(p) /\ Alone(p)'
  BY <1>1, DaemonIs DEF Alone
<1>4. /\ op'[p].step \in {"idle", "arm", "promote"}
      /\ op'[p].kind \in {"none", "confirm"}
      /\ op'[p].kind = "confirm" /\ HasPending(op'[p].copy) =>
           /\ op'[p].copy.pending = wal.pending
           /\ op'[p].copy.stableBoots > 0 => wal.pending \in proven'
      /\ op'[p].step = "promote" => wal.pending \in proven' /\ Preflight
  <2>1. CASE op'[p] = Idle
    BY <2>1, IdleOp
  <2>2. CASE op'[p] = [o EXCEPT !.copy = RecordFailedBoot(d, boot), !.step = "arm"]
    <3>1. /\ op'[p].kind = "confirm" /\ op'[p].step = "arm"
          /\ op'[p].copy = RecordFailedBoot(d, boot)
      BY <1>1, <2>2 DEF Ops
    <3> QED
      BY <1>1, <3>1, DecidedCopy DEF TypeInv
  <2>3. CASE /\ running \in Healthy /\ IdentityConfirmed(d, running)
             /\ ~ReachesThreshold(d)
             /\ op'[p] = [o EXCEPT !.copy = RecordGoodBoot(d), !.step = "arm"]
    <3>1. /\ op'[p].kind = "confirm" /\ op'[p].step = "arm"
          /\ op'[p].copy = RecordGoodBoot(d)
      BY <1>1, <2>3 DEF Ops
    <3>2. RecordGoodBoot(d).pending = wal.pending
      BY <1>1, <2>3, DecidedCopy DEF TypeInv
    <3>3. wal.pending \in proven'
      BY <1>1, <1>2, <2>3 DEF IdentityConfirmed
    <3> QED
      BY <3>1, <3>2, <3>3
  <2>4. CASE /\ running \in Healthy /\ IdentityConfirmed(d, running)
             /\ ReachesThreshold(d) /\ Preflight
             /\ op'[p] = [o EXCEPT !.copy = RecordGoodBoot(d), !.step = "promote"]
    <3>1. /\ op'[p].kind = "confirm" /\ op'[p].step = "promote"
          /\ op'[p].copy = RecordGoodBoot(d)
      BY <1>1, <2>4 DEF Ops
    <3>2. ~HasPending(RecordGoodBoot(d))
      BY <1>1, <2>4, DecidedCopy DEF TypeInv
    <3>3. wal.pending \in proven'
      BY <1>1, <1>2, <2>4 DEF IdentityConfirmed
    <3> QED
      BY <2>4, <3>1, <3>2, <3>3
  <2> QED
    BY <2>1, <2>2, <2>3, <2>4, DecideType
<1>5. FilesInv'
  BY <1>2 DEF TurnsInv, FilesInv
<1>6. StartedInv'
  BY <1>2, <1>3, <1>4, DaemonIs, StartedFrame DEF TurnsInv
<1>7. ClaimsInv'
  <2>1. ClaimOf(op[p])'
    BY <1>2, <1>4 DEF ClaimOf
  <2> QED
    BY <1>3, <2>1, IdleOp DEF ClaimsInv, Alone, ClaimOf
<1>8. TriedInv'
  BY <1>2, <1>3, <1>4, DaemonIs, TriedFrame DEF TurnsInv, TrialOf
<1>9. RecoveryInv'
  BY <1>1, <1>2, <1>3, <1>4, DaemonIs, RecoveryFrame DEF TurnsInv, RecoveryOf
<1>10. ProvenInv'
  <2>1. ASSUME used.faults = 0 PROVE SlotOf(op["server"])' /\ ProvenOf(op[p])'
    <3>1. SlotOf(op["server"])
      BY <1>1, <2>1 DEF TurnsInv, ProvenInv
    <3>2. SlotOf(op["server"])'
      BY <1>1, <1>2, <3>1 DEF SlotOf
    <3>3. /\ next.img \in {Nothing, Os(wal.pending)}
          /\ next.sig \in {Nothing, Os(wal.pending)}
      BY <1>1, <3>1, IdleOp DEF SlotOf
    <3>4. Preflight => next.img = Os(wal.pending) /\ next.sig = Os(wal.pending)
      BY <3>3 DEF Preflight
    <3>5. ProvenOf(op[p])'
      BY <1>2, <1>4, <3>4 DEF ProvenOf
    <3> QED
      BY <3>2, <3>5
  <2>2. proven \subseteq proven'
    BY <1>2
  <2> QED
    BY <1>2, <1>3, <2>1, <2>2, DaemonIs, ProvenFrame DEF TurnsInv
<1> QED
  BY <1>1, <1>5, <1>6, <1>7, <1>8, <1>9, <1>10 DEF TurnsInv

-----------------------------------------------------------------------------
(* The machine boots, loses power, or an operation is cut. *)

(* A trial that is left for a loader is spent by the boot that hands it    *)
(* control.                                                                *)
LEMMA MachineBootsTurns ==
  ASSUME TypeInv, ~Overlap, TurnsInv, MachineBoots
  PROVE  TypeInv' /\ TurnsInv'
<1>1. /\ UNCHANGED <<wal, next, active, prev, rec, op, used, proven>>
      /\ \A q \in Processes : op[q] = Idle /\ op'[q] = Idle
  BY DEF MachineBoots, TypeInv, Quiet
<1>2. TypeInv'
  BY MachineBootsType
<1>3. loader.installed[1] = "loader" /\ LoaderBoots
  BY ImagesAre DEF MachineBoots, TurnsInv, StartedInv
<1> DEFINE Handed == TrialLeft /\ Chainable(next) /\ next.img[1] = "loader"
<1>4. /\ boot' = SpendAttempt
      /\ Handed => EnterLoader(next.img[2])
      /\ ~Handed => UNCHANGED <<loader, started, handed>>
  BY <1>3 DEF LoaderBoots
<1>5. /\ started \subseteq started'
      /\ loader' = loader \/ \E v \in Releases \cap started' : loader' = [loader EXCEPT !.ran = v]
  <2>1. CASE Handed
    <3>1. next.img[2] \in Releases
      BY <2>1, ImagesAre DEF TurnsInv, FilesInv, Pairs
    <3> QED
      BY <1>4, <2>1, <3>1 DEF EnterLoader
  <2>2. CASE ~Handed
    BY <1>4, <2>2
  <2> QED
    BY <2>1, <2>2
<1>6. /\ loader' \in Loaders /\ loader'.installed = loader.installed
      /\ loader'.ran \in started' \cup {None}
  BY <1>5 DEF TurnsInv, FilesInv, StartedInv, Loaders
<1>7. FilesInv'
  BY <1>1, <1>6 DEF TurnsInv, FilesInv
<1>8. StartedInv'
  BY <1>1, <1>5, <1>6, IdleOp DEF TurnsInv, StartedInv, At
<1>9. ClaimsInv'
  BY <1>1, IdleOp DEF ClaimsInv, ClaimOf
<1>10. TriedInv'
  <2>1. \A q \in Processes : TrialOf(op[q])'
    BY <1>1, IdleOp DEF TrialOf
  <2>2. boot \in BootStates /\ (TrialLeft => boot.attempts \in Nat \ {0})
    BY DEF TypeInv, BootStates, TrialLeft
  <2>3. TrialLeft' => TrialLeft /\ boot'.attempts = boot.attempts - 1
    BY <1>4, <2>2 DEF SpendAttempt, TrialLeft, BootStates
  <2>4. CASE Handed
    <3>1. ~HasPending(wal) /\ handed = 0 /\ boot.attempts = 1
      BY <2>4 DEF TurnsInv, TriedInv
    <3>2. ~TrialLeft'
      BY <2>3, <3>1 DEF TrialLeft
    <3>3. handed' = 1
      BY <1>4, <2>4, <3>1 DEF EnterLoader
    <3> QED
      BY <1>1, <2>1, <3>1, <3>2, <3>3 DEF TriedInv
  <2>5. CASE ~Handed
    <3>1. handed' = handed
      BY <1>4, <2>5
    <3>2. TrialLeft' => HasPending(wal)
      BY <2>3 DEF TurnsInv, TriedInv, TrialLeft
    <3> QED
      BY <1>1, <2>1, <3>1, <3>2 DEF TurnsInv, TriedInv
  <2> QED
    BY <2>4, <2>5
<1>11. RecoveryInv'
  BY <1>1 DEF TurnsInv, RecoveryInv, RecoveryOf, Whole, Restorable, Half, At
<1>12. ProvenInv'
  BY <1>1 DEF TurnsInv, ProvenInv, ProvenOf, SlotOf, Chainable
<1> QED
  BY <1>2, <1>7, <1>8, <1>9, <1>10, <1>11, <1>12 DEF TurnsInv

(* Wherever a swap of the recovery slot stops, its backup restores it.     *)
LEMMA CutTurns ==
  ASSUME TypeInv, TurnsInv, \A q \in Processes : op'[q] = Idle,
         UNCHANGED <<wal, esp, proven, started, handed>>,
         \/ used'.faults = used.faults + 1
         \/ used'.faults = used.faults /\ Quiet
  PROVE  TurnsInv'
<1>1. UNCHANGED <<wal, boot, next, active, prev, loader, rec, proven, started, handed>>
  BY DEF esp
<1>2. used.faults \in Nat
  BY DEF TypeInv
<1>3. FilesInv'
  BY <1>1 DEF TurnsInv, FilesInv
<1>4. StartedInv'
  BY <1>1, IdleOp DEF TurnsInv, StartedInv, At
<1>5. ClaimsInv'
  BY IdleOp DEF ClaimsInv, ClaimOf
<1>6. TriedInv'
  BY <1>1, IdleOp DEF TurnsInv, TriedInv, TrialOf, TrialLeft
<1>7. RecoveryInv'
  <2> SUFFICES ASSUME used'.faults <= 1 PROVE RecoveryInv'
    BY DEF RecoveryInv
  <2>1. \A q \in Processes : RecoveryOf(op[q])' /\ ~At(q, "restoreSig")'
    BY IdleOp DEF RecoveryOf, At
  <2>2. CASE used'.faults = used.faults /\ Quiet
    <3>1. \A q \in Processes : op[q].step = "idle"
      BY <2>2, IdleOp DEF Quiet
    <3>2. (Whole \/ Restorable) /\ (used.faults = 0 => Whole)
      BY <2>2, <3>1 DEF TurnsInv, RecoveryInv, At
    <3>3. (Whole \/ Restorable)' /\ (used'.faults = 0 => Whole')
      BY <1>1, <2>2, <3>2 DEF Whole, Restorable
    <3> QED
      BY <2>1, <3>3 DEF RecoveryInv
  <2>3. CASE used'.faults = used.faults + 1
    <3>1. used.faults = 0 /\ used'.faults = 1
      BY <1>2, <2>3
    <3>2. Whole \/ Restorable
      <4>1. ASSUME NEW q \in Processes, op[q].step \in {"keepSig", "putSig", "put"}
            PROVE  Restorable
        <5>1. op[q].kind = "recovery"
          BY <4>1, AtWork DEF TypeInv, Underway, Fits, StableSteps, ConfirmSteps,
                              PrepareSteps, OsSteps, LoaderSteps
        <5>2. RecoveryOf(op[q])
          BY <3>1 DEF TurnsInv, RecoveryInv
        <5> QED
          BY <4>1, <5>1, <5>2 DEF RecoveryOf, Restorable
      <4> QED
        BY <3>1, <4>1 DEF TurnsInv, RecoveryInv
    <3>3. (Whole \/ Restorable)'
      BY <1>1, <3>2 DEF Whole, Restorable
    <3> QED
      BY <2>1, <3>1, <3>3 DEF RecoveryInv
  <2> QED
    BY <2>2, <2>3
<1>8. ProvenInv'
  <2> SUFFICES ASSUME used'.faults = 0 PROVE ProvenInv'
    BY DEF ProvenInv
  <2>1. used.faults = 0 /\ Quiet
    BY <1>2
  <2>2. \A q \in Processes : op[q] = op'[q]
    BY <2>1 DEF Quiet
  <2> QED
    BY <1>1, <2>1, <2>2, DaemonIs DEF TurnsInv, ProvenInv, ProvenOf, SlotOf, Chainable
<1> QED
  BY <1>3, <1>4, <1>5, <1>6, <1>7, <1>8 DEF TurnsInv

LEMMA PowerOffTurns ==
  ASSUME TypeInv, TurnsInv, PowerOff
  PROVE  TypeInv' /\ TurnsInv'
<1>1. TypeInv'
  BY PowerOffType
<1>2. \A q \in Processes : op'[q] = Idle
  BY DEF PowerOff
<1>3. \/ used'.faults = used.faults + 1
      \/ used'.faults = used.faults /\ Quiet
  BY DEF PowerOff, IsFault, Spend, TypeInv
<1>4. UNCHANGED <<wal, esp, proven, started, handed>>
  BY DEF PowerOff, history
<1> QED
  BY <1>1, <1>2, <1>3, <1>4, CutTurns

LEMMA OperationFailsTurns ==
  ASSUME TypeInv, ~Overlap, TurnsInv, NEW p \in Processes, OperationFails(p)
  PROVE  TypeInv' /\ TurnsInv'
<1>1. TypeInv'
  BY OperationFailsType
<1>2. op[p] # Idle /\ Goto(p, "idle")
  BY DEF OperationFails
<1>3. op[p].step # "idle"
  BY <1>2 DEF TypeInv, OpInv, Underway, Fits, StableSteps, ConfirmSteps,
              PrepareSteps, OsSteps, LoaderSteps, RecoverySteps
<1>4. \A q \in Processes : op'[q] = Idle
  <2>1. op'[p] = Idle /\ \A q \in Processes \ {p} : op'[q] = op[q]
    BY <1>2, <1>3, IdleGoto DEF TypeInv
  <2> QED
    BY <1>2, <2>1 DEF TypeInv, Turns
<1>5. used'.faults = used.faults + 1
  BY DEF OperationFails, Spend, TypeInv
<1>6. UNCHANGED <<wal, esp, proven, started, handed>>
  BY DEF OperationFails, history
<1> QED
  BY <1>1, <1>4, <1>5, <1>6, CutTurns

-----------------------------------------------------------------------------
(* The server fills the next slot. *)

LEMMA FillTurns ==
  ASSUME TypeInv, ~Overlap, TurnsInv,
         op["server"].step \in {"fetch", "verify", "fetchSig", "accept", "compare"},
         NEW s \in Steps, Goto("server", s),
         s = "idle" \/ Fits("server", [op["server"] EXCEPT !.step = s]),
         s \in {"idle", "verify", "fetchSig", "load", "accept", "cancelRan", "keep", "putSig"},
         next' \in Pairs,
         UNCHANGED <<wal, boot, active, prev, loader, rec, session, used, history>>,
         HasPending(wal) => next'.img = next.img \/ next'.img[1] # "loader",
         op["server"].kind = "os" /\ s \in {"fetchSig", "load"}
           => next'.img = Os(op["server"].rel),
         op["server"].kind = "os" /\ s = "load" => next'.sig = Os(op["server"].rel),
         op["server"].kind = "recovery" /\ used.faults <= 1 => s \in {"idle", "keep"},
         op["server"].kind = "recovery" => op["server"].step = "compare",
         HasPending(wal) /\ used.faults = 0 =>
           /\ s \notin {"verify", "fetchSig", "load"} =>
                next'.img \in {Nothing, Os(wal.pending)}
           /\ s # "load" => next'.sig \in {Nothing, Os(wal.pending)}
  PROVE  TypeInv' /\ TurnsInv'
<1> DEFINE p == "server"
           o == op[p]
<1>1. UNCHANGED <<wal, boot, active, prev, loader, rec, mode, used, proven, started, handed>>
  BY DEF session, history
<1>2. /\ TypeInv' /\ Alone(p) /\ Alone(p)' /\ Underway(p, o)
      /\ op'[p] = IF s = "idle" THEN Idle ELSE [o EXCEPT !.step = s]
  BY <1>1, DaemonIs, GotoType DEF TypeInv
<1>3. \/ op'[p] = Idle /\ s = "idle"
      \/ /\ op'[p] = [o EXCEPT !.step = s] /\ op'[p].step = s
         /\ op'[p].kind = o.kind /\ op'[p].copy = o.copy /\ op'[p].rel = o.rel
  BY <1>2 DEF Underway, Ops
<1>4. o.kind \in {"os", "loader", "recovery"}
  BY <1>2 DEF Underway, Fits, PrepareSteps
<1>5. FilesInv'
  BY <1>1 DEF TurnsInv, FilesInv
<1>6. StartedInv'
  BY <1>1, <1>2, <1>3, DaemonIs, IdleOp, StartedFrame DEF TurnsInv
<1>7. ClaimsInv'
  <2>1. ClaimOf(op[p])
    BY DaemonIs DEF TurnsInv, ClaimsInv
  <2>2. ClaimOf(op[p])'
    BY <1>1, <1>3, <1>4, <2>1, IdleOp DEF ClaimOf
  <2> QED
    BY <1>2, <2>2, IdleOp DEF ClaimsInv, Alone, ClaimOf
<1>8. TriedInv'
  <2>1. TrialOf(op[p])'
    BY <1>3, IdleOp DEF TrialOf
  <2> QED
    BY <1>1, <1>2, <2>1, DaemonIs, TriedFrame DEF TurnsInv
<1>9. RecoveryInv'
  <2>1. ASSUME used.faults <= 1 PROVE RecoveryOf(op[p])'
    <3>1. RecoveryOf(op[p])
      BY <2>1, DaemonIs DEF TurnsInv, RecoveryInv
    <3>2. CASE o.kind = "recovery"
      <4>1. Whole' /\ rec'.prev = None /\ rec'.prevSig = None
        BY <1>1, <3>1, <3>2 DEF RecoveryOf, Whole
      <4> QED
        BY <1>3, <2>1, <3>2, <4>1, IdleOp DEF RecoveryOf
    <3>3. CASE o.kind # "recovery"
      BY <1>3, <1>4, <3>3, IdleOp DEF RecoveryOf
    <3> QED
      BY <3>2, <3>3
  <2>2. op'[p].step # "restoreSig"
    BY <1>3, IdleOp
  <2> QED
    BY <1>1, <1>2, <2>1, <2>2, DaemonIs, RecoveryFrame DEF TurnsInv
<1>10. ProvenInv'
  <2>1. ASSUME used.faults = 0, HasPending(wal) PROVE SlotOf(op["server"])'
    BY <1>1, <1>3, <2>1, IdleOp DEF SlotOf
  <2>2. ProvenOf(op[p])'
    BY <1>3, <1>4, IdleOp DEF ProvenOf
  <2> QED
    BY <1>1, <1>2, <2>1, <2>2, DaemonIs, ProvenFrame DEF TurnsInv
<1> QED
  BY <1>2, <1>5, <1>6, <1>7, <1>8, <1>9, <1>10 DEF TurnsInv

(* What holds of the next slot while the server works on it. *)
LEMMA FillState ==
  ASSUME TypeInv, TurnsInv, op["server"].step \in {"fetch", "verify", "fetchSig", "accept"}
  PROVE  LET o == op["server"] IN
         /\ Underway("server", o) /\ o.kind \in {"os", "loader"} /\ o.rel \in Releases
         /\ next \in Pairs /\ Wanted \in Images
         /\ HasPending(wal) => o.kind = "os" /\ Wanted = Os(o.rel)
         /\ o.kind = "os" => Wanted = Os(o.rel)
         /\ o.kind = "os" /\ o.step = "fetchSig" => next.img = Os(o.rel)
         /\ HasPending(wal) => next.img[1] # "loader"
         /\ HasPending(wal) /\ used.faults = 0 =>
              /\ o.step \notin {"verify", "fetchSig"} =>
                   next.img \in {Nothing, Os(wal.pending)}
              /\ next.sig \in {Nothing, Os(wal.pending)}
<1> DEFINE o == op["server"]
<1>1. Underway("server", o) /\ o.rel \in Releases
  BY DaemonIs, AtWork DEF TypeInv, Underway
<1>2. o.kind \in {"os", "loader"}
  BY <1>1 DEF Underway, Fits, PrepareSteps, RecoverySteps
<1>3. ClaimOf(o)
  BY DaemonIs DEF TurnsInv, ClaimsInv
<1>4. Wanted \in Images /\ (o.kind = "os" => Wanted = Os(o.rel))
  BY <1>1, <1>2, ImagesAre DEF Wanted
<1>5. HasPending(wal) => o.kind = "os"
  BY <1>2, <1>3 DEF ClaimOf
<1>6. o.kind = "os" /\ o.step = "fetchSig" => next.img = Os(o.rel)
  BY <1>3 DEF ClaimOf
<1>7. next \in Pairs /\ (HasPending(wal) => next.img[1] # "loader")
  BY DEF TurnsInv, FilesInv, TriedInv
<1>8. HasPending(wal) /\ used.faults = 0 =>
        /\ o.step \notin {"verify", "fetchSig"} => next.img \in {Nothing, Os(wal.pending)}
        /\ next.sig \in {Nothing, Os(wal.pending)}
  BY DEF TurnsInv, ProvenInv, SlotOf
<1> QED
  BY <1>1, <1>2, <1>4, <1>5, <1>6, <1>7, <1>8

LEMMA FetchTurns ==
  ASSUME TypeInv, ~Overlap, TurnsInv, Fetch
  PROVE  TypeInv' /\ TurnsInv'
<1> DEFINE o == op["server"]
<1>1. /\ o.step = "fetch"
      /\ UNCHANGED <<wal, boot, active, prev, loader, rec, session, used, history>>
  BY DEF Fetch, At
<1>2. After[o.kind]["fetch"] = "verify" /\ Fits("server", [o EXCEPT !.step = "verify"])
  <2>1. After[o.kind]["fetch"] = "verify"
    BY <1>1, FillState, AfterIs
  <2> QED
    BY <1>1, <2>1, FillState, DaemonIs, SuccessorFits
<1>3. CASE \E img \in {Wanted, Corrupt} :
             next' = [next EXCEPT !.img = img] /\ Proceed("server")
  <2>1. PICK img \in {Wanted, Corrupt} :
          next' = [next EXCEPT !.img = img] /\ Proceed("server")
    BY <1>3
  <2>2. next' \in Pairs /\ next'.img = img /\ next'.sig = next.sig
    BY <1>1, <2>1, FillState, ImagesAre DEF Pairs
  <2>3. Goto("server", "verify")
    BY <1>1, <1>2, <2>1 DEF Proceed
  <2>4. HasPending(wal) => next'.img[1] # "loader"
    BY <1>1, <2>2, FillState, ImagesAre
  <2> QED
    BY <1>1, <1>2, <2>2, <2>3, <2>4, FillState, FillTurns DEF Steps
<1>4. CASE ServerFails(next)
  BY <1>1, <1>4, FillState, FillTurns DEF Steps, ServerFails
<1> QED
  BY <1>3, <1>4 DEF Fetch

LEMMA VerifyTurns ==
  ASSUME TypeInv, ~Overlap, TurnsInv, Verify
  PROVE  TypeInv' /\ TurnsInv'
<1> DEFINE o == op["server"]
<1>1. /\ o.step = "verify"
      /\ UNCHANGED <<wal, boot, active, prev, loader, rec, session, used, history>>
  BY DEF Verify, At
<1>2. After[o.kind]["verify"] = "fetchSig" /\ Fits("server", [o EXCEPT !.step = "fetchSig"])
  <2>1. After[o.kind]["verify"] = "fetchSig"
    BY <1>1, FillState, AfterIs
  <2> QED
    BY <1>1, <2>1, FillState, DaemonIs, SuccessorFits
<1>3. CASE next.img = Wanted /\ Proceed("server") /\ UNCHANGED next
  <2>1. Goto("server", "fetchSig")
    BY <1>1, <1>2, <1>3 DEF Proceed
  <2> QED
    BY <1>1, <1>2, <1>3, <2>1, FillState, FillTurns DEF Steps
<1>4. CASE ServerFails([next EXCEPT !.img = Nothing])
  <2>1. next' \in Pairs /\ next'.img = Nothing /\ next'.sig = next.sig
        /\ Goto("server", "idle")
    BY <1>1, <1>4, FillState, ImagesAre DEF Pairs, ServerFails
  <2> QED
    BY <1>1, <2>1, FillState, ImagesAre, FillTurns DEF Steps
<1> QED
  BY <1>3, <1>4 DEF Verify

LEMMA FetchSigTurns ==
  ASSUME TypeInv, ~Overlap, TurnsInv, FetchSig
  PROVE  TypeInv' /\ TurnsInv'
<1> DEFINE o == op["server"]
           s == After[o.kind]["fetchSig"]
<1>1. /\ o.step = "fetchSig"
      /\ UNCHANGED <<wal, boot, active, prev, loader, rec, session, used, history>>
  BY DEF FetchSig, At
<1>2. (o.kind = "os" => s = "load") /\ (o.kind = "loader" => s = "accept")
  BY AfterIs
<1>3. s \in {"load", "accept"} /\ Fits("server", [o EXCEPT !.step = s])
  <2>1. s \in {"load", "accept"}
    BY <1>1, <1>2, FillState
  <2> QED
    BY <1>1, <2>1, FillState, DaemonIs, SuccessorFits
<1>4. CASE next' = [next EXCEPT !.sig = Wanted] /\ Proceed("server")
  <2>1. next' \in Pairs /\ next'.img = next.img /\ next'.sig = Wanted
    BY <1>1, <1>4, FillState DEF Pairs
  <2>2. Goto("server", s)
    BY <1>1, <1>4 DEF Proceed
  <2> HIDE DEF s
  <2> QED
    BY <1>1, <1>2, <1>3, <2>1, <2>2, FillState, FillTurns DEF Steps
<1>5. CASE ServerFails([next EXCEPT !.img = Nothing])
  <2>1. next' \in Pairs /\ next'.img = Nothing /\ next'.sig = next.sig
        /\ Goto("server", "idle")
    BY <1>1, <1>5, FillState, ImagesAre DEF Pairs, ServerFails
  <2> QED
    BY <1>1, <2>1, FillState, ImagesAre, FillTurns DEF Steps
<1>6. CASE ServerFails(Empty)
  <2>1. next' \in Pairs /\ next'.img = Nothing /\ next'.sig = Nothing
        /\ Goto("server", "idle")
    BY <1>6, ImagesAre DEF Pairs, ServerFails, Empty
  <2> QED
    BY <1>1, <2>1, FillState, ImagesAre, FillTurns DEF Steps
<1> QED
  BY <1>4, <1>5, <1>6 DEF FetchSig

LEMMA AcceptTurns ==
  ASSUME TypeInv, ~Overlap, TurnsInv, Accept
  PROVE  TypeInv' /\ TurnsInv'
<1> DEFINE o == op["server"]
<1>1. /\ o.step = "accept"
      /\ UNCHANGED <<wal, boot, active, prev, loader, rec, session, used, history>>
  BY DEF Accept, At
<1>2. o.kind = "loader" /\ ~HasPending(wal)
  BY <1>1, FillState DEF Underway, Fits, OsSteps
<1>3. After[o.kind]["accept"] = "cancelRan"
      /\ Fits("server", [o EXCEPT !.step = "cancelRan"])
  <2>1. After[o.kind]["accept"] = "cancelRan"
    BY <1>2, AfterIs
  <2> QED
    BY <1>1, <2>1, FillState, DaemonIs, SuccessorFits
<1>4. PICK s \in {"cancelRan", "idle"} : Goto("server", s) /\ next' \in {next, Empty}
  BY <1>1, <1>3 DEF Accept, Proceed, ServerFails
<1>5. next' \in Pairs
  BY <1>1, <1>4, FillState, ImagesAre DEF Pairs, Empty
<1> QED
  BY <1>1, <1>2, <1>3, <1>4, <1>5, FillTurns DEF Steps

LEMMA CompareTurns ==
  ASSUME TypeInv, ~Overlap, TurnsInv, Compare
  PROVE  TypeInv' /\ TurnsInv'
<1> DEFINE o == op["server"]
<1>1. /\ o.step = "compare"
      /\ UNCHANGED <<wal, boot, active, prev, loader, rec, session, used, history>>
  BY DEF Compare, At
<1>2. Underway("server", o)
  BY <1>1, DaemonIs, AtWork DEF TypeInv
<1>3. o.kind = "recovery" /\ o \in Ops
  BY <1>1, <1>2 DEF Underway, Fits, PrepareSteps, OsSteps, LoaderSteps
<1>4. ~HasPending(wal)
  BY <1>3, DaemonIs DEF TurnsInv, ClaimsInv, ClaimOf
<1>5. used.faults <= 1 => rec.cur # None
  BY <1>1, <1>3, DaemonIs DEF TurnsInv, RecoveryInv, RecoveryOf, Whole
<1>6. PICK s \in {"idle", "keep", "putSig"} :
        /\ Goto("server", s) /\ next' \in {next, [next EXCEPT !.img = Nothing]}
        /\ s = "putSig" => rec.cur = None
  BY DEF Compare
<1>7. Fits("server", [o EXCEPT !.step = s]) \/ s = "idle"
  <2>1. [o EXCEPT !.step = s].step = s /\ [o EXCEPT !.step = s].kind = "recovery"
    BY <1>3 DEF Ops
  <2> QED
    BY <1>6, <2>1 DEF Fits, RecoverySteps
<1>8. next' \in Pairs
  BY <1>6, ImagesAre DEF Pairs, TurnsInv, FilesInv
<1> QED
  BY <1>1, <1>3, <1>4, <1>5, <1>6, <1>7, <1>8, FillTurns DEF Steps

(* The candidate is marked before its single trial is armed. *)
LEMMA MarkTurns ==
  ASSUME TypeInv, ~Overlap, TurnsInv, Mark
  PROVE  TypeInv' /\ TurnsInv'
<1> DEFINE p == "server"
<1>1. /\ op[p].step = "mark" /\ Proceed(p) /\ handed' = 0
      /\ UNCHANGED <<wal, boot, next, active, prev, rec, mode, used, proven, started>>
      /\ loader' = [loader EXCEPT !.cand = op[p].rel]
  BY DEF Mark, At, session
<1>2. /\ TypeInv' /\ Alone(p) /\ Alone(p)' /\ Underway(p, op[p])
      /\ op'[p] = IF After[op[p].kind]["mark"] = "idle" THEN Idle
                  ELSE [op[p] EXCEPT !.step = After[op[p].kind]["mark"]]
  BY <1>1, DaemonIs, ProceedType DEF TypeInv
<1>3. op[p].kind = "loader" /\ op[p] \in Ops /\ op[p].rel \in Releases
  BY <1>1, <1>2 DEF Underway, Fits, PrepareSteps, OsSteps, RecoverySteps
<1>4. After[op[p].kind]["mark"] = "arm"
  BY <1>3, AfterIs
<1>5. /\ op'[p] = [op[p] EXCEPT !.step = "arm"] /\ op'[p].step = "arm"
      /\ op'[p].kind = op[p].kind /\ op'[p].copy = op[p].copy
  BY <1>2, <1>3, <1>4 DEF Ops
<1>6. FilesInv' /\ StartedInv'
  <2>1. loader' \in Loaders /\ loader'.installed = loader.installed
        /\ loader'.ran = loader.ran
    BY <1>1, <1>3 DEF TurnsInv, FilesInv, Loaders
  <2>2. FilesInv'
    BY <1>1, <2>1 DEF TurnsInv, FilesInv
  <2>3. \A q \in Processes : op'[q].step # "install"
    BY <1>2, <1>5, IdleOp DEF Alone
  <2> QED
    BY <1>1, <2>1, <2>2, <2>3 DEF TurnsInv, StartedInv, At
<1>7. ClaimsInv'
  BY <1>1, <1>2, <1>3, <1>5, DaemonIs, ClaimsFrame DEF TurnsInv, Steps
<1>8. TriedInv'
  <2>1. \A q \in Processes : TrialOf(op[q])'
    <3>1. TrialOf(op[p])'
      BY <1>1, <1>3, <1>5 DEF TrialOf
    <3> QED
      BY <1>2, <3>1, IdleOp DEF Alone, TrialOf
  <2>2. TrialLeft' = TrialLeft
    BY <1>1 DEF TrialLeft
  <2> QED
    BY <1>1, <2>1, <2>2 DEF TurnsInv, TriedInv
<1>9. RecoveryInv'
  BY <1>1, <1>2, <1>3, <1>5, DaemonIs, RecoveryFrame DEF TurnsInv, RecoveryOf
<1>10. ProvenInv'
  <2>1. HasPending(wal) /\ used.faults = 0 => SlotOf(op["server"])'
    BY <1>1, <1>5 DEF TurnsInv, ProvenInv, SlotOf
  <2>2. ProvenOf(op[p])'
    BY <1>3, <1>5 DEF ProvenOf
  <2> QED
    BY <1>1, <1>2, <2>1, <2>2, DaemonIs, ProvenFrame DEF TurnsInv
<1> QED
  BY <1>2, <1>6, <1>7, <1>8, <1>9, <1>10 DEF TurnsInv

LEMMA LoadTurns ==
  ASSUME TypeInv, ~Overlap, TurnsInv, Load
  PROVE  TypeInv' /\ TurnsInv'
<1> DEFINE p == "server"
           o == op[p]
           c == IF o.kind = "os" THEN StagedDeploy(wal, o.rel) ELSE wal
           n == [o EXCEPT !.step = "save", !.copy = c]
<1>1. /\ o.step = "load" /\ Become(p, n)
      /\ UNCHANGED <<wal, boot, next, active, prev, loader, rec, mode, used, proven,
                     started, handed>>
  BY DEF Load, At, esp, session, history
<1>2. Underway(p, o) /\ o \in Ops /\ o.rel \in Releases
  BY <1>1, DaemonIs, AtWork DEF TypeInv, Underway
<1>3. o.kind \in {"os", "recovery"}
  BY <1>1, <1>2 DEF Underway, Fits, PrepareSteps, LoaderSteps
<1>4. GoodRecord(c)
  BY <1>2, StagedDeployRecord DEF TypeInv
<1>5. o.kind = "os" => c.pending = o.rel /\ c.stableBoots = 0
  BY DEF StagedDeploy, Deploy, TypeInv, GoodRecord, Wal
<1>6. o.kind = "recovery" => ~HasPending(c)
  BY DaemonIs DEF TurnsInv, ClaimsInv, ClaimOf
<1> HIDE DEF c
<1>7. /\ n \in Ops /\ n.step = "save" /\ n.kind = o.kind /\ n.copy = c /\ n.rel = o.rel
  BY <1>2, <1>4 DEF Ops, GoodRecord, Steps
<1>8. Underway(p, n)
  BY <1>2, <1>3, <1>4, <1>7 DEF Underway, Fits, OsSteps, RecoverySteps
<1> HIDE DEF n
<1>9. /\ OpInv' /\ op'[p] = n /\ op'["daemon"] = op["daemon"]
  BY <1>1, <1>7, <1>8, DaemonIs, Becomes, BecomeOp DEF TypeInv
<1>10. TypeInv' /\ Alone(p) /\ Alone(p)'
  BY <1>1, <1>9, DaemonIs, WorkType DEF TypeInv, Alone
<1>11. FilesInv'
  BY <1>1 DEF TurnsInv, FilesInv
<1>12. StartedInv'
  BY <1>1, <1>7, <1>9, <1>10, DaemonIs, StartedFrame DEF TurnsInv
<1>13. ClaimsInv'
  <2>1. ClaimOf(o)
    BY DaemonIs DEF TurnsInv, ClaimsInv
  <2>2. ClaimOf(op[p])'
    BY <1>1, <1>3, <1>5, <1>6, <1>7, <1>9, <2>1 DEF ClaimOf
  <2> QED
    BY <1>10, <2>2, IdleOp DEF ClaimsInv, Alone, ClaimOf
<1>14. TriedInv'
  <2>1. TrialOf(op[p])'
    BY <1>3, <1>7, <1>9 DEF TrialOf
  <2> QED
    BY <1>1, <1>10, <2>1, DaemonIs, TriedFrame DEF TurnsInv
<1>15. RecoveryInv'
  <2>1. ASSUME used.faults <= 1 PROVE RecoveryOf(op[p])'
    <3>1. RecoveryOf(o)
      BY <2>1, DaemonIs DEF TurnsInv, RecoveryInv
    <3>2. o.kind = "recovery" => Whole' /\ rec'.prev = None /\ rec'.prevSig = None
      BY <1>1, <3>1 DEF RecoveryOf, Whole
    <3> QED
      BY <1>3, <1>7, <1>9, <3>2 DEF RecoveryOf
  <2> QED
    BY <1>1, <1>7, <1>9, <1>10, <2>1, DaemonIs, RecoveryFrame DEF TurnsInv
<1>16. ProvenInv'
  <2>1. ASSUME used.faults = 0 PROVE ProvenOf(op[p])'
    <3>1. ProvenOf(o)
      BY <2>1, DaemonIs DEF TurnsInv, ProvenInv
    <3> QED
      BY <1>1, <1>3, <1>7, <1>9, <3>1 DEF ProvenOf
  <2>2. SlotOf(op["server"])'
    BY <1>7, <1>9 DEF SlotOf
  <2> QED
    BY <1>1, <1>10, <2>1, <2>2, DaemonIs, ProvenFrame DEF TurnsInv
<1> QED
  BY <1>10, <1>11, <1>12, <1>13, <1>14, <1>15, <1>16 DEF TurnsInv

-----------------------------------------------------------------------------
(* What holds throughout. *)

LEMMA InitTurns == Init => TurnsInv
<1> SUFFICES ASSUME Init PROVE TurnsInv
  OBVIOUS
<1>1. \A q \in Processes : op[q] = Idle
  BY DEF Init
<1>2. /\ ~HasPending(wal) /\ boot = ActiveState /\ handed = 0 /\ Factory # None
      /\ Factory \in Releases
  BY FactoryAssumption, ReleasesAssumption DEF Init, New, HasPending
<1>3. FilesInv
  BY <1>2, ImagesAre DEF Init, FilesInv, Pairs, Loaders, Recoveries, Empty
<1>4. StartedInv
  BY <1>1, IdleOp DEF Init, StartedInv, At
<1>5. ClaimsInv
  BY <1>1, IdleOp DEF ClaimsInv, ClaimOf
<1>6. TriedInv
  BY <1>1, <1>2, IdleOp DEF TriedInv, TrialOf, TrialLeft, ActiveState
<1>7. RecoveryInv
  BY <1>1, <1>2, IdleOp DEF Init, RecoveryInv, RecoveryOf, Whole, At
<1>8. ProvenInv
  BY <1>1, <1>2, ImagesAre, IdleOp DEF Init, ProvenInv, ProvenOf, Chainable
<1> QED
  BY <1>3, <1>4, <1>5, <1>6, <1>7, <1>8 DEF TurnsInv

LEMMA NextTurns ==
  ASSUME TypeInv, ~Overlap, TurnsInv, [Next]_vars
  PROVE  TypeInv' /\ TurnsInv'
<1>1. ASSUME NEW p \in Processes, ProcessStep(p) PROVE TypeInv' /\ TurnsInv'
  BY <1>1, CancelTurns, CancelRanTurns, RepairTurns, ForgetSigTurns, RestoreSigTurns,
     PromoteNextTurns, ArmTurns, SaveTurns, CleanTurns, CleanSigTurns DEF ProcessStep
<1>2. CASE DaemonStep
  BY <1>1, <1>2, DaemonIs, DecideTurns, HandleMarkerTurns, InstallLoaderTurns,
     ForgetFailureTurns DEF DaemonStep
<1>3. CASE ServerStep
  BY <1>1, <1>3, DaemonIs, CheckDowngradeTurns, FetchTurns, VerifyTurns, FetchSigTurns,
     AcceptTurns, MarkTurns, LoadTurns, CompareTurns, SwapTurns DEF ServerStep
<1>4. CASE MachineBoots \/ PowerOff \/ BootSuccess
  BY <1>4, MachineBootsTurns, PowerOffTurns, BootSuccessTurns
<1>5. CASE \E v \in Releases : StageOs(v) \/ StageLoader(v) \/ StageRecovery(v)
  BY <1>5, StageOsTurns, StageLoaderTurns, StageRecoveryTurns
<1>6. CASE \E p \in Processes : OperationFails(p)
  BY <1>6, OperationFailsTurns
<1>7. CASE UNCHANGED vars
  <2>1. UNCHANGED <<wal, boot, next, active, prev, loader, rec, mode, op, used, proven,
                    started, handed>>
    BY <1>7 DEF vars
  <2>2. TypeInv'
    BY <2>1 DEF TypeInv, OpInv, Turns, Quiet
  <2>3. FilesInv' /\ StartedInv' /\ ClaimsInv' /\ TriedInv'
    BY <2>1 DEF TurnsInv, FilesInv, StartedInv, ClaimsInv, ClaimOf, TriedInv, TrialOf,
                TrialLeft, At
  <2>4. RecoveryInv'
    BY <2>1 DEF TurnsInv, RecoveryInv, RecoveryOf, Whole, Restorable, Half, At
  <2>5. ProvenInv'
    BY <2>1 DEF TurnsInv, ProvenInv, ProvenOf, SlotOf, Chainable
  <2> QED
    BY <2>2, <2>3, <2>4, <2>5 DEF TurnsInv
<1> QED
  BY <1>2, <1>3, <1>4, <1>5, <1>6, <1>7 DEF Next

(* TurnsInv is an invariant of the ESP that the two processes share, as    *)
(* long as one waits for the other.                                        *)
LEMMA TurnsKept == ~Overlap /\ Spec => [](TypeInv /\ TurnsInv)
<1> SUFFICES ASSUME ~Overlap PROVE Spec => [](TypeInv /\ TurnsInv)
  OBVIOUS
<1>1. Init => TypeInv /\ TurnsInv
  BY InitType, InitTurns
<1>2. TypeInv /\ TurnsInv /\ [Next]_vars => (TypeInv /\ TurnsInv)'
  BY NextTurns
<1> QED
  BY <1>1, <1>2, PTL DEF Spec

(* Only a loader that started on this machine ever replaces the boot       *)
(* loader: HandleLoaderCandidate installs what left its mark, and the slot *)
(* it copies from still holds it.                                          *)
THEOREM OnlyStartedInstalled == ~Overlap /\ Spec => []InstalledStarted
<1>1. TurnsInv => InstalledStarted
  BY DEF TurnsInv, StartedInv, InstalledStarted
<1> QED
  BY <1>1, TurnsKept, PTL

(* A staged loader is handed control once, for any number of power losses, *)
(* failed operations and stagings after it: the trial that StageLoader     *)
(* arms is spent before the loader runs, and nothing arms it again.        *)
THEOREM OneTrialPerLoader == ~Overlap /\ Spec => []TriedOnce
<1>1. TurnsInv => TriedOnce
  BY DEF TurnsInv, TriedInv, TriedOnce
<1> QED
  BY <1>1, TurnsKept, PTL

(* One fault anywhere in a staging of the recovery slot, or in its repair, *)
(* leaves what RepairRecoverySlot needs to bring back a matching pair.     *)
THEOREM RecoverySurvivesFault == ~Overlap /\ Spec => []RecoveryKept
<1>1. TypeInv /\ TurnsInv => RecoveryKept
  <2> SUFFICES ASSUME TypeInv, TurnsInv, used.faults <= 1, At("daemon", "arm"),
                      op["daemon"].kind = "stable"
               PROVE  rec.cur # None /\ rec.cur = rec.curSig
    BY DEF RecoveryKept
  <2>1. RecoveryOf(op["daemon"])
    BY DaemonIs DEF TurnsInv, RecoveryInv
  <2> QED
    BY <2>1 DEF RecoveryOf, At, Whole
<1> QED
  BY <1>1, TurnsKept, PTL

(* Without faults, the active slot always holds a release that ran and     *)
(* passed its health gate: BootSuccess and the staging that finds a        *)
(* running candidate promote nothing else.                                 *)
THEOREM OnlyProvenPromoted == ~Overlap /\ Spec => []ActiveProven
<1>1. TurnsInv => ActiveProven
  BY DEF TurnsInv, ProvenInv, ActiveProven
<1> QED
  BY <1>1, TurnsKept, PTL
=============================================================================
