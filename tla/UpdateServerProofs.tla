------------------------- MODULE UpdateServerProofs -------------------------
(***************************************************************************)
(* Theorems about the update server, for any set of releases, checkers     *)
(* and downloads.  The staging lock excludes: its holder is the one thread *)
(* inside a critical section.  From that and from what a download carries  *)
(* at each of its points follow the safety properties of the runs.         *)
(***************************************************************************)
EXTENDS UpdateServer, TLAPS

ThreadStates == [pc : Points, st : Statuses, got : Releases \cup {None}]

(* Named is what the constant sets need to be disjoint for. *)
Named == {"startup", "timer", "loader", "rebooter"}

-----------------------------------------------------------------------------
(* The inductive invariant. *)

(* What a download carries at each of its points. *)
DownloadOK(d) ==
  /\ thread[d].pc \in {"idle", "claimed", "verify", "commit", "ended"}
  /\ thread[d].pc \in {"claimed", "verify", "commit"} =>
       thread[d].st.state = "ready" /\ thread[d].st.release \in Releases
  /\ thread[d].pc = "commit" => thread[d].got = thread[d].st.release
  /\ thread[d].pc = "ended" =>
       /\ thread[d].st.state \in {"ready", "downloading", "error"}
       /\ thread[d].st.state = "ready" => thread[d].st.release \in staged

(* An answer that may still be written to the file is never "ready". *)
AnswerOK(t) ==
  thread[t].pc \in {"asked", "askedAgain", "writing"} => thread[t].st.state # "ready"

StartupCounts ==
  thread["startup"].pc \in {"check", "asked", "askedAgain"} => tries < Attempts

IInv ==
  /\ Types
  /\ LockHeld
  /\ \A d \in Downloads : DownloadOK(d)
  /\ \A t \in Threads : AnswerOK(t)
  /\ StartupCounts
  /\ ReadyIsStaged

-----------------------------------------------------------------------------
(* What the helpers do to the threads. *)

LEMMA Distinct ==
  /\ "nobody" \notin Threads
  /\ Named \cap (Checkers \cup Downloads) = {}
  /\ Checkers \cap Downloads = {}
  /\ Named \subseteq Threads
BY ThreadAssumption DEF Threads, Named

LEMMA RestIsTyped ==
  /\ AtRest \in ThreadStates
  /\ NoStatus \in Statuses /\ IdleStatus \in Statuses /\ ErrorStatus \in Statuses
BY DEF AtRest, ThreadStates, NoStatus, IdleStatus, ErrorStatus, Status, Statuses, States, Points

LEMMA GotoEffect ==
  ASSUME Types, NEW t \in Threads, NEW p \in Points, Goto(t, p)
  PROVE  /\ thread' \in [Threads -> ThreadStates]
         /\ thread'[t].pc = p /\ thread'[t].st = thread[t].st
         /\ thread'[t].got = thread[t].got
         /\ \A u \in Threads \ {t} : thread'[u] = thread[u]
BY DEF Goto, Types, ThreadStates

LEMMA GotoWithEffect ==
  ASSUME Types, NEW t \in Threads, NEW p \in Points, NEW s \in Statuses, GotoWith(t, p, s)
  PROVE  /\ thread' \in [Threads -> ThreadStates]
         /\ thread'[t].pc = p /\ thread'[t].st = s
         /\ thread'[t].got = thread[t].got
         /\ \A u \in Threads \ {t} : thread'[u] = thread[u]
BY DEF GotoWith, Types, ThreadStates

LEMMA EndEffect ==
  ASSUME Types, NEW t \in Threads, End(t)
  PROVE  /\ thread' \in [Threads -> ThreadStates]
         /\ thread'[t].pc = "idle"
         /\ \A u \in Threads \ {t} : thread'[u] = thread[u]
<1>1. thread \in [Threads -> ThreadStates]
  BY DEF Types, ThreadStates
<1>2. AtRest.pc = "idle"
  BY DEF AtRest
<1> QED
  BY <1>1, <1>2, RestIsTyped DEF End

-----------------------------------------------------------------------------
(* A step that moves one thread: what is left to show is what it does to   *)
(* that thread, to the lock and to the status file.                        *)

Typed == /\ feed \in Releases
         /\ installed \in Releases \cup {Factory}
         /\ {file, live, advertised} \subseteq Statuses
         /\ tries \in 0..Attempts
         /\ staged \subseteq Releases

LockStep(t) ==
  \/ lock' = lock /\ (Critical(t)' <=> Critical(t))
  \/ LockFree /\ lock' = t /\ Critical(t)'
  \/ lock = t /\ lock' = "nobody" /\ ~Critical(t)'

LEMMA OneThread ==
  ASSUME IInv, NEW t \in Threads,
         thread' \in [Threads -> ThreadStates],
         \A u \in Threads \ {t} : thread'[u] = thread[u],
         Typed', LockStep(t), staged \subseteq staged',
         t \in Downloads => DownloadOK(t)', AnswerOK(t)',
         tries' = tries \/ t = "startup", t = "startup" => StartupCounts',
         ReadyIsStaged'
  PROVE  IInv'
<1>1. Types'
  BY Distinct DEF Types, Typed, ThreadStates, LockStep, IInv
<1>2. LockHeld'
  <2> SUFFICES ASSUME NEW u \in Threads PROVE Critical(u)' <=> lock' = u
    BY DEF LockHeld
  <2>1. Critical(u) <=> lock = u
    BY DEF IInv, LockHeld
  <2>2. Critical(t) <=> lock = t
    BY DEF IInv, LockHeld
  <2>3. CASE u = t
    BY <2>2, <2>3, Distinct DEF LockStep
  <2>4. CASE u # t
    <3>1. Critical(u)' <=> Critical(u)
      BY <2>4 DEF Critical
    <3> QED
      BY <2>1, <2>4, <3>1, Distinct DEF LockStep, LockFree
  <2> QED
    BY <2>3, <2>4
<1>3. \A d \in Downloads : DownloadOK(d)'
  <2> SUFFICES ASSUME NEW d \in Downloads, d # t PROVE DownloadOK(d)'
    OBVIOUS
  <2>1. thread'[d] = thread[d]
    BY DEF Threads
  <2> QED
    BY <2>1 DEF IInv, DownloadOK
<1>4. \A u \in Threads : AnswerOK(u)'
  BY DEF IInv, AnswerOK
<1>5. StartupCounts'
  BY Distinct DEF IInv, StartupCounts, Named
<1> QED
  BY <1>1, <1>2, <1>3, <1>4, <1>5 DEF IInv

LEMMA TypedNow == Types => Typed
BY DEF Types, Typed

LEMMA Answers ==
  ASSUME Types, NEW st \in Statuses, st.state # "ready", ReadyIsStaged,
         NEW out \in PublishPoll(st)
  PROVE  /\ out.answer \in Statuses /\ out.file \in Statuses
         /\ out.file.state = "ready" => out.file.release \in staged
BY DEF PublishPoll, Types, ReadyIsStaged

-----------------------------------------------------------------------------
(* The invariant holds at first. *)

LEMMA StartingThreads ==
  \A t \in Threads :
    /\ ServerThreads(t) \in ThreadStates
    /\ ServerThreads(t).pc \in {"idle", "check"}
    /\ ServerThreads(t).pc = "check" => t = "startup" /\ Attempts > 0
BY RestIsTyped DEF ServerThreads, AtRest, ThreadStates, Points

(* Whatever starts the server leaves every thread at its start or, for the *)
(* timer, where it was, outside every critical section.                    *)
LEMMA FreshServer ==
  ASSUME Typed', lock' = "nobody", tries' = 0, ReadyIsStaged',
         thread' \in [Threads -> ThreadStates],
         \A t \in Threads \ {"timer"} : thread'[t] = ServerThreads(t),
         AnswerOK("timer")'
  PROVE  IInv'
<1>1. Types'
  BY Distinct DEF Types, Typed, ThreadStates
<1>2. \A t \in Threads \ {"timer"} : thread'[t].pc \in {"idle", "check"}
  BY StartingThreads
<1>3. LockHeld'
  <2> SUFFICES ASSUME NEW t \in Threads PROVE ~Critical(t)'
    BY Distinct DEF LockHeld
  <2>1. CASE t = "timer"
    BY <2>1, Distinct DEF Critical, Named
  <2>2. CASE t # "timer"
    BY <1>2, <2>2 DEF Critical
  <2> QED
    BY <2>1, <2>2
<1>4. \A d \in Downloads : DownloadOK(d)'
  <2> SUFFICES ASSUME NEW d \in Downloads PROVE thread'[d].pc = "idle"
    BY DEF DownloadOK
  <2> QED
    BY StartingThreads, Distinct DEF Threads, Named
<1>5. \A t \in Threads : AnswerOK(t)'
  BY <1>2 DEF AnswerOK
<1>6. StartupCounts'
  <2>1. thread'["startup"] = ServerThreads("startup") /\ "startup" \in Threads
    BY DEF Threads
  <2>2. thread'["startup"].pc = "check" => Attempts > 0
    BY <2>1, StartingThreads
  <2>3. thread'["startup"].pc \in {"idle", "check"}
    BY <2>1, StartingThreads
  <2> QED
    BY <2>2, <2>3 DEF StartupCounts
<1> QED
  BY <1>1, <1>3, <1>4, <1>5, <1>6 DEF IInv

LEMMA InitHolds == Init => IInv
<1> SUFFICES ASSUME Init PROVE IInv
  OBVIOUS
<1>1. Types
  BY StartingThreads, RestIsTyped, Distinct, AttemptsAssumption
  DEF Init, Types, ThreadStates
<1>2. \A t \in Threads : /\ thread[t].pc \in {"idle", "check"}
                         /\ thread[t].pc = "check" => t = "startup" /\ Attempts > 0
  BY StartingThreads DEF Init
<1>3. LockHeld
  BY <1>2, Distinct DEF LockHeld, Critical, Init
<1>4. \A d \in Downloads : DownloadOK(d)
  <2> SUFFICES ASSUME NEW d \in Downloads PROVE thread[d].pc = "idle"
    BY DEF DownloadOK
  <2> QED
    BY <1>2, Distinct DEF Threads, Named
<1>5. \A t \in Threads : AnswerOK(t)
  BY <1>2 DEF AnswerOK
<1>6. StartupCounts
  BY <1>2, Distinct DEF StartupCounts, Init, Named
<1>7. ReadyIsStaged
  BY DEF Init, ReadyIsStaged, NoStatus, Status
<1> QED
  BY <1>1, <1>3, <1>4, <1>5, <1>6, <1>7 DEF IInv

-----------------------------------------------------------------------------
(* Each group of actions preserves the invariant.  The threads that ask    *)
(* share one lemma: an answer is never "ready".                            *)

LEMMA AskEffect ==
  ASSUME Types, NEW t \in Threads, Asks(t)
  PROVE  /\ thread' \in [Threads -> ThreadStates]
         /\ \A u \in Threads \ {t} : thread'[u] = thread[u]
         /\ thread'[t].pc \in {"asked", "askedAgain"}
         /\ thread'[t].st.state # "ready"
         /\ UNCHANGED <<feed, device, file, store, lock, tries>>
<1>1. Checked \in Statuses /\ Checked.state # "ready"
  BY RestIsTyped DEF Checked, Status, Statuses, States, IdleStatus, Types
<1>2. ErrorStatus \in Statuses /\ ErrorStatus.state # "ready"
  BY RestIsTyped DEF ErrorStatus, Status
<1>3. {"asked", "askedAgain"} \subseteq Points
  BY DEF Points
<1>4. CASE GotoWith(t, "asked", Checked)
  BY <1>1, <1>3, <1>4, GotoWithEffect DEF Asks
<1>5. CASE GotoWith(t, "asked", ErrorStatus)
  BY <1>2, <1>3, <1>5, GotoWithEffect DEF Asks
<1>6. CASE GotoWith(t, "askedAgain", ErrorStatus)
  BY <1>2, <1>3, <1>6, GotoWithEffect DEF Asks
<1> QED
  BY <1>4, <1>5, <1>6 DEF Asks

LEMMA AskKeeps ==
  ASSUME IInv, NEW t \in Threads \ Downloads, t # "loader", t # "rebooter", Asks(t),
         ~Critical(t), t = "startup" => At(t, "check")
  PROVE  IInv'
<1>1. /\ thread' \in [Threads -> ThreadStates]
      /\ \A u \in Threads \ {t} : thread'[u] = thread[u]
      /\ thread'[t].pc \in {"asked", "askedAgain"}
      /\ thread'[t].st.state # "ready"
      /\ UNCHANGED <<feed, device, file, store, lock, tries>>
  BY AskEffect DEF IInv
<1>2. LockStep(t)
  BY <1>1 DEF LockStep, Critical
<1>3. Typed' /\ ReadyIsStaged'
  BY <1>1, TypedNow DEF IInv, Typed, ReadyIsStaged, device, store
<1>4. t = "startup" => StartupCounts'
  BY <1>1 DEF IInv, StartupCounts, At
<1> QED
  BY <1>1, <1>2, <1>3, <1>4, OneThread DEF AnswerOK, device

LEMMA CheckKeeps ==
  ASSUME IInv, NEW c \in Checkers, Check(c)
  PROVE  IInv'
<1>1. c \in Threads /\ c \notin Downloads /\ c \notin Named
  BY Distinct DEF Threads
<1>2. ~Critical(c) /\ ~Critical(c)'
  BY <1>1 DEF Critical, Named
<1>3. CASE CheckAsks(c)
  BY <1>1, <1>2, <1>3, AskKeeps DEF CheckAsks, Named
<1>4. CASE CheckPublishes(c)
  <2>1. PICK out \in PublishPoll(thread[c].st) :
          /\ file' = out.file
          /\ GotoWith(c, "published", IF out.err THEN ErrorStatus ELSE out.answer)
    BY <1>4 DEF CheckPublishes
  <2>2. thread[c].st \in Statuses /\ thread[c].st.state # "ready"
    BY <1>1, <1>4 DEF CheckPublishes, IInv, Types, AnswerOK, At
  <2>3. /\ out.answer \in Statuses /\ out.file \in Statuses
        /\ out.file.state = "ready" => out.file.release \in staged
    BY <2>1, <2>2, Answers DEF IInv
  <2>4. UNCHANGED <<feed, device, store, lock, tries>>
    BY <1>4 DEF CheckPublishes
  <2>5. "published" \in Points
    BY DEF Points
  <2>6. /\ thread' \in [Threads -> ThreadStates]
        /\ thread'[c].pc = "published"
        /\ \A u \in Threads \ {c} : thread'[u] = thread[u]
    BY <1>1, <2>1, <2>3, <2>5, RestIsTyped, GotoWithEffect DEF IInv
  <2>7. Typed' /\ ReadyIsStaged'
    BY <2>1, <2>3, <2>4, TypedNow DEF IInv, Typed, ReadyIsStaged, device, store
  <2>8. LockStep(c)
    BY <1>2, <2>4 DEF LockStep
  <2>9. AnswerOK(c)' /\ staged \subseteq staged' /\ tries' = tries
    BY <2>4, <2>6 DEF AnswerOK, device
  <2> QED
    BY <1>1, <2>6, <2>7, <2>8, <2>9, OneThread DEF Named
<1>5. CASE CheckAdvertises(c)
  <2>1. /\ thread' \in [Threads -> ThreadStates]
        /\ thread'[c].pc = "idle"
        /\ \A u \in Threads \ {c} : thread'[u] = thread[u]
    BY <1>1, <1>5, EndEffect DEF CheckAdvertises, IInv
  <2>2. thread[c].st \in Statuses
    BY <1>1 DEF IInv, Types
  <2>3. UNCHANGED <<feed, device, file, live, lock, tries>>
    BY <1>5 DEF CheckAdvertises
  <2>4. Typed' /\ ReadyIsStaged'
    BY <1>5, <2>2, <2>3, RestIsTyped, TypedNow
    DEF CheckAdvertises, Advertise, IInv, Typed, ReadyIsStaged, device
  <2>5. LockStep(c)
    BY <1>2, <2>3 DEF LockStep
  <2>6. AnswerOK(c)' /\ staged \subseteq staged' /\ tries' = tries
    BY <2>1, <2>3 DEF AnswerOK, device
  <2> QED
    BY <1>1, <2>1, <2>4, <2>5, <2>6, OneThread DEF Named
<1> QED
  BY <1>3, <1>4, <1>5 DEF Check

LEMMA ClaimKeeps ==
  ASSUME IInv, NEW d \in Downloads, NEW r \in Releases, ClaimDownload(d, r)
  PROVE  IInv'
<1>1. d \in Threads /\ d \notin Named
  BY Distinct DEF Threads
<1>2. /\ Status("ready", r) \in Statuses /\ Status("ready", r).state = "ready"
      /\ Status("ready", r).release = r
      /\ Status("downloading", r) \in Statuses /\ "claimed" \in Points
  BY DEF Status, Statuses, States, Points
<1>3. /\ thread' \in [Threads -> ThreadStates]
      /\ thread'[d].pc = "claimed" /\ thread'[d].st = Status("ready", r)
      /\ \A u \in Threads \ {d} : thread'[u] = thread[u]
  BY <1>1, <1>2, GotoWithEffect DEF ClaimDownload, IInv
<1>4. UNCHANGED <<feed, device, file, lock, tries>> /\ thread[d].pc = "idle"
  BY DEF ClaimDownload, At
<1>5. Typed' /\ ReadyIsStaged'
  BY <1>2, <1>4, RestIsTyped, TypedNow
  DEF ClaimDownload, IInv, Typed, ReadyIsStaged, device
<1>6. LockStep(d)
  BY <1>1, <1>3, <1>4 DEF LockStep, Critical, Named
<1>7. DownloadOK(d)' /\ AnswerOK(d)' /\ staged \subseteq staged'
  BY <1>2, <1>3, <1>4 DEF DownloadOK, AnswerOK, device
<1> QED
  BY <1>1, <1>3, <1>4, <1>5, <1>6, <1>7, OneThread DEF Named

(* A download holds the lock while it verifies and commits, and what it    *)
(* commits is what it verified.                                            *)
LEMMA DownloadKeeps ==
  ASSUME IInv, NEW d \in Downloads, Download(d)
  PROVE  IInv'
<1> DEFINE Others == \A u \in Threads \ {d} : thread'[u] = thread[u]
<1>1. d \in Threads /\ d \notin Named /\ Types
  BY Distinct DEF Threads, IInv
<1>2. {"verify", "commit", "ended", "idle"} \subseteq Points
  BY DEF Points
<1>3. Critical(d) <=> lock = d
  BY <1>1 DEF IInv, LockHeld
<1>4. DownloadOK(d) /\ Typed /\ ReadyIsStaged
  BY TypedNow DEF IInv
<1>5. CASE StageLocks(d)
  <2>1. UNCHANGED <<feed, device, file, store, tries>> /\ thread[d].pc = "claimed"
    BY <1>5 DEF StageLocks, At
  <2>2. Typed' /\ ReadyIsStaged' /\ staged \subseteq staged' /\ tries' = tries
    BY <1>4, <2>1 DEF Typed, ReadyIsStaged, device, store
  <2>3. CASE LockFree
    <3>1. lock' = d /\ Goto(d, "verify")
      BY <1>5, <2>3 DEF StageLocks
    <3>2. /\ thread' \in [Threads -> ThreadStates] /\ Others
          /\ thread'[d].pc = "verify" /\ thread'[d].st = thread[d].st
      BY <1>1, <1>2, <3>1, GotoEffect
    <3>3. LockStep(d)
      BY <2>3, <3>1, <3>2 DEF LockStep, Critical
    <3>4. DownloadOK(d)' /\ AnswerOK(d)'
      BY <1>4, <2>1, <3>2 DEF DownloadOK, AnswerOK
    <3> QED
      BY <1>1, <2>2, <3>2, <3>3, <3>4, OneThread DEF Named
  <2>4. CASE ~LockFree
    <3>1. GotoWith(d, "ended", Busy(thread[d].st)) /\ lock' = lock
      BY <1>5, <2>4 DEF StageLocks
    <3>2. Busy(thread[d].st) \in Statuses /\ Busy(thread[d].st).state = "downloading"
      BY <1>4, <2>1 DEF Busy, Status, Statuses, States, DownloadOK
    <3>3. /\ thread' \in [Threads -> ThreadStates] /\ Others
          /\ thread'[d].pc = "ended" /\ thread'[d].st.state = "downloading"
      BY <1>1, <1>2, <3>1, <3>2, GotoWithEffect
    <3>4. LockStep(d)
      BY <1>1, <2>1, <3>1, <3>3 DEF LockStep, Critical, Named
    <3>5. DownloadOK(d)' /\ AnswerOK(d)'
      BY <3>3 DEF DownloadOK, AnswerOK
    <3> QED
      BY <1>1, <2>2, <3>3, <3>4, <3>5, OneThread DEF Named
  <2> QED
    BY <2>3, <2>4
<1>6. CASE StageVerifies(d)
  <2>1. /\ UNCHANGED <<feed, device, file, store, lock, tries>> /\ thread[d].pc = "verify"
        /\ feed = thread[d].st.release
        /\ thread' = [thread EXCEPT ![d].pc = "commit", ![d].got = feed]
    BY <1>6 DEF StageVerifies, At
  <2>2. Typed' /\ ReadyIsStaged' /\ staged \subseteq staged' /\ tries' = tries
    BY <1>4, <2>1 DEF Typed, ReadyIsStaged, device, store
  <2>3. /\ thread' \in [Threads -> ThreadStates] /\ Others
        /\ thread'[d].pc = "commit" /\ thread'[d].st = thread[d].st
        /\ thread'[d].got = feed
    BY <1>1, <1>2, <2>1 DEF Types, ThreadStates
  <2>4. LockStep(d)
    BY <2>1, <2>3 DEF LockStep, Critical
  <2>5. DownloadOK(d)' /\ AnswerOK(d)'
    BY <1>4, <2>1, <2>3 DEF DownloadOK, AnswerOK
  <2> QED
    BY <1>1, <2>2, <2>3, <2>4, <2>5, OneThread DEF Named
<1>7. CASE StageCommits(d)
  <2>1. /\ UNCHANGED <<feed, file, store, tries>> /\ thread[d].pc = "commit"
        /\ installed' = thread[d].got /\ staged' = staged \cup {thread[d].got}
        /\ lock' = "nobody"
    BY <1>7 DEF StageCommits, At
  <2>2. thread[d].got = thread[d].st.release /\ thread[d].got \in Releases
    BY <1>4, <2>1 DEF DownloadOK
  <2>3. Typed' /\ ReadyIsStaged' /\ staged \subseteq staged' /\ tries' = tries
    BY <1>4, <2>1, <2>2 DEF Typed, ReadyIsStaged, store
  <2>4. /\ thread' \in [Threads -> ThreadStates] /\ Others
        /\ thread'[d].pc = "ended" /\ thread'[d].st = thread[d].st
    BY <1>1, <1>2, <1>7, GotoEffect DEF StageCommits
  <2>5. lock = d
    BY <1>3, <2>1 DEF Critical
  <2>6. LockStep(d)
    BY <1>1, <2>1, <2>4, <2>5 DEF LockStep, Critical, Named
  <2>7. DownloadOK(d)' /\ AnswerOK(d)'
    BY <1>4, <2>1, <2>2, <2>4 DEF DownloadOK, AnswerOK
  <2> QED
    BY <1>1, <2>3, <2>4, <2>6, <2>7, OneThread DEF Named
<1>8. CASE StageFails(d)
  <2>1. /\ UNCHANGED <<feed, device, file, store, tries>>
        /\ thread[d].pc \in {"verify", "commit"} /\ lock' = "nobody"
    BY <1>8 DEF StageFails
  <2>2. Typed' /\ ReadyIsStaged' /\ staged \subseteq staged' /\ tries' = tries
    BY <1>4, <2>1 DEF Typed, ReadyIsStaged, device, store
  <2>3. ErrorStatus \in Statuses /\ ErrorStatus.state = "error"
    BY RestIsTyped DEF ErrorStatus, Status
  <2>4. /\ thread' \in [Threads -> ThreadStates] /\ Others
        /\ thread'[d].pc = "ended" /\ thread'[d].st.state = "error"
    BY <1>1, <1>2, <1>8, <2>3, GotoWithEffect DEF StageFails
  <2>5. lock = d
    BY <1>3, <2>1 DEF Critical
  <2>6. LockStep(d)
    BY <1>1, <2>1, <2>4, <2>5 DEF LockStep, Critical, Named
  <2>7. DownloadOK(d)' /\ AnswerOK(d)'
    BY <2>4 DEF DownloadOK, AnswerOK
  <2> QED
    BY <1>1, <2>2, <2>4, <2>6, <2>7, OneThread DEF Named
<1>9. CASE Complete(d)
  <2>1. /\ UNCHANGED <<feed, device, advertised, lock, tries>>
        /\ thread[d].pc = "ended" /\ file' \in {thread[d].st, file}
        /\ live' = NoStatus
    BY <1>9 DEF Complete, At
  <2>2. thread[d].st \in Statuses
    BY <1>1 DEF Types
  <2>3. Typed' /\ staged \subseteq staged' /\ tries' = tries
    BY <1>4, <2>1, <2>2, RestIsTyped DEF Typed, device
  <2>4. ReadyIsStaged'
    BY <1>4, <2>1 DEF ReadyIsStaged, DownloadOK, device
  <2>5. /\ thread' \in [Threads -> ThreadStates] /\ Others /\ thread'[d].pc = "idle"
    BY <1>1, <1>9, EndEffect DEF Complete
  <2>6. LockStep(d)
    BY <1>1, <2>1, <2>5 DEF LockStep, Critical, Named
  <2>7. DownloadOK(d)' /\ AnswerOK(d)'
    BY <2>5 DEF DownloadOK, AnswerOK
  <2> QED
    BY <1>1, <2>3, <2>4, <2>5, <2>6, <2>7, OneThread DEF Named
<1> QED
  BY <1>5, <1>6, <1>7, <1>8, <1>9 DEF Download

LEMMA StartupKeeps ==
  ASSUME IInv, Startup
  PROVE  IInv'
<1> DEFINE t == "startup"
           Others == \A u \in Threads \ {t} : thread'[u] = thread[u]
<1>1. t \in Threads /\ t \notin Downloads /\ t \in Named /\ Types
  BY Distinct DEF Named, IInv
<1>2. {"loading", "check", "verify", "repairing", "recovery", "idle"} \subseteq Points
  BY DEF Points
<1>3. Critical(t) <=> lock = t
  BY <1>1 DEF IInv, LockHeld
<1>4. Typed /\ ReadyIsStaged /\ StartupCounts
  BY TypedNow DEF IInv
<1>5. Critical(t) <=> thread[t].pc \in {"verify", "repairing"}
  BY <1>1 DEF Critical
<1>6. Critical(t)' <=> thread'[t].pc \in {"verify", "repairing"}
  BY <1>1 DEF Critical
<1>7. CASE StartupAsks
  BY <1>1, <1>5, <1>7, AskKeeps DEF StartupAsks, At
<1>8. CASE StartupPublishes
  <2>1. PICK out \in PublishPoll(thread[t].st) :
          /\ file' = out.file
          /\ IF out.err \/ At("startup", "asked")
             THEN Goto("startup", "loading") /\ UNCHANGED tries
             ELSE /\ tries' = tries + 1
                  /\ IF MoreAttempts THEN Goto("startup", "check")
                     ELSE End("startup")
    BY <1>8 DEF StartupPublishes
  <2>2. thread[t].pc \in {"asked", "askedAgain"} /\ UNCHANGED <<feed, device, store, lock>>
    BY <1>8 DEF StartupPublishes
  <2>3. thread[t].st \in Statuses /\ thread[t].st.state # "ready"
    BY <1>1, <2>2 DEF IInv, Types, AnswerOK
  <2>4. out.file \in Statuses /\ (out.file.state = "ready" => out.file.release \in staged)
    BY <2>1, <2>3, Answers DEF IInv
  <2>5. tries \in Nat /\ tries < Attempts
    BY <1>4, <2>2, AttemptsAssumption DEF StartupCounts, Typed
  <2>6. /\ thread' \in [Threads -> ThreadStates] /\ Others
        /\ thread'[t].pc \in {"loading", "check", "idle"}
        /\ tries' \in 0..Attempts
        /\ thread'[t].pc = "check" => tries' < Attempts
    <3>1. CASE out.err \/ At("startup", "asked")
      <4>1. Goto(t, "loading") /\ tries' = tries
        BY <2>1, <3>1
      <4>2. /\ thread' \in [Threads -> ThreadStates] /\ Others
            /\ thread'[t].pc = "loading"
        BY <1>1, <1>2, <4>1, GotoEffect
      <4> QED
        BY <2>5, <4>1, <4>2, AttemptsAssumption
    <3>2. CASE ~(out.err \/ At("startup", "asked")) /\ MoreAttempts
      <4>1. Goto(t, "check") /\ tries' = tries + 1
        BY <2>1, <3>2
      <4>2. /\ thread' \in [Threads -> ThreadStates] /\ Others
            /\ thread'[t].pc = "check"
        BY <1>1, <1>2, <4>1, GotoEffect
      <4> QED
        BY <2>5, <3>2, <4>1, <4>2, AttemptsAssumption DEF MoreAttempts
    <3>3. CASE ~(out.err \/ At("startup", "asked")) /\ ~MoreAttempts
      <4>1. End(t) /\ tries' = tries + 1
        BY <2>1, <3>3
      <4>2. /\ thread' \in [Threads -> ThreadStates] /\ Others
            /\ thread'[t].pc = "idle"
        BY <1>1, <4>1, EndEffect
      <4> QED
        BY <2>5, <4>1, <4>2, AttemptsAssumption
    <3> QED
      BY <3>1, <3>2, <3>3
  <2>7. Typed' /\ ReadyIsStaged' /\ staged \subseteq staged'
    BY <1>4, <2>1, <2>2, <2>4, <2>6 DEF Typed, ReadyIsStaged, device, store
  <2>8. LockStep(t)
    BY <1>5, <1>6, <2>2, <2>6 DEF LockStep
  <2>9. AnswerOK(t)' /\ StartupCounts'
    BY <2>6 DEF AnswerOK, StartupCounts
  <2> QED
    BY <1>1, <2>6, <2>7, <2>8, <2>9, OneThread
<1>9. ASSUME NEW from \in {"loading", "recovery"}, NEW to \in {"verify", "repairing"},
             NEW after \in {"recovery", "idle"}, StartupLocks(from, to, after)
      PROVE  IInv'
  <2>1. UNCHANGED <<feed, device, file, store, tries>> /\ thread[t].pc = from
    BY <1>9 DEF StartupLocks, At
  <2>2. Typed' /\ ReadyIsStaged' /\ staged \subseteq staged' /\ tries' = tries
    BY <1>4, <2>1 DEF Typed, ReadyIsStaged, device, store
  <2>3. CASE LockFree /\ lock' = t /\ Goto(t, to)
    <3>1. /\ thread' \in [Threads -> ThreadStates] /\ Others /\ thread'[t].pc = to
      BY <1>1, <1>2, <2>3, GotoEffect
    <3>2. LockStep(t)
      BY <1>6, <2>3, <3>1 DEF LockStep
    <3> QED
      BY <1>1, <2>2, <3>1, <3>2, OneThread DEF AnswerOK, StartupCounts
  <2>4. CASE Goto(t, after) /\ lock' = lock
    <3>1. /\ thread' \in [Threads -> ThreadStates] /\ Others /\ thread'[t].pc = after
      BY <1>1, <1>2, <2>4, GotoEffect
    <3>2. LockStep(t)
      BY <1>5, <1>6, <2>1, <2>4, <3>1 DEF LockStep
    <3> QED
      BY <1>1, <2>2, <3>1, <3>2, OneThread DEF AnswerOK, StartupCounts
  <2> QED
    BY <1>9, <2>3, <2>4 DEF StartupLocks
<1>10. CASE StartupUnlocks
  <2>1. UNCHANGED <<feed, device, file, store, tries>> /\ lock = t /\ lock' = "nobody"
    BY <1>10 DEF StartupUnlocks
  <2>2. Typed' /\ ReadyIsStaged' /\ staged \subseteq staged' /\ tries' = tries
    BY <1>4, <2>1 DEF Typed, ReadyIsStaged, device, store
  <2>3. /\ thread' \in [Threads -> ThreadStates] /\ Others
        /\ thread'[t].pc \in {"recovery", "idle"}
    <3>1. CASE At(t, "verify")
      BY <1>1, <1>2, <1>10, <3>1, GotoEffect DEF StartupUnlocks
    <3>2. CASE ~At(t, "verify")
      BY <1>1, <1>10, <3>2, EndEffect DEF StartupUnlocks
    <3> QED
      BY <3>1, <3>2
  <2>4. LockStep(t)
    BY <1>6, <2>1, <2>3 DEF LockStep
  <2> QED
    BY <1>1, <2>2, <2>3, <2>4, OneThread DEF AnswerOK, StartupCounts
<1> QED
  BY <1>7, <1>8, <1>9, <1>10 DEF Startup, MaybeAutoStageLoader, MaybeStageRecovery

LEMMA TimerKeeps ==
  ASSUME IInv, Timer
  PROVE  IInv'
<1> DEFINE t == "timer"
           Others == \A u \in Threads \ {t} : thread'[u] = thread[u]
<1>1. t \in Threads /\ t \notin Downloads /\ Types
  BY Distinct DEF Threads, IInv, Named
<1>2. ~Critical(t) /\ ~Critical(t)'
  BY <1>1 DEF Critical
<1>3. Typed /\ ReadyIsStaged
  BY TypedNow DEF IInv
<1>4. CASE TimerAsks
  BY <1>1, <1>2, <1>4, AskKeeps DEF TimerAsks
<1>5. CASE TimerReads \/ TimerWrites \/ TimerCannotWrite
  <2>1. thread[t].pc \in {"asked", "writing"} /\ thread[t].st.state # "ready"
    BY <1>1, <1>5 DEF TimerReads, TimerWrites, TimerCannotWrite, At, IInv, AnswerOK
  <2>2. /\ UNCHANGED <<feed, device, store, lock, tries>>
        /\ file' \in {file, thread[t].st}
    BY <1>5 DEF TimerReads, TimerWrites, TimerCannotWrite
  <2>3. thread[t].st \in Statuses /\ "writing" \in Points
    BY <1>1 DEF Types, Points
  <2>4. Typed' /\ ReadyIsStaged' /\ staged \subseteq staged' /\ tries' = tries
    BY <1>3, <2>1, <2>2, <2>3 DEF Typed, ReadyIsStaged, device, store
  <2>5. End(t) \/ Goto(t, "writing")
    BY <1>5 DEF TimerReads, TimerWrites, TimerCannotWrite
  <2>6. /\ thread' \in [Threads -> ThreadStates] /\ Others
        /\ AnswerOK(t)'
    <3>1. CASE End(t)
      BY <1>1, <3>1, EndEffect DEF AnswerOK
    <3>2. CASE Goto(t, "writing")
      BY <1>1, <2>1, <2>3, <3>2, GotoEffect DEF AnswerOK
    <3> QED
      BY <2>5, <3>1, <3>2
  <2>7. LockStep(t)
    BY <1>2, <2>2 DEF LockStep
  <2> QED
    BY <1>1, <2>4, <2>6, <2>7, OneThread
<1> QED
  BY <1>4, <1>5 DEF Timer

LEMMA LoaderKeeps ==
  ASSUME IInv, Loader
  PROVE  IInv'
<1> DEFINE t == "loader"
<1>1. t \in Threads /\ t \notin Downloads /\ Types /\ "loading" \in Points
  BY Distinct DEF Threads, IInv, Named, Points
<1>2. Critical(t) <=> lock = t
  BY <1>1 DEF IInv, LockHeld
<1>3. Typed' /\ ReadyIsStaged' /\ staged \subseteq staged' /\ tries' = tries
  BY TypedNow DEF Loader, LoaderLocks, LoaderUnlocks, IInv, Typed, ReadyIsStaged, device, store
<1>4. CASE LoaderLocks
  <2>1. /\ thread' \in [Threads -> ThreadStates] /\ thread'[t].pc = "loading"
        /\ \A u \in Threads \ {t} : thread'[u] = thread[u]
    BY <1>1, <1>4, GotoEffect DEF LoaderLocks
  <2>2. LockStep(t)
    BY <1>4, <2>1 DEF LoaderLocks, LockStep, Critical
  <2> QED
    BY <1>1, <1>3, <2>1, <2>2, OneThread DEF AnswerOK
<1>5. CASE LoaderUnlocks
  <2>1. /\ thread' \in [Threads -> ThreadStates] /\ thread'[t].pc = "idle"
        /\ \A u \in Threads \ {t} : thread'[u] = thread[u]
    BY <1>1, <1>5, EndEffect DEF LoaderUnlocks
  <2>2. thread[t].pc = "loading" /\ lock' = "nobody"
    BY <1>5 DEF LoaderUnlocks, At
  <2>3. LockStep(t)
    BY <1>1, <1>2, <2>1, <2>2 DEF LockStep, Critical
  <2> QED
    BY <1>1, <1>3, <2>1, <2>3, OneThread DEF AnswerOK
<1> QED
  BY <1>4, <1>5 DEF Loader

LEMMA RebootKeeps ==
  ASSUME IInv, Reboot
  PROVE  IInv'
<1> DEFINE t == "rebooter"
<1>1. t \in Threads /\ t \notin Downloads /\ Types /\ {"locked", "rebooting"} \subseteq Points
  BY Distinct DEF Threads, IInv, Named, Points
<1>2. Critical(t) <=> lock = t
  BY <1>1 DEF IInv, LockHeld
<1>3. Typed' /\ ReadyIsStaged' /\ staged \subseteq staged' /\ tries' = tries
  BY TypedNow
  DEF Reboot, RebootLocks, RebootAccepted, RebootUnlocks, IInv, Typed, ReadyIsStaged,
      device, store
<1>4. CASE RebootLocks
  <2>1. /\ thread' \in [Threads -> ThreadStates] /\ thread'[t].pc = "locked"
        /\ \A u \in Threads \ {t} : thread'[u] = thread[u]
    BY <1>1, <1>4, GotoEffect DEF RebootLocks
  <2>2. LockStep(t)
    BY <1>4, <2>1 DEF RebootLocks, LockStep, Critical
  <2> QED
    BY <1>1, <1>3, <2>1, <2>2, OneThread DEF AnswerOK
<1>5. CASE RebootAccepted
  <2>1. /\ thread' \in [Threads -> ThreadStates] /\ thread'[t].pc = "rebooting"
        /\ \A u \in Threads \ {t} : thread'[u] = thread[u]
    BY <1>1, <1>5, GotoEffect DEF RebootAccepted
  <2>2. LockStep(t)
    BY <1>5, <2>1 DEF RebootAccepted, LockStep, Critical, At
  <2> QED
    BY <1>1, <1>3, <2>1, <2>2, OneThread DEF AnswerOK
<1>6. CASE RebootUnlocks
  <2>1. /\ thread' \in [Threads -> ThreadStates] /\ thread'[t].pc = "idle"
        /\ \A u \in Threads \ {t} : thread'[u] = thread[u]
    BY <1>1, <1>6, EndEffect DEF RebootUnlocks
  <2>2. thread[t].pc \in {"locked", "rebooting"} /\ lock' = "nobody"
    BY <1>6 DEF RebootUnlocks, At
  <2>3. LockStep(t)
    BY <1>1, <1>2, <2>1, <2>2 DEF LockStep, Critical
  <2> QED
    BY <1>1, <1>3, <2>1, <2>3, OneThread DEF AnswerOK
<1> QED
  BY <1>4, <1>5, <1>6 DEF Reboot

LEMMA StatusKeeps ==
  ASSUME IInv, StatusAdvertises
  PROVE  IInv'
<1>1. UNCHANGED <<feed, device, file, live, lock, thread, tries>>
  BY DEF StatusAdvertises
<1>2. Shown \in Statuses /\ NoStatus \in Statuses
  BY RestIsTyped DEF Shown, IInv, Types
<1>3. Types'
  BY <1>1, <1>2 DEF StatusAdvertises, Advertise, IInv, Types, device
<1> QED
  BY <1>1, <1>3
  DEF IInv, LockHeld, Critical, DownloadOK, AnswerOK, StartupCounts, ReadyIsStaged, device

LEMMA FeedKeeps ==
  ASSUME IInv, NEW r \in Releases, FeedPublishes(r)
  PROVE  IInv'
<1>1. UNCHANGED <<device, file, store, lock, thread, tries>> /\ feed' = r
  BY DEF FeedPublishes
<1>2. Types'
  BY <1>1 DEF IInv, Types, device, store
<1> QED
  BY <1>1, <1>2
  DEF IInv, LockHeld, Critical, DownloadOK, AnswerOK, StartupCounts, ReadyIsStaged, device

LEMMA RestartKeeps ==
  ASSUME IInv, ServerRestarts
  PROVE  IInv'
<1>1. Typed' /\ ReadyIsStaged'
  BY RestIsTyped, TypedNow, AttemptsAssumption
  DEF ServerRestarts, IInv, Typed, ReadyIsStaged, device
<1>2. thread' \in [Threads -> ThreadStates]
  BY StartingThreads DEF ServerRestarts, IInv, Types, ThreadStates
<1>3. "timer" \in Threads /\ thread'["timer"] = thread["timer"]
  BY DEF Threads, ServerRestarts
<1>4. AnswerOK("timer")'
  BY <1>3 DEF IInv, AnswerOK
<1>5. \A t \in Threads \ {"timer"} : thread'[t] = ServerThreads(t)
  BY DEF ServerRestarts
<1> QED
  BY <1>1, <1>2, <1>4, <1>5, FreshServer DEF ServerRestarts

LEMMA BootKeeps ==
  ASSUME IInv, MachineBoots
  PROVE  IInv'
<1>1. Typed'
  BY RestIsTyped, TypedNow, AttemptsAssumption DEF MachineBoots, IInv, Typed
<1>2. ReadyIsStaged'
  BY DEF MachineBoots, ReadyIsStaged, NoStatus, Status
<1>3. \A t \in Threads : thread'[t] = ServerThreads(t)
  BY DEF MachineBoots
<1>4. thread' \in [Threads -> ThreadStates]
  BY StartingThreads DEF MachineBoots
<1>5. AnswerOK("timer")'
  BY <1>3, StartingThreads DEF AnswerOK, Threads
<1> QED
  BY <1>1, <1>2, <1>3, <1>4, <1>5, FreshServer DEF MachineBoots

LEMMA NextKeeps == IInv /\ [Next]_vars => IInv'
<1> SUFFICES ASSUME IInv, [Next]_vars PROVE IInv'
  OBVIOUS
<1>1. CASE UNCHANGED vars
  BY <1>1
  DEF vars, IInv, Types, LockHeld, Critical, DownloadOK, AnswerOK, StartupCounts,
      ReadyIsStaged, store, device
<1>2. CASE Next
  BY <1>2, CheckKeeps, ClaimKeeps, DownloadKeeps, StatusKeeps, StartupKeeps, TimerKeeps,
     LoaderKeeps, RebootKeeps, RestartKeeps, BootKeeps, FeedKeeps
  DEF Next
<1> QED
  BY <1>1, <1>2

THEOREM ServerInvariant == Spec => []IInv
BY InitHolds, NextKeeps, PTL DEF Spec

(* Every variable of the update server keeps its type: the daemon's status *)
(* store, the status file, the threads of cmd/updated/main.go; and the     *)
(* staging lock is held exactly by the thread that needs it.               *)
THEOREM ServerTypes == Spec => []TypeOK
<1>1. IInv => TypeOK
  BY DEF IInv, TypeOK
<1> QED
  BY <1>1, ServerInvariant, PTL

(* The lock of acquireStageLock excludes: a download that verifies or      *)
(* commits, a loader staging, the automatic stagings of the startup check  *)
(* and an accepted reboot never overlap, through refusals, failures and    *)
(* restarts of the server.                                                 *)
THEOREM LockExcludes ==
  Spec => [](\A t, u \in Threads : Critical(t) /\ Critical(u) => t = u)
<1>1. IInv => \A t, u \in Threads : Critical(t) /\ Critical(u) => t = u
  BY DEF IInv, LockHeld
<1> QED
  BY <1>1, ServerInvariant, PTL

(* A "ready" in the status file names a release staged since the machine   *)
(* booted, for any number of concurrent checks and downloads.              *)
THEOREM ReadyStaged == Spec => []ReadyIsStaged
<1>1. IInv => ReadyIsStaged
  BY DEF IInv
<1> QED
  BY <1>1, ServerInvariant, PTL

(* Only StageCommits adds to what is staged; its thread holds the lock.    *)
LEMMA WhoStages ==
  ASSUME IInv, [Next]_vars
  PROVE  \/ staged' \subseteq staged
         \/ \E d \in Downloads : /\ lock = d
                               /\ staged' = staged \cup {thread[d].st.release}
<1>1. CASE \E d \in Downloads : StageCommits(d)
  <2>1. PICK d \in Downloads : StageCommits(d)
    BY <1>1
  <2>2. d \in Threads /\ thread[d].pc = "commit"
    BY <2>1 DEF StageCommits, At, Threads
  <2>3. Critical(d) /\ thread[d].got = thread[d].st.release
    BY <2>2 DEF Critical, IInv, DownloadOK
  <2>4. lock = d
    BY <2>2, <2>3 DEF IInv, LockHeld
  <2> QED
    BY <2>1, <2>3, <2>4 DEF StageCommits
<1>2. CASE \E c \in Checkers : Check(c)
  BY <1>2 DEF Check, CheckAsks, Asks, CheckPublishes, CheckAdvertises, device
<1>3. CASE \E d \in Downloads : \/ StageLocks(d) \/ StageVerifies(d) \/ StageFails(d)
                              \/ Complete(d) \/ \E r \in Releases : ClaimDownload(d, r)
  BY <1>3 DEF StageLocks, StageVerifies, StageFails, Complete, ClaimDownload, device
<1>4. CASE StatusAdvertises \/ Timer \/ Loader \/ Reboot
  BY <1>4
  DEF StatusAdvertises, Timer, TimerAsks, Asks, TimerReads, TimerWrites, TimerCannotWrite,
      Loader, LoaderLocks, LoaderUnlocks, Reboot, RebootLocks, RebootAccepted,
      RebootUnlocks, device
<1>5. CASE Startup
  BY <1>5
  DEF Startup, StartupAsks, Asks, StartupPublishes, MaybeAutoStageLoader,
      MaybeStageRecovery, StartupLocks, StartupUnlocks, device
<1>6. CASE ServerRestarts \/ MachineBoots \/ \E r \in Releases : FeedPublishes(r)
  BY <1>6 DEF ServerRestarts, MachineBoots, FeedPublishes, device
<1>7. CASE UNCHANGED vars
  BY <1>7 DEF vars, device
<1> QED
  BY <1>1, <1>2, <1>3, <1>4, <1>5, <1>6, <1>7 DEF Next, Download

(* What is staged is what a client consented to, whatever the feed served  *)
(* between the check, the answer and the download.                         *)
THEOREM Consented == Spec => StagedWasConsented
<1>1. IInv /\ [Next]_vars
        => [staged' \subseteq staged \cup {thread[d].st.release : d \in Downloads}]_vars
  BY WhoStages
<1> QED
  BY <1>1, ServerInvariant, PTL DEF Spec, StagedWasConsented

(* Between the acceptance of a reboot and its end nothing is staged.       *)
THEOREM RebootIsQuiet == Spec => QuietReboot
<1>1. IInv /\ [Next]_vars
        => [At("rebooter", "rebooting") => staged' \subseteq staged]_vars
  <2> SUFFICES ASSUME IInv, [Next]_vars, At("rebooter", "rebooting")
               PROVE  staged' \subseteq staged
    OBVIOUS
  <2>1. "rebooter" \in Threads /\ "rebooter" \notin Downloads
    BY Distinct DEF Named
  <2>2. lock = "rebooter"
    BY <2>1 DEF IInv, LockHeld, Critical, At
  <2> QED
    BY <2>1, <2>2, WhoStages
<1> QED
  BY <1>1, ServerInvariant, PTL DEF Spec, QuietReboot

-----------------------------------------------------------------------------
LEMMA PublishKeepsReady ==
  ASSUME NEW st, NEW out \in PublishPoll(st), file.state = "ready"
  PROVE  out.file = file
BY DEF PublishPoll

(* A check, a refused download or a failed one never takes an offered      *)
(* reboot away: only the other process or a boot of the machine does.      *)
THEOREM ReadyStays == Spec => ReadyKept
<1> DEFINE Gone == file.state = "ready" /\ file'.state \in {"none", "idle", "available"}
           Why == At("timer", "writing") \/ staged' = {}
<1>1. ASSUME IInv, Next, Gone PROVE Why
  <2>1. file' # file
    BY <1>1
  <2>2. CASE \E c \in Checkers : Check(c)
    BY <1>1, <2>1, <2>2, PublishKeepsReady
    DEF Check, CheckAsks, Asks, CheckPublishes, CheckAdvertises
  <2>3. CASE \E d \in Downloads : Complete(d)
    BY <1>1, <2>1, <2>3 DEF Complete, At, IInv, DownloadOK
  <2>4. CASE \E d \in Downloads : \/ StageLocks(d) \/ StageVerifies(d) \/ StageFails(d)
                               \/ StageCommits(d) \/ \E r \in Releases : ClaimDownload(d, r)
    BY <2>1, <2>4 DEF StageLocks, StageVerifies, StageFails, StageCommits, ClaimDownload
  <2>5. CASE StatusAdvertises \/ Loader \/ Reboot
    BY <2>1, <2>5
    DEF StatusAdvertises, Loader, LoaderLocks, LoaderUnlocks, Reboot, RebootLocks,
        RebootAccepted, RebootUnlocks
  <2>6. CASE Timer
    BY <2>1, <2>6 DEF Timer, TimerAsks, Asks, TimerReads, TimerWrites, TimerCannotWrite
  <2>7. CASE Startup
    BY <1>1, <2>1, <2>7, PublishKeepsReady
    DEF Startup, StartupAsks, Asks, StartupPublishes, MaybeAutoStageLoader,
        MaybeStageRecovery, StartupLocks, StartupUnlocks
  <2>8. CASE ServerRestarts \/ MachineBoots \/ \E r \in Releases : FeedPublishes(r)
    BY <2>1, <2>8 DEF ServerRestarts, MachineBoots, FeedPublishes
  <2> QED
    BY <1>1, <2>2, <2>3, <2>4, <2>5, <2>6, <2>7, <2>8 DEF Next, Download
<1>2. IInv /\ [Next]_vars => [Gone => Why]_vars
  BY <1>1
<1> QED
  BY <1>2, ServerInvariant, PTL DEF Spec, ReadyKept
=============================================================================
