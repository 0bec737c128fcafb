---------------------------- MODULE DaemonProofs ----------------------------
(***************************************************************************)
(* Proofs about Daemon, for every set of loader threads and processes and   *)
(* every value of the limits: its type invariant and its safety properties. *)
(***************************************************************************)
EXTENDS Daemon, TLAPS

-----------------------------------------------------------------------------
(* Control points.                                                         *)

\* The three kinds of threads are distinct.
LEMMA ThreadKinds ==
  /\ "main" \in Thread /\ "poll" \in Thread
  /\ \A l \in Loader : l \in Thread /\ l # "main" /\ l # "poll"
BY DaemonAssumption DEF Thread

\* A jump to one of the thread's own labels keeps the control state well typed.
LEMMA GotoOK ==
  ASSUME ControlOK, NEW t \in Thread, NEW l \in Labels(t), Goto(t, l),
         arg' \in [source : Sources, pid : AnyPid]
  PROVE  ControlOK'
BY DEF ControlOK, Goto, Labels, AllLabels

\* So does a call that returns to the thread's loop or to "unwind".
LEMMA CallOK ==
  ASSUME ControlOK, NEW t \in Thread, NEW l \in Labels(t), NEW r \in {Home(t), "unwind"},
         Call(t, l, r), arg' \in [source : Sources, pid : AnyPid]
  PROVE  ControlOK'
<1>1. r \in AllLabels
  BY DEF Home, AllLabels, SharedLabels, MainLabels, PollLabels, LoaderLabels
<1> QED BY <1>1 DEF ControlOK, Call, Labels, AllLabels

\* Return points are labels of the thread.
LEMMA RetOK ==
  ASSUME ControlOK, NEW t \in Thread
  PROVE  ret[t] \in Labels(t)
BY DEF ControlOK, Home, Labels, SharedLabels, MainLabels, PollLabels, LoaderLabels

\* A step that leaves the control variables alone.
LEMMA StayOK == ASSUME ControlOK, UNCHANGED <<pc, ret, arg>> PROVE ControlOK'
BY DEF ControlOK

-----------------------------------------------------------------------------
(* Type correctness.                                                       *)

\* Spending an event, queueing and taking a notification keep their types.
LEMMA SpendOK ==
  ASSUME left \in [EnvEvents -> Nat], NEW e \in EnvEvents, Spend(e)
  PROVE  left' \in [EnvEvents -> Nat]
BY DEF Spend

LEMMA NotesOK ==
  ASSUME notes \in Seq(Notes)
  PROVE  /\ notes # <<>> => Tail(notes) \in Seq(Notes)
         /\ \A n \in {"locked", "unlocked", "yield_begin", "yield_end"} : Append(notes, n) \in Seq(Notes)
BY DEF Notes

\* The initial state is well typed.
LEMMA InitOK == Init => TypeOK
<1> SUFFICES ASSUME Init PROVE TypeOK
  OBVIOUS
<1>1. ExtOK
  <2>1. notes \in Seq(Notes) /\ left \in [EnvEvents -> Nat]
    BY DaemonAssumption DEF Init
  <2>2. present \in BOOLEAN /\ scanning \in BOOLEAN /\ lockswipe \in BOOLEAN
    <3>1. PICK b \in Boot : present = b.present /\ scanning = b.scanning /\ lockswipe = b.lockswipe
      BY DEF Init
    <3>2. b.present \in BOOLEAN /\ b.scanning \in BOOLEAN /\ b.lockswipe \in BOOLEAN
      BY DaemonAssumption
    <3> QED BY <3>1, <3>2
  <2> QED BY <2>1, <2>2 DEF Init, ExtOK
<1>2. EpisodeOK
  <2>1. 0 \in 0..HealTicks-1 /\ 0 \in Nat
    BY DaemonAssumption
  <2>2. state \in States /\ source \in Sources /\ target \in AnyPid
    BY DEF Init, States, Sources, AnyPid
  <2> QED BY <2>1, <2>2 DEF Init, EpisodeOK
<1>4. LoadOK /\ YieldOK /\ HistoryOK
  <2>1. Empty \in Contents
    BY DaemonAssumption DEF Empty, Contents
  <2> QED BY <2>1 DEF Init, LoadOK, YieldOK, HistoryOK
<1>5. CaptureOK
  <2>1. Empty \in Contents /\ 1 \in 1..(MaxSwipeRetries + 1) /\ 0 \in 0..HealPeriod-1
    BY DaemonAssumption DEF Empty, Contents
  <2>2. NoProbe \in Swipes
    BY DEF NoProbe, Swipes
  <2> QED BY <2>1, <2>2 DEF Init, CaptureOK
<1>3. ControlOK
  <2>1. \A t \in Thread : Home(t) \in AllLabels /\ Home(t) \in Labels(t)
    BY DEF Home, AllLabels, Labels, SharedLabels, MainLabels, PollLabels, LoaderLabels
  <2>2. \A t \in Thread : pc[t] = (IF t = "main" THEN "try_arm" ELSE Home(t)) /\ ret[t] = Home(t)
    BY DEF Init
  <2>3. "try_arm" \in AllLabels /\ \A t \in Thread : "try_arm" \in Labels(t)
    BY DEF AllLabels, Labels, SharedLabels
  <2>4. pc \in [Thread -> AllLabels] /\ ret \in [Thread -> AllLabels]
    BY <2>1, <2>3 DEF Init
  <2>5. arg \in [source : Sources, pid : AnyPid]
    BY DEF Init, NoArg, Sources, AnyPid
  <2> QED BY <2>1, <2>2, <2>3, <2>4, <2>5 DEF ControlOK
<1> QED BY <1>1, <1>2, <1>3, <1>4, <1>5 DEF TypeOK

\* The steps any thread can take: lockswipe_try_arm, lockswipe_disarm, settle_to_idle.
LEMMA SharedOK ==
  ASSUME TypeOK,
         NEW t \in Thread, ArmStep(t) \/ Disarm(t) \/ Settle(t) \/ Unwind(t)
  PROVE  TypeOK'
<1> USE DEF extVars, confVars, epVars, loadVars, watchVars, yieldVars, capVars, histVars
<1>1. CASE TryArm(t)
  <2>1. ControlOK'
    BY <1>1, ThreadKinds, GotoOK, RetOK DEF TryArm, TypeOK, ControlOK, Labels, SharedLabels, MainLabels, PollLabels, LoaderLabels
  <2>2. ExtOK' /\ EpisodeOK' /\ LoadOK' /\ YieldOK' /\ CaptureOK' /\ HistoryOK'
    BY <1>1, DaemonAssumption DEF TryArm, TypeOK, ExtOK, EpisodeOK, LoadOK, YieldOK, CaptureOK, HistoryOK
  <2> QED BY <2>1, <2>2 DEF TypeOK
<1>2. CASE DropYield(t)
  <2>1. ControlOK'
    BY <1>2, ThreadKinds, GotoOK, RetOK DEF DropYield, TypeOK, ControlOK, Labels, SharedLabels, MainLabels, PollLabels, LoaderLabels
  <2>2. YieldOK'
    BY <1>2 DEF DropYield, TypeOK, YieldOK
  <2>3. ExtOK' /\ EpisodeOK' /\ LoadOK' /\ CaptureOK' /\ HistoryOK'
    BY <1>2 DEF DropYield, TypeOK, ExtOK, EpisodeOK, LoadOK, CaptureOK, HistoryOK
  <2> QED BY <2>1, <2>2, <2>3 DEF TypeOK
<1>3. CASE ArmChecks(t)
  <2>1. ControlOK'
    BY <1>3, ThreadKinds, GotoOK, RetOK DEF ArmChecks, TypeOK, ControlOK, Labels, SharedLabels, MainLabels, PollLabels, LoaderLabels
  <2>2. ExtOK' /\ EpisodeOK' /\ LoadOK' /\ YieldOK' /\ CaptureOK' /\ HistoryOK'
    BY <1>3, DaemonAssumption DEF ArmChecks, TypeOK, ExtOK, EpisodeOK, LoadOK, YieldOK, CaptureOK, HistoryOK
  <2> QED BY <2>1, <2>2 DEF TypeOK
<1>4. CASE CasArm(t)
  <2>1. ControlOK'
    BY <1>4, ThreadKinds, GotoOK, RetOK DEF CasArm, TypeOK, ControlOK, Labels, SharedLabels, MainLabels, PollLabels, LoaderLabels
  <2>2. ExtOK' /\ EpisodeOK' /\ LoadOK' /\ YieldOK' /\ CaptureOK' /\ HistoryOK'
    BY <1>4, DaemonAssumption DEF CasArm, ArmedFrom, States, TypeOK, ExtOK, EpisodeOK, LoadOK, YieldOK, CaptureOK, HistoryOK
  <2> QED BY <2>1, <2>2 DEF TypeOK
<1>5. CASE Disarm(t)
  <2>1. ControlOK'
    BY <1>5, ThreadKinds, GotoOK DEF Disarm, TypeOK, ControlOK, Home, Labels, SharedLabels, MainLabels, PollLabels, LoaderLabels
  <2>2. ExtOK' /\ EpisodeOK' /\ LoadOK' /\ YieldOK' /\ CaptureOK' /\ HistoryOK'
    BY <1>5, DaemonAssumption DEF Disarm, States, TypeOK, ExtOK, EpisodeOK, LoadOK, YieldOK, CaptureOK, HistoryOK
  <2> QED BY <2>1, <2>2 DEF TypeOK
<1>6. CASE Settle(t)
  <2>1. ControlOK'
    BY <1>6, ThreadKinds, GotoOK, RetOK DEF Settle, TypeOK, ControlOK, Labels, SharedLabels, MainLabels, PollLabels, LoaderLabels
  <2>2. ExtOK' /\ EpisodeOK' /\ LoadOK' /\ YieldOK' /\ CaptureOK' /\ HistoryOK'
    BY <1>6, DaemonAssumption DEF Settle, States, TypeOK, ExtOK, EpisodeOK, LoadOK, YieldOK, CaptureOK, HistoryOK
  <2> QED BY <2>1, <2>2 DEF TypeOK
<1>7. CASE Unwind(t)
  <2>1. ControlOK'
    BY <1>7, ThreadKinds, GotoOK DEF Unwind, TypeOK, ControlOK, Home, Labels, SharedLabels, MainLabels, PollLabels, LoaderLabels
  <2>2. ExtOK' /\ EpisodeOK' /\ LoadOK' /\ YieldOK' /\ CaptureOK' /\ HistoryOK'
    BY <1>7, DaemonAssumption DEF Unwind, Sources, TypeOK, ExtOK, EpisodeOK, LoadOK, YieldOK, CaptureOK, HistoryOK
  <2> QED BY <2>1, <2>2 DEF TypeOK
<1> QED BY <1>1, <1>2, <1>3, <1>4, <1>5, <1>6, <1>7 DEF ArmStep

\* The main run loop's own steps.
LEMMA MainOK ==
  ASSUME TypeOK,
         MainStep \/ MainEvent \/ MainRequest \/ Tick
  PROVE  TypeOK'
<1> USE DEF extVars, confVars, epVars, loadVars, watchVars, yieldVars, capVars, histVars
<1>1. CASE OnScreenLocked
  <2>1. ControlOK'
    BY <1>1, ThreadKinds, GotoOK, RetOK DEF OnScreenLocked, TypeOK, ControlOK, Labels, SharedLabels, MainLabels, PollLabels, LoaderLabels, Deliver, Sources, AnyPid
  <2>2. ExtOK'
    BY <1>1, NotesOK DEF OnScreenLocked, Deliver, Notes, TypeOK, ExtOK
  <2>3. HistoryOK'
    BY <1>1 DEF OnScreenLocked, Deliver, TypeOK, HistoryOK
  <2>4. EpisodeOK' /\ LoadOK' /\ YieldOK' /\ CaptureOK'
    BY <1>1 DEF OnScreenLocked, Deliver, TypeOK, EpisodeOK, LoadOK, YieldOK, CaptureOK
  <2> QED BY <2>1, <2>2, <2>3, <2>4 DEF TypeOK
<1>2. CASE OnScreenUnlockedNote
  <2>1. ControlOK'
    BY <1>2, ThreadKinds, GotoOK, RetOK DEF OnScreenUnlockedNote, TypeOK, ControlOK, Labels, SharedLabels, MainLabels, PollLabels, LoaderLabels, Deliver
  <2>2. ExtOK'
    BY <1>2, NotesOK DEF OnScreenUnlockedNote, Deliver, Notes, TypeOK, ExtOK
  <2>3. EpisodeOK' /\ LoadOK' /\ YieldOK' /\ CaptureOK' /\ HistoryOK'
    BY <1>2 DEF OnScreenUnlockedNote, Deliver, TypeOK, EpisodeOK, LoadOK, YieldOK, CaptureOK, HistoryOK
  <2> QED BY <2>1, <2>2, <2>3 DEF TypeOK
<1>3. CASE OnScreenUnlocked
  <2>1. ControlOK'
    BY <1>3, ThreadKinds, GotoOK, RetOK DEF OnScreenUnlocked, TypeOK, ControlOK, Labels, SharedLabels, MainLabels, PollLabels, LoaderLabels
  <2>2. HistoryOK'
    BY <1>3 DEF OnScreenUnlocked, States, Sources, TypeOK, HistoryOK
  <2>3. EpisodeOK'
    BY <1>3 DEF OnScreenUnlocked, States, Sources, TypeOK, EpisodeOK
  <2>4. ExtOK' /\ LoadOK' /\ YieldOK' /\ CaptureOK'
    BY <1>3 DEF OnScreenUnlocked, States, Sources, TypeOK, ExtOK, LoadOK, YieldOK, CaptureOK
  <2> QED BY <2>1, <2>2, <2>3, <2>4 DEF TypeOK
<1>4. CASE WipeCache
  <2>1. ControlOK'
    BY <1>4, ThreadKinds, GotoOK, RetOK DEF WipeCache, TypeOK, ControlOK, Labels, SharedLabels, MainLabels, PollLabels, LoaderLabels
  <2>2. ExtOK' /\ EpisodeOK' /\ LoadOK' /\ YieldOK' /\ CaptureOK' /\ HistoryOK'
    BY <1>4, DaemonAssumption DEF WipeCache, Empty, Contents, TypeOK, ExtOK, EpisodeOK, LoadOK, YieldOK, CaptureOK, HistoryOK
  <2> QED BY <2>1, <2>2 DEF TypeOK
<1>5. CASE Unready
  <2>1. ControlOK'
    BY <1>5, ThreadKinds, GotoOK, CallOK, RetOK DEF Unready, TypeOK, ControlOK, Home, Labels, SharedLabels, MainLabels, PollLabels, LoaderLabels
  <2>2. LoadOK'
    BY <1>5 DEF Unready, TypeOK, LoadOK
  <2>3. ExtOK' /\ EpisodeOK' /\ YieldOK' /\ CaptureOK' /\ HistoryOK'
    BY <1>5 DEF Unready, TypeOK, ExtOK, EpisodeOK, YieldOK, CaptureOK, HistoryOK
  <2> QED BY <2>1, <2>2, <2>3 DEF TypeOK
<1>6. CASE Tick
  <2>1. ControlOK'
    BY <1>6, ThreadKinds, GotoOK, RetOK DEF Tick, TypeOK, ControlOK, Labels, SharedLabels, MainLabels, PollLabels, LoaderLabels, NewPrompt, Visible, Sources, AnyPid, ExtOK
  <2>2. EpisodeOK'
    <3>1. ticks' \in 0..HealTicks-1
      BY <1>6, DaemonAssumption DEF Tick, HealDue, TicksAfter, TypeOK, EpisodeOK
    <3>2. debounce' \in BOOLEAN
      BY <1>6 DEF Tick, TypeOK, EpisodeOK
    <3> QED BY <1>6, <3>1, <3>2 DEF Tick, TypeOK, EpisodeOK
  <2>3. ExtOK' /\ LoadOK' /\ YieldOK' /\ CaptureOK' /\ HistoryOK'
    BY <1>6 DEF Tick, HealDue, TicksAfter, TypeOK, ExtOK, LoadOK, YieldOK, CaptureOK, HistoryOK
  <2> QED BY <2>1, <2>2, <2>3 DEF TypeOK
<1>7. CASE ArmCheck
  <2>1. ControlOK'
    BY <1>7, ThreadKinds, GotoOK, CallOK, RetOK DEF ArmCheck, TypeOK, ControlOK, Home, Labels, SharedLabels, MainLabels, PollLabels, LoaderLabels, NoArg, Sources, AnyPid
  <2>2. ExtOK' /\ EpisodeOK' /\ LoadOK' /\ YieldOK' /\ CaptureOK' /\ HistoryOK'
    BY <1>7, DaemonAssumption DEF ArmCheck, TypeOK, ExtOK, EpisodeOK, LoadOK, YieldOK, CaptureOK, HistoryOK
  <2> QED BY <2>1, <2>2 DEF TypeOK
<1>8. CASE ArmTrigger
  <2>1. ControlOK'
    BY <1>8, ThreadKinds, GotoOK, RetOK DEF ArmTrigger, TypeOK, ControlOK, Labels, SharedLabels, MainLabels, PollLabels, LoaderLabels
  <2>2. ExtOK' /\ EpisodeOK' /\ LoadOK' /\ YieldOK' /\ CaptureOK' /\ HistoryOK'
    BY <1>8, DaemonAssumption DEF ArmTrigger, ControlOK, TypeOK, ExtOK, EpisodeOK, LoadOK, YieldOK, CaptureOK, HistoryOK
  <2> QED BY <2>1, <2>2 DEF TypeOK
<1>9. CASE ArmGo
  <2>1. ControlOK'
    BY <1>9, ThreadKinds, GotoOK, RetOK DEF ArmGo, TypeOK, ControlOK, Labels, SharedLabels, MainLabels, PollLabels, LoaderLabels, NoArg, Sources, AnyPid
  <2>2. LoadOK'
    BY <1>9 DEF ArmGo, States, TypeOK, LoadOK
  <2>3. HistoryOK'
    BY <1>9 DEF ArmGo, States, TypeOK, HistoryOK
  <2>4. EpisodeOK'
    BY <1>9 DEF ArmGo, States, TypeOK, EpisodeOK
  <2>5. ExtOK' /\ YieldOK' /\ CaptureOK'
    BY <1>9 DEF ArmGo, States, TypeOK, ExtOK, YieldOK, CaptureOK
  <2> QED BY <2>1, <2>2, <2>3, <2>4, <2>5 DEF TypeOK
<1>10. CASE SpawnFails
  <2>1. ControlOK'
    BY <1>10, ThreadKinds, GotoOK, CallOK, RetOK DEF SpawnFails, TypeOK, ControlOK, Home, Labels, SharedLabels, MainLabels, PollLabels, LoaderLabels
  <2>2. ExtOK'
    BY <1>10, SpendOK DEF SpawnFails, EnvEvents, TypeOK, ExtOK
  <2>3. EpisodeOK' /\ LoadOK' /\ YieldOK' /\ CaptureOK' /\ HistoryOK'
    BY <1>10 DEF SpawnFails, TypeOK, EpisodeOK, LoadOK, YieldOK, CaptureOK, HistoryOK
  <2> QED BY <2>1, <2>2, <2>3 DEF TypeOK
<1>11. CASE SetScanning
  <2>1. ControlOK'
    BY <1>11, StayOK DEF SetScanning, TypeOK
  <2>2. ExtOK'
    BY <1>11, SpendOK DEF SetScanning, EnvEvents, TypeOK, ExtOK
  <2>3. EpisodeOK' /\ LoadOK' /\ YieldOK' /\ CaptureOK' /\ HistoryOK'
    BY <1>11 DEF SetScanning, TypeOK, EpisodeOK, LoadOK, YieldOK, CaptureOK, HistoryOK
  <2> QED BY <2>1, <2>2, <2>3 DEF TypeOK
<1>12. CASE SetLockswipe
  <2>1. ControlOK'
    BY <1>12, ThreadKinds, GotoOK, CallOK, RetOK DEF SetLockswipe, TypeOK, ControlOK, Home, Labels, SharedLabels, MainLabels, PollLabels, LoaderLabels
  <2>2. ExtOK'
    BY <1>12, SpendOK DEF SetLockswipe, EnvEvents, TypeOK, ExtOK
  <2>3. EpisodeOK' /\ LoadOK' /\ YieldOK' /\ CaptureOK' /\ HistoryOK'
    BY <1>12 DEF SetLockswipe, TypeOK, EpisodeOK, LoadOK, YieldOK, CaptureOK, HistoryOK
  <2> QED BY <2>1, <2>2, <2>3 DEF TypeOK
<1>13. CASE SetMatchThreshold
  <2>1. ControlOK'
    BY <1>13, StayOK DEF SetMatchThreshold, TypeOK
  <2>2. ExtOK'
    BY <1>13, SpendOK DEF SetMatchThreshold, EnvEvents, TypeOK, ExtOK
  <2>3. EpisodeOK' /\ LoadOK' /\ YieldOK' /\ CaptureOK' /\ HistoryOK'
    BY <1>13 DEF SetMatchThreshold, TypeOK, EpisodeOK, LoadOK, YieldOK, CaptureOK, HistoryOK
  <2> QED BY <2>1, <2>2, <2>3 DEF TypeOK
<1>14. CASE YieldBegin
  <2>1. ControlOK'
    BY <1>14, ThreadKinds, GotoOK, RetOK DEF YieldBegin, TypeOK, ControlOK, Labels, SharedLabels, MainLabels, PollLabels, LoaderLabels
  <2>2. ExtOK'
    BY <1>14, NotesOK DEF YieldBegin, Notes, TypeOK, ExtOK
  <2>3. YieldOK'
    BY <1>14 DEF YieldBegin, TypeOK, YieldOK
  <2>4. EpisodeOK' /\ LoadOK' /\ CaptureOK' /\ HistoryOK'
    BY <1>14 DEF YieldBegin, TypeOK, EpisodeOK, LoadOK, CaptureOK, HistoryOK
  <2> QED BY <2>1, <2>2, <2>3, <2>4 DEF TypeOK
<1>15. CASE YieldAbort
  <2>1. ControlOK'
    BY <1>15, ThreadKinds, GotoOK, RetOK DEF YieldAbort, TypeOK, ControlOK, Labels, SharedLabels, MainLabels, PollLabels, LoaderLabels
  <2>2. YieldOK'
    BY <1>15 DEF YieldAbort, TypeOK, YieldOK
  <2>3. ExtOK' /\ EpisodeOK' /\ LoadOK' /\ CaptureOK' /\ HistoryOK'
    BY <1>15 DEF YieldAbort, TypeOK, ExtOK, EpisodeOK, LoadOK, CaptureOK, HistoryOK
  <2> QED BY <2>1, <2>2, <2>3 DEF TypeOK
<1>16. CASE YieldEnd
  <2>1. ControlOK'
    BY <1>16, ThreadKinds, GotoOK, CallOK, RetOK DEF YieldEnd, TypeOK, ControlOK, Home, Labels, SharedLabels, MainLabels, PollLabels, LoaderLabels
  <2>2. ExtOK'
    BY <1>16, NotesOK DEF YieldEnd, Notes, TypeOK, ExtOK
  <2>3. YieldOK'
    BY <1>16 DEF YieldEnd, TypeOK, YieldOK
  <2>4. EpisodeOK' /\ LoadOK' /\ CaptureOK' /\ HistoryOK'
    BY <1>16 DEF YieldEnd, TypeOK, EpisodeOK, LoadOK, CaptureOK, HistoryOK
  <2> QED BY <2>1, <2>2, <2>3, <2>4 DEF TypeOK
<1>17. CASE SpawnLoader
  <2>1. PICK l \in Loader : /\ pc' = [pc EXCEPT !["main"] = "run", ![l] = "mount"]
                            /\ UNCHANGED <<ret, arg>>
    BY <1>17 DEF SpawnLoader
  <2>2. ControlOK'
    BY <2>1, ThreadKinds DEF TypeOK, ControlOK, AllLabels, Labels, SharedLabels, MainLabels, PollLabels, LoaderLabels
  <2> QED BY <1>17, <2>2 DEF SpawnLoader, TypeOK, ExtOK, EpisodeOK, LoadOK, YieldOK, CaptureOK, HistoryOK
<1> QED BY <1>1, <1>2, <1>3, <1>4, <1>5, <1>6, <1>7, <1>8, <1>9, <1>10, <1>11, <1>12, <1>13, <1>14, <1>15, <1>16, <1>17, SharedOK, ThreadKinds
        DEF MainStep, MainEvent, MainRequest

\* The polling thread's own steps.
LEMMA PollOK ==
  ASSUME TypeOK,
         PollStep \/ PCaptureFails \/ PSwipe
  PROVE  TypeOK'
<1> USE DEF extVars, confVars, epVars, loadVars, watchVars, yieldVars, capVars, histVars
<1>1. CASE PTop
  <2>1. ControlOK'
    BY <1>1, ThreadKinds, GotoOK, RetOK DEF PTop, TypeOK, ControlOK, Labels, SharedLabels, MainLabels, PollLabels, LoaderLabels, PollFrame, PollLocal
  <2>2. ExtOK'
    BY <1>1 DEF PTop, PollFrame, NoProbe, Empty, Swipes, Contents, TypeOK, ExtOK
  <2>3. YieldOK'
    BY <1>1 DEF PTop, PollFrame, NoProbe, Empty, Swipes, Contents, TypeOK, YieldOK
  <2>4. CaptureOK'
    BY <1>1, DaemonAssumption DEF PTop, PollFrame, NoProbe, Empty, Swipes, Contents, TypeOK, CaptureOK
  <2>5. EpisodeOK' /\ LoadOK' /\ HistoryOK'
    BY <1>1 DEF PTop, PollFrame, NoProbe, Empty, Swipes, Contents, TypeOK, EpisodeOK, LoadOK, HistoryOK
  <2> QED BY <2>1, <2>2, <2>3, <2>4, <2>5 DEF TypeOK
<1>2. CASE PBranch
  <2>1. ControlOK'
    BY <1>2, ThreadKinds, GotoOK, CallOK, RetOK DEF PBranch, TypeOK, ControlOK, Home, Labels, SharedLabels, MainLabels, PollLabels, LoaderLabels, PollFrame, PollLocal
  <2>2. ExtOK' /\ EpisodeOK' /\ LoadOK' /\ YieldOK' /\ CaptureOK' /\ HistoryOK'
    BY <1>2, DaemonAssumption DEF PBranch, PollFrame, PollLocal, TypeOK, ExtOK, EpisodeOK, LoadOK, YieldOK, CaptureOK, HistoryOK
  <2> QED BY <2>1, <2>2 DEF TypeOK
<1>3. CASE POpen
  <2>1. ControlOK'
    BY <1>3, ThreadKinds, GotoOK, RetOK DEF POpen, TypeOK, ControlOK, Labels, SharedLabels, MainLabels, PollLabels, LoaderLabels, PollFrame, PollLocal, NextAttempt
  <2>2. ExtOK' /\ EpisodeOK' /\ LoadOK' /\ YieldOK' /\ CaptureOK' /\ HistoryOK'
    BY <1>3, DaemonAssumption DEF POpen, NextAttempt, PollFrame, PollLocal, TypeOK, ExtOK, EpisodeOK, LoadOK, YieldOK, CaptureOK, HistoryOK
  <2> QED BY <2>1, <2>2 DEF TypeOK
<1>4. CASE PUnplugged
  <2>1. ControlOK'
    BY <1>4, ThreadKinds, GotoOK, RetOK DEF PUnplugged, TypeOK, ControlOK, Labels, SharedLabels, MainLabels, PollLabels, LoaderLabels, PollFrame, PollLocal, NextAttempt
  <2>2. ExtOK' /\ EpisodeOK' /\ LoadOK' /\ YieldOK' /\ CaptureOK' /\ HistoryOK'
    BY <1>4, DaemonAssumption DEF PUnplugged, NextAttempt, PollFrame, PollLocal, TypeOK, ExtOK, EpisodeOK, LoadOK, YieldOK, CaptureOK, HistoryOK
  <2> QED BY <2>1, <2>2 DEF TypeOK
<1>5. CASE PAbort
  <2>1. ControlOK'
    BY <1>5, ThreadKinds, GotoOK, RetOK DEF PAbort, TypeOK, ControlOK, Labels, SharedLabels, MainLabels, PollLabels, LoaderLabels, PollFrame, PollLocal
  <2>2. ExtOK' /\ EpisodeOK' /\ LoadOK' /\ YieldOK' /\ CaptureOK' /\ HistoryOK'
    BY <1>5, DaemonAssumption DEF PAbort, PollFrame, PollLocal, TypeOK, ExtOK, EpisodeOK, LoadOK, YieldOK, CaptureOK, HistoryOK
  <2> QED BY <2>1, <2>2 DEF TypeOK
<1>6. CASE PCaptureFails
  <2>1. ControlOK'
    BY <1>6, ThreadKinds, GotoOK, RetOK DEF PCaptureFails, TypeOK, ControlOK, Labels, SharedLabels, MainLabels, PollLabels, LoaderLabels, PollFrame, PollLocal, NextAttempt
  <2>2. ExtOK'
    BY <1>6, SpendOK DEF PCaptureFails, NextAttempt, PollFrame, EnvEvents, TypeOK, ExtOK
  <2>3. CaptureOK'
    <3>1. attempt' \in 1..(MaxSwipeRetries + 1)
      BY <1>6, DaemonAssumption DEF PCaptureFails, NextAttempt, TypeOK, CaptureOK
    <3> QED BY <1>6, <3>1 DEF PCaptureFails, TypeOK, CaptureOK
  <2>4. EpisodeOK' /\ LoadOK' /\ YieldOK' /\ HistoryOK'
    BY <1>6 DEF PCaptureFails, NextAttempt, PollFrame, TypeOK, EpisodeOK, LoadOK, YieldOK, HistoryOK
  <2> QED BY <2>1, <2>2, <2>3, <2>4 DEF TypeOK
<1>7. CASE PSwipe
  <2>1. ControlOK'
    BY <1>7, ThreadKinds, GotoOK, RetOK DEF PSwipe, TypeOK, ControlOK, Labels, SharedLabels, MainLabels, PollLabels, LoaderLabels, PollFrame, PollLocal, NextAttempt
  <2>2. ExtOK'
    BY <1>7, SpendOK DEF PSwipe, NextAttempt, PollFrame, Swipes, EnvEvents, TypeOK, ExtOK
  <2>3. CaptureOK'
    <3>1. PICK p \in SwipeKinds :
            \/ probe' \in {p, [p EXCEPT !.tall = FALSE]} /\ UNCHANGED attempt
            \/ NextAttempt /\ UNCHANGED probe
      BY <1>7 DEF PSwipe
    <3>2. p \in Swipes /\ [p EXCEPT !.tall = FALSE] \in Swipes
      BY DaemonAssumption DEF Swipes
    <3>3. attempt' \in 1..(MaxSwipeRetries + 1)
      BY <3>1, DaemonAssumption DEF NextAttempt, TypeOK, CaptureOK
    <3> QED BY <1>7, <3>1, <3>2, <3>3 DEF PSwipe, TypeOK, CaptureOK
  <2>4. EpisodeOK' /\ LoadOK' /\ YieldOK' /\ HistoryOK'
    BY <1>7 DEF PSwipe, NextAttempt, PollFrame, Swipes, TypeOK, EpisodeOK, LoadOK, YieldOK, HistoryOK
  <2> QED BY <2>1, <2>2, <2>3, <2>4 DEF TypeOK
<1>8. CASE PExtract
  <2>1. ControlOK'
    BY <1>8, ThreadKinds, GotoOK, RetOK DEF PExtract, TypeOK, ControlOK, Labels, SharedLabels, MainLabels, PollLabels, LoaderLabels, PollFrame, PollLocal
  <2>2. CaptureOK'
    BY <1>8, DaemonAssumption DEF PExtract, PollFrame, PollLocal, Swipes, TypeOK, CaptureOK
  <2>3. ExtOK' /\ EpisodeOK' /\ LoadOK' /\ YieldOK' /\ HistoryOK'
    BY <1>8 DEF PExtract, PollFrame, PollLocal, Swipes, TypeOK, ExtOK, EpisodeOK, LoadOK, YieldOK, HistoryOK
  <2> QED BY <2>1, <2>2, <2>3 DEF TypeOK
<1>9. CASE PArmedDone
  <2>1. ControlOK'
    BY <1>9, ThreadKinds, GotoOK, RetOK DEF PArmedDone, TypeOK, ControlOK, Labels, SharedLabels, MainLabels, PollLabels, LoaderLabels, PollFrame, PollLocal
  <2>2. ExtOK' /\ EpisodeOK' /\ LoadOK' /\ YieldOK' /\ CaptureOK' /\ HistoryOK'
    BY <1>9, DaemonAssumption DEF PArmedDone, PollFrame, PollLocal, TypeOK, ExtOK, EpisodeOK, LoadOK, YieldOK, CaptureOK, HistoryOK
  <2> QED BY <2>1, <2>2 DEF TypeOK
<1>10. CASE PLockSwipe
  <2>1. ControlOK'
    BY <1>10, ThreadKinds, GotoOK, RetOK DEF PLockSwipe, TypeOK, ControlOK, Labels, SharedLabels, MainLabels, PollLabels, LoaderLabels, PollFrame, PollLocal
  <2>2. ExtOK' /\ EpisodeOK' /\ LoadOK' /\ YieldOK' /\ CaptureOK' /\ HistoryOK'
    BY <1>10, DaemonAssumption DEF PLockSwipe, PollFrame, States, TypeOK, ExtOK, EpisodeOK, LoadOK, YieldOK, CaptureOK, HistoryOK
  <2> QED BY <2>1, <2>2 DEF TypeOK
<1>11. CASE PLockKey
  <2>1. ControlOK'
    BY <1>11, ThreadKinds, GotoOK, RetOK DEF PLockKey, TypeOK, ControlOK, Labels, SharedLabels, MainLabels, PollLabels, LoaderLabels, PollFrame, PollLocal
  <2>2. ExtOK'
    BY <1>11, NotesOK DEF PLockKey, Notes, TypeOK, ExtOK
  <2>3. HistoryOK'
    BY <1>11 DEF PLockKey, TypeOK, HistoryOK
  <2>4. EpisodeOK' /\ LoadOK' /\ YieldOK' /\ CaptureOK'
    BY <1>11 DEF PLockKey, TypeOK, EpisodeOK, LoadOK, YieldOK, CaptureOK
  <2> QED BY <2>1, <2>2, <2>3, <2>4 DEF TypeOK
<1>12. CASE PLockCheck
  <2>1. ControlOK'
    BY <1>12, ThreadKinds, GotoOK, CallOK, RetOK DEF PLockCheck, TypeOK, ControlOK, Home, Labels, SharedLabels, MainLabels, PollLabels, LoaderLabels, PollFrame, PollLocal
  <2>2. ExtOK' /\ EpisodeOK' /\ LoadOK' /\ YieldOK' /\ CaptureOK' /\ HistoryOK'
    BY <1>12, DaemonAssumption DEF PLockCheck, PollFrame, PollLocal, TypeOK, ExtOK, EpisodeOK, LoadOK, YieldOK, CaptureOK, HistoryOK
  <2> QED BY <2>1, <2>2 DEF TypeOK
<1>13. CASE PHold
  <2>1. ControlOK'
    BY <1>13, ThreadKinds, GotoOK, RetOK DEF PHold, TypeOK, ControlOK, Labels, SharedLabels, MainLabels, PollLabels, LoaderLabels, PollFrame, PollLocal
  <2>2. ExtOK' /\ EpisodeOK' /\ LoadOK' /\ YieldOK' /\ CaptureOK' /\ HistoryOK'
    BY <1>13, DaemonAssumption DEF PHold, PollFrame, PollLocal, TypeOK, ExtOK, EpisodeOK, LoadOK, YieldOK, CaptureOK, HistoryOK
  <2> QED BY <2>1, <2>2 DEF TypeOK
<1>14. CASE PScore
  <2>1. ControlOK'
    BY <1>14, ThreadKinds, GotoOK, RetOK DEF PScore, TypeOK, ControlOK, Labels, SharedLabels, MainLabels, PollLabels, LoaderLabels, PollFrame, PollLocal
  <2>2. ExtOK' /\ EpisodeOK' /\ LoadOK' /\ YieldOK' /\ CaptureOK' /\ HistoryOK'
    BY <1>14, DaemonAssumption DEF PScore, PollFrame, PollLocal, TypeOK, ExtOK, EpisodeOK, LoadOK, YieldOK, CaptureOK, HistoryOK
  <2> QED BY <2>1, <2>2 DEF TypeOK
<1>15. CASE PMatched
  <2>1. ControlOK'
    BY <1>15, ThreadKinds, GotoOK, RetOK DEF PMatched, TypeOK, ControlOK, Labels, SharedLabels, MainLabels, PollLabels, LoaderLabels, PollFrame, PollLocal
  <2>2. ExtOK' /\ EpisodeOK' /\ LoadOK' /\ YieldOK' /\ CaptureOK' /\ HistoryOK'
    BY <1>15, DaemonAssumption DEF PMatched, PollFrame, PollLocal, TypeOK, ExtOK, EpisodeOK, LoadOK, YieldOK, CaptureOK, HistoryOK
  <2> QED BY <2>1, <2>2 DEF TypeOK
<1>16. CASE PSettleWait
  <2>1. ControlOK'
    BY <1>16, ThreadKinds, GotoOK, RetOK DEF PSettleWait, TypeOK, ControlOK, Labels, SharedLabels, MainLabels, PollLabels, LoaderLabels, PollFrame, PollLocal
  <2>2. ExtOK' /\ EpisodeOK' /\ LoadOK' /\ YieldOK' /\ CaptureOK' /\ HistoryOK'
    BY <1>16, DaemonAssumption DEF PSettleWait, PollFrame, PollLocal, TypeOK, ExtOK, EpisodeOK, LoadOK, YieldOK, CaptureOK, HistoryOK
  <2> QED BY <2>1, <2>2 DEF TypeOK
<1>17. CASE PType
  <2>1. ControlOK'
    BY <1>17, ThreadKinds, GotoOK, RetOK DEF PType, TypeOK, ControlOK, Labels, SharedLabels, MainLabels, PollLabels, LoaderLabels, PollFrame, PollLocal
  <2>2. ExtOK' /\ EpisodeOK' /\ LoadOK' /\ YieldOK' /\ CaptureOK' /\ HistoryOK'
    BY <1>17, DaemonAssumption DEF PType, PollFrame, PollLocal, TypeOK, ExtOK, EpisodeOK, LoadOK, YieldOK, CaptureOK, HistoryOK
  <2> QED BY <2>1, <2>2 DEF TypeOK
<1>18. CASE PEndMatch
  <2>1. ControlOK'
    BY <1>18, ThreadKinds, GotoOK, CallOK, RetOK DEF PEndMatch, TypeOK, ControlOK, Home, Labels, SharedLabels, MainLabels, PollLabels, LoaderLabels, PollFrame, PollLocal
  <2>2. ExtOK' /\ EpisodeOK' /\ LoadOK' /\ YieldOK' /\ CaptureOK' /\ HistoryOK'
    BY <1>18, DaemonAssumption DEF PEndMatch, PollFrame, Sources, TypeOK, ExtOK, EpisodeOK, LoadOK, YieldOK, CaptureOK, HistoryOK
  <2> QED BY <2>1, <2>2 DEF TypeOK
<1>19. CASE PRejected
  <2>1. ControlOK'
    BY <1>19, ThreadKinds, GotoOK, RetOK DEF PRejected, TypeOK, ControlOK, Labels, SharedLabels, MainLabels, PollLabels, LoaderLabels, PollFrame, PollLocal
  <2>2. ExtOK' /\ EpisodeOK' /\ LoadOK' /\ YieldOK' /\ CaptureOK' /\ HistoryOK'
    BY <1>19, DaemonAssumption DEF PRejected, PollFrame, TypeOK, ExtOK, EpisodeOK, LoadOK, YieldOK, CaptureOK, HistoryOK
  <2> QED BY <2>1, <2>2 DEF TypeOK
<1>20. CASE PLockout
  <2>1. ControlOK'
    BY <1>20, ThreadKinds, GotoOK, CallOK, RetOK DEF PLockout, TypeOK, ControlOK, Home, Labels, SharedLabels, MainLabels, PollLabels, LoaderLabels, PollFrame, PollLocal
  <2>2. HistoryOK'
    BY <1>20 DEF PLockout, PollFrame, Sources, TypeOK, HistoryOK
  <2>3. EpisodeOK'
    BY <1>20 DEF PLockout, PollFrame, Sources, TypeOK, EpisodeOK
  <2>4. ExtOK' /\ LoadOK' /\ YieldOK' /\ CaptureOK'
    BY <1>20 DEF PLockout, PollFrame, Sources, TypeOK, ExtOK, LoadOK, YieldOK, CaptureOK
  <2> QED BY <2>1, <2>2, <2>3, <2>4 DEF TypeOK
<1> QED BY <1>1, <1>2, <1>3, <1>4, <1>5, <1>6, <1>7, <1>8, <1>9, <1>10, <1>11, <1>12, <1>13, <1>14, <1>15, <1>16, <1>17, <1>18, <1>19, <1>20, SharedOK, ThreadKinds DEF PollStep

\* A loader thread's own steps.
LEMMA LoaderOK ==
  ASSUME TypeOK,
         NEW l \in Loader, LoaderStep(l)
  PROVE  TypeOK'
<1> USE DEF extVars, confVars, epVars, loadVars, watchVars, yieldVars, capVars, histVars
<1>1. CASE LMount(l)
  <2>1. ControlOK'
    BY <1>1, ThreadKinds, GotoOK, RetOK DEF LMount, TypeOK, ControlOK, Labels, SharedLabels, MainLabels, PollLabels, LoaderLabels, LoadFrame
  <2>2. ExtOK'
    BY <1>1, SpendOK DEF LMount, LoadFrame, EnvEvents, TypeOK, ExtOK
  <2>3. LoadOK'
    BY <1>1 DEF LMount, LoadFrame, TypeOK, LoadOK
  <2>4. EpisodeOK' /\ YieldOK' /\ CaptureOK' /\ HistoryOK'
    BY <1>1 DEF LMount, LoadFrame, TypeOK, EpisodeOK, YieldOK, CaptureOK, HistoryOK
  <2> QED BY <2>1, <2>2, <2>3, <2>4 DEF TypeOK
<1>2. CASE LRead(l)
  <2>1. ControlOK'
    BY <1>2, ThreadKinds, GotoOK, RetOK DEF LRead, TypeOK, ControlOK, Labels, SharedLabels, MainLabels, PollLabels, LoaderLabels, LoadFrame
  <2>2. LoadOK'
    <3>1. Empty \in Contents
      BY DaemonAssumption DEF Empty, Contents
    <3> QED BY <1>2, <3>1, DaemonAssumption DEF LRead, TypeOK, LoadOK
  <2>3. ExtOK' /\ EpisodeOK' /\ YieldOK' /\ CaptureOK' /\ HistoryOK'
    BY <1>2 DEF LRead, LoadFrame, Empty, Contents, TypeOK, ExtOK, EpisodeOK, YieldOK, CaptureOK, HistoryOK
  <2> QED BY <2>1, <2>2, <2>3 DEF TypeOK
<1>3. CASE LUnmount(l)
  <2>1. ControlOK'
    BY <1>3, ThreadKinds, GotoOK, RetOK DEF LUnmount, TypeOK, ControlOK, Labels, SharedLabels, MainLabels, PollLabels, LoaderLabels, LoadFrame
  <2>2. LoadOK'
    BY <1>3 DEF LUnmount, LoadFrame, TypeOK, LoadOK
  <2>3. ExtOK' /\ EpisodeOK' /\ YieldOK' /\ CaptureOK' /\ HistoryOK'
    BY <1>3 DEF LUnmount, LoadFrame, TypeOK, ExtOK, EpisodeOK, YieldOK, CaptureOK, HistoryOK
  <2> QED BY <2>1, <2>2, <2>3 DEF TypeOK
<1>4. CASE LPublish(l)
  <2>1. ControlOK'
    BY <1>4, ThreadKinds, GotoOK, RetOK DEF LPublish, TypeOK, ControlOK, Labels, SharedLabels, MainLabels, PollLabels, LoaderLabels, LoadFrame
  <2>2. LoadOK'
    BY <1>4 DEF LPublish, LoadFrame, TypeOK, LoadOK
  <2>3. ExtOK' /\ EpisodeOK' /\ YieldOK' /\ CaptureOK' /\ HistoryOK'
    BY <1>4 DEF LPublish, LoadFrame, TypeOK, ExtOK, EpisodeOK, YieldOK, CaptureOK, HistoryOK
  <2> QED BY <2>1, <2>2, <2>3 DEF TypeOK
<1>5. CASE LDrop(l)
  <2>1. ControlOK'
    BY <1>5, ThreadKinds, GotoOK, RetOK DEF LDrop, TypeOK, ControlOK, Labels, SharedLabels, MainLabels, PollLabels, LoaderLabels, LoadFrame
  <2>2. LoadOK'
    BY <1>5, DaemonAssumption DEF LDrop, LoadFrame, Contents, TypeOK, LoadOK
  <2>3. ExtOK' /\ EpisodeOK' /\ YieldOK' /\ CaptureOK' /\ HistoryOK'
    BY <1>5 DEF LDrop, LoadFrame, Contents, TypeOK, ExtOK, EpisodeOK, YieldOK, CaptureOK, HistoryOK
  <2> QED BY <2>1, <2>2, <2>3 DEF TypeOK
<1>6. CASE LFailed(l)
  <2>1. ControlOK'
    BY <1>6, ThreadKinds, GotoOK, CallOK, RetOK DEF LFailed, TypeOK, ControlOK, Home, Labels, SharedLabels, MainLabels, PollLabels, LoaderLabels, LoadFrame
  <2>2. ExtOK' /\ EpisodeOK' /\ LoadOK' /\ YieldOK' /\ CaptureOK' /\ HistoryOK'
    BY <1>6, DaemonAssumption DEF LFailed, LoadFrame, TypeOK, ExtOK, EpisodeOK, LoadOK, YieldOK, CaptureOK, HistoryOK
  <2> QED BY <2>1, <2>2 DEF TypeOK
<1> QED BY <1>1, <1>2, <1>3, <1>4, <1>5, <1>6, SharedOK, ThreadKinds DEF LoaderStep

\* The environment's steps.
LEMMA EnvOK ==
  ASSUME TypeOK, EnvStep
  PROVE  TypeOK'
<1> USE DEF extVars, confVars, epVars, loadVars, watchVars, yieldVars, capVars, histVars
<1>1. CASE LockScreen
  <2>1. ControlOK'
    BY <1>1, StayOK DEF LockScreen, TypeOK, EnvFrame, ClientFrame
  <2>2. ExtOK'
    BY <1>1, NotesOK, SpendOK DEF LockScreen, EnvFrame, Notes, EnvEvents, TypeOK, ExtOK
  <2>3. HistoryOK'
    BY <1>1 DEF LockScreen, EnvFrame, TypeOK, HistoryOK
  <2>4. EpisodeOK' /\ LoadOK' /\ YieldOK' /\ CaptureOK'
    BY <1>1 DEF LockScreen, EnvFrame, TypeOK, EpisodeOK, LoadOK, YieldOK, CaptureOK
  <2> QED BY <2>1, <2>2, <2>3, <2>4 DEF TypeOK
<1>2. CASE UnlockScreen
  <2>1. ControlOK'
    BY <1>2, StayOK DEF UnlockScreen, TypeOK, EnvFrame, ClientFrame
  <2>2. ExtOK'
    BY <1>2, NotesOK, SpendOK DEF UnlockScreen, EnvFrame, Notes, EnvEvents, TypeOK, ExtOK
  <2>3. HistoryOK'
    BY <1>2 DEF UnlockScreen, EnvFrame, TypeOK, HistoryOK
  <2>4. EpisodeOK' /\ LoadOK' /\ YieldOK' /\ CaptureOK'
    BY <1>2 DEF UnlockScreen, EnvFrame, TypeOK, EpisodeOK, LoadOK, YieldOK, CaptureOK
  <2> QED BY <2>1, <2>2, <2>3, <2>4 DEF TypeOK
<1>3. CASE PromptHide
  <2>1. ControlOK'
    BY <1>3, StayOK DEF PromptHide, TypeOK, EnvFrame, ClientFrame
  <2>2. ExtOK'
    BY <1>3 DEF PromptHide, EnvFrame, TypeOK, ExtOK
  <2>3. HistoryOK'
    BY <1>3 DEF PromptHide, EnvFrame, TypeOK, HistoryOK
  <2>4. EpisodeOK' /\ LoadOK' /\ YieldOK' /\ CaptureOK'
    BY <1>3 DEF PromptHide, EnvFrame, TypeOK, EpisodeOK, LoadOK, YieldOK, CaptureOK
  <2> QED BY <2>1, <2>2, <2>3, <2>4 DEF TypeOK
<1>4. CASE Plug
  <2>1. ControlOK'
    BY <1>4, StayOK DEF Plug, TypeOK, EnvFrame, ClientFrame
  <2>2. ExtOK'
    BY <1>4, SpendOK DEF Plug, EnvFrame, EnvEvents, TypeOK, ExtOK
  <2>3. EpisodeOK' /\ LoadOK' /\ YieldOK' /\ CaptureOK' /\ HistoryOK'
    BY <1>4 DEF Plug, EnvFrame, TypeOK, EpisodeOK, LoadOK, YieldOK, CaptureOK, HistoryOK
  <2> QED BY <2>1, <2>2, <2>3 DEF TypeOK
<1>5. CASE ClientBegin
  <2>1. ControlOK'
    BY <1>5, StayOK DEF ClientBegin, TypeOK, EnvFrame, ClientFrame
  <2>2. ExtOK'
    BY <1>5, NotesOK, SpendOK DEF ClientBegin, ClientFrame, EnvFrame, Notes, EnvEvents, TypeOK, ExtOK
  <2>3. EpisodeOK' /\ LoadOK' /\ YieldOK' /\ CaptureOK' /\ HistoryOK'
    BY <1>5 DEF ClientBegin, ClientFrame, EnvFrame, TypeOK, EpisodeOK, LoadOK, YieldOK, CaptureOK, HistoryOK
  <2> QED BY <2>1, <2>2, <2>3 DEF TypeOK
<1>6. CASE ClientTimeout
  <2>1. ControlOK'
    BY <1>6, StayOK DEF ClientTimeout, TypeOK, EnvFrame, ClientFrame
  <2>2. ExtOK'
    BY <1>6 DEF ClientTimeout, ClientFrame, EnvFrame, TypeOK, ExtOK
  <2>3. EpisodeOK' /\ LoadOK' /\ YieldOK' /\ CaptureOK' /\ HistoryOK'
    BY <1>6 DEF ClientTimeout, ClientFrame, EnvFrame, TypeOK, EpisodeOK, LoadOK, YieldOK, CaptureOK, HistoryOK
  <2> QED BY <2>1, <2>2, <2>3 DEF TypeOK
<1>7. CASE ClientDone
  <2>1. ControlOK'
    BY <1>7, StayOK DEF ClientDone, TypeOK, EnvFrame, ClientFrame
  <2>2. ExtOK'
    BY <1>7, NotesOK DEF ClientDone, ClientFrame, EnvFrame, Notes, TypeOK, ExtOK
  <2>3. EpisodeOK' /\ LoadOK' /\ YieldOK' /\ CaptureOK' /\ HistoryOK'
    BY <1>7 DEF ClientDone, ClientFrame, EnvFrame, TypeOK, EpisodeOK, LoadOK, YieldOK, CaptureOK, HistoryOK
  <2> QED BY <2>1, <2>2, <2>3 DEF TypeOK
<1>8. CASE ClientCrash
  <2>1. ControlOK'
    BY <1>8, StayOK DEF ClientCrash, TypeOK, EnvFrame, ClientFrame
  <2>2. ExtOK'
    BY <1>8, SpendOK DEF ClientCrash, ClientFrame, EnvFrame, EnvEvents, TypeOK, ExtOK
  <2>3. EpisodeOK' /\ LoadOK' /\ YieldOK' /\ CaptureOK' /\ HistoryOK'
    BY <1>8 DEF ClientCrash, ClientFrame, EnvFrame, TypeOK, EpisodeOK, LoadOK, YieldOK, CaptureOK, HistoryOK
  <2> QED BY <2>1, <2>2, <2>3 DEF TypeOK
<1>9. CASE YieldExpires
  <2>1. ControlOK'
    BY <1>9, StayOK DEF YieldExpires, TypeOK, EnvFrame, ClientFrame
  <2>2. YieldOK'
    BY <1>9 DEF YieldExpires, EnvFrame, TypeOK, YieldOK
  <2>3. ExtOK' /\ EpisodeOK' /\ LoadOK' /\ CaptureOK' /\ HistoryOK'
    BY <1>9 DEF YieldExpires, EnvFrame, TypeOK, ExtOK, EpisodeOK, LoadOK, CaptureOK, HistoryOK
  <2> QED BY <2>1, <2>2, <2>3 DEF TypeOK
<1>10. CASE \E p \in Pids : PromptShow(p)
  <2>1. PICK p \in Pids : PromptShow(p)
    BY <1>10
  <2>2. ControlOK'
    BY <2>1, StayOK DEF PromptShow, EnvFrame, TypeOK
  <2>3. ExtOK'
    BY <2>1, SpendOK DEF PromptShow, EnvFrame, EnvEvents, TypeOK, ExtOK
  <2>4. EpisodeOK' /\ LoadOK' /\ YieldOK' /\ CaptureOK' /\ HistoryOK'
    BY <2>1 DEF PromptShow, EnvFrame, TypeOK, EpisodeOK, LoadOK, YieldOK, CaptureOK, HistoryOK
  <2> QED BY <2>2, <2>3, <2>4 DEF TypeOK
<1> QED BY <1>1, <1>2, <1>3, <1>4, <1>5, <1>6, <1>7, <1>8, <1>9, <1>10 DEF EnvStep

\* A step that changes nothing.
LEMMA StutterOK == ASSUME TypeOK, UNCHANGED vars PROVE TypeOK'
BY DEF vars, extVars, confVars, epVars, loadVars, watchVars, yieldVars, capVars, histVars,
   TypeOK, ExtOK, EpisodeOK, LoadOK, YieldOK, ControlOK, CaptureOK, HistoryOK

\* Type correctness: whatever the threads, the user and the bus do, every thread of
\* the daemon stays on its own control points and every global keeps its type.
THEOREM TypeCorrect == Spec => []TypeOK
<1>1. TypeOK /\ [Next]_vars => TypeOK'
  BY MainOK, PollOK, LoaderOK, EnvOK, StutterOK DEF Next
<1> QED BY <1>1, InitOK, PTL DEF Spec

-----------------------------------------------------------------------------
(* The safety properties, each from the type invariant and what makes it    *)
(* inductive.                                                              *)

-----------------------------------------------------------------------------
(* Who writes what.                                                        *)

OtherStep ==
  \/ MainStep \/ MainEvent \/ MainRequest \/ Tick
  \/ (\E l \in Loader : LoaderStep(l))
  \/ EnvStep

\* Only the polling thread moves the polling thread and its locals.
LEMMA OthersLeavePoll ==
  ASSUME TypeOK, OtherStep
  PROVE  pc'["poll"] = pc["poll"] /\ UNCHANGED <<probe, snap>>
<1> USE DEF extVars, confVars, epVars, loadVars, watchVars, yieldVars, capVars, histVars
<1>0. pc \in [Thread -> AllLabels]
  BY DEF TypeOK, ControlOK
<1> USE <1>0, ThreadKinds DEF Goto, Call
<1>1. ASSUME NEW t \in Thread, t # "poll", ArmStep(t) \/ Disarm(t) \/ Settle(t) \/ Unwind(t)
      PROVE  pc'["poll"] = pc["poll"] /\ UNCHANGED <<probe, snap>>
  BY <1>1 DEF ArmStep, TryArm, DropYield, ArmChecks, CasArm, Disarm, Settle, Unwind
<1>2. CASE MainStep
  <2>1. CASE OnScreenUnlocked \/ WipeCache \/ Unready \/ YieldAbort
    BY <2>1 DEF OnScreenUnlocked, WipeCache, Unready, YieldAbort
  <2>2. CASE ArmCheck \/ ArmTrigger \/ ArmGo \/ SpawnLoader \/ SpawnFails
    BY <2>2 DEF ArmCheck, ArmTrigger, ArmGo, SpawnLoader, SpawnFails
  <2> QED BY <1>1, <1>2, <2>1, <2>2 DEF MainStep
<1>3. CASE MainEvent \/ MainRequest
  BY <1>3 DEF MainEvent, MainRequest, OnScreenLocked, OnScreenUnlockedNote, Deliver, YieldBegin,
              YieldEnd, SetScanning, SetLockswipe, SetMatchThreshold
<1>4. CASE Tick
  BY <1>4 DEF Tick
<1>5. CASE \E l \in Loader : LoaderStep(l)
  <2>1. PICK l \in Loader : LoaderStep(l)
    BY <1>5
  <2>2. CASE LMount(l) \/ LRead(l) \/ LUnmount(l) \/ LPublish(l) \/ LDrop(l) \/ LFailed(l)
    BY <2>2 DEF LMount, LRead, LUnmount, LPublish, LDrop, LFailed, LoadFrame
  <2> QED BY <1>1, <2>1, <2>2 DEF LoaderStep
<1>6. CASE EnvStep
  BY <1>6 DEF EnvStep, LockScreen, UnlockScreen, PromptHide, PromptShow, Plug, ClientBegin,
              ClientTimeout, ClientDone, ClientCrash, YieldExpires, ClientFrame, EnvFrame
<1> QED BY <1>2, <1>3, <1>4, <1>5, <1>6 DEF OtherStep

-----------------------------------------------------------------------------
(* The password is typed only for the enrolled finger.                     *)

\* An accepted threshold is never below the minimum, whatever the file holds.
LEMMA ThresholdMin == \A c \in Int : Threshold(c) \in Int /\ Threshold(c) >= 20
BY DEF Threshold

\* A step of the polling thread.
LEMMA OwnerPoll ==
  ASSUME TypeOK, TypesOnlyForOwner, PollStep \/ PCaptureFails \/ PSwipe
  PROVE  TypesOnlyForOwner'
<1> USE DEF extVars, confVars, epVars, loadVars, watchVars, yieldVars, capVars, histVars
<1>0. /\ pc \in [Thread -> AllLabels] /\ "poll" \in Thread
      /\ probe \in Swipes /\ snap \in Contents /\ cache \in Contents /\ conf \in ConfValues
      /\ ret["poll"] \in {"top", "unwind"}
  BY ThreadKinds DEF TypeOK, ControlOK, CaptureOK, LoadOK, ExtOK, Home
<1> USE <1>0 DEF Goto, Call, TypesOnlyForOwner
<1>1. CASE ArmStep("poll") \/ Disarm("poll") \/ Settle("poll")
  BY <1>1 DEF ArmStep, TryArm, DropYield, ArmChecks, CasArm, Disarm, Settle, Home
<1>2. CASE PTop \/ PBranch \/ PAbort \/ PLockSwipe \/ PLockKey \/ PLockCheck
  BY <1>2 DEF PTop, PBranch, PAbort, PLockSwipe, PLockKey, PLockCheck, PollLocal, PollFrame
<1>3. CASE POpen \/ PUnplugged \/ PCaptureFails
  BY <1>3 DEF POpen, PUnplugged, PCaptureFails, NextAttempt, PollLocal, PollFrame
<1>4. CASE PSwipe
  BY <1>4, DaemonAssumption DEF PSwipe, NextAttempt, Swipes, PollFrame
<1>5. CASE PExtract \/ PArmedDone
  BY <1>5 DEF PExtract, PArmedDone, PollLocal, PollFrame
<1>6. CASE PHold
  BY <1>6 DEF PHold, PollLocal, PollFrame
<1>7. CASE PScore
  <2>1. PICK s \in BestScores(cache.n) :
          Goto("poll", IF s >= Threshold(conf) THEN "matched" ELSE "rejected")
    BY <1>7 DEF PScore
  <2>2. probe'.good /\ snap' = cache /\ probe' = probe
    BY <1>7 DEF PScore
  <2>3. CASE s >= Threshold(conf)
    <3>1. Threshold(conf) \in Int /\ Threshold(conf) >= 20
      BY ThresholdMin, DaemonAssumption
    <3>2. s \in Int /\ cache.n \in Nat
      BY DaemonAssumption DEF BestScores, Contents
    <3>3. s >= 20
      BY <2>3, <3>1, <3>2
    <3>4. cache.n # 0
      BY <3>3 DEF BestScores
    <3>5. probe.finger = "owner"
      BY <3>2, <3>3, <3>4 DEF BestScores, Swipes
    <3>6. pc'["poll"] = "matched" /\ snap'.n > 0
      BY <2>1, <2>2, <2>3, <3>2, <3>4
    <3> QED BY <2>2, <3>5, <3>6
  <2>4. CASE ~(s >= Threshold(conf))
    BY <2>1, <2>2, <2>4
  <2> QED BY <2>3, <2>4
<1>8. CASE PMatched
  BY <1>8 DEF PMatched, PollLocal, PollFrame
<1>9. CASE PSettleWait \/ PType \/ PEndMatch \/ PRejected \/ PLockout
  BY <1>9 DEF PSettleWait, PType, PEndMatch, PRejected, PLockout, PollLocal, PollFrame
<1> QED BY <1>1, <1>2, <1>3, <1>4, <1>5, <1>6, <1>7, <1>8, <1>9 DEF PollStep

\* Whatever match_threshold.conf and the volume hold, and however loaders, unlocks and
\* new episodes overlap with a match, the polling thread reaches type_password_and_enter
\* only with a scorable swipe of the owner's finger, a non-empty snapshot of the
\* templates and a stored password.
THEOREM OwnerOnly == Spec => []TypesOnlyForOwner
<1>1. Init => TypesOnlyForOwner
  BY ThreadKinds DEF Init, TypesOnlyForOwner, Home
<1>2. TypeOK /\ TypesOnlyForOwner /\ [Next]_vars => TypesOnlyForOwner'
  <2> SUFFICES ASSUME TypeOK, TypesOnlyForOwner, [Next]_vars PROVE TypesOnlyForOwner'
    OBVIOUS
  <2>1. CASE OtherStep
    BY <2>1, OthersLeavePoll DEF TypesOnlyForOwner
  <2>2. CASE UNCHANGED vars
    BY <2>2 DEF vars, capVars, TypesOnlyForOwner
  <2> QED BY <2>1, <2>2, OwnerPoll DEF Next, OtherStep
<1> QED BY <1>1, <1>2, TypeCorrect, PTL DEF Spec

-----------------------------------------------------------------------------
(* No episode scores more than MAX_FAILED_SWIPES rejected swipes.           *)

\* The inductive strengthening of RejectsBounded: g_failed_swipes reaches the limit
\* only on the way to the lockout; while an episode is on, it is no smaller than the
\* number of its rejected swipes (the lockout's own reset excepted); and a swipe is
\* scored only for an episode that has an attempt left.
RejectsInv ==
  /\ fails <= MaxFailedSwipes - 1 \/ (pc["poll"] = "lockout" /\ fails <= MaxFailedSwipes)
  /\ state = "POLLING" /\ pc["poll"] \notin {"lockout", "settle"} => rejects <= fails
  /\ pc["poll"] \in {"score", "rejected"} => rejects <= MaxFailedSwipes - 1
  /\ rejects <= MaxFailedSwipes

\* What the other threads do to the counters: nothing, unless they reset them for a
\* new episode or on an unlock.
LEMMA OthersCount ==
  ASSUME TypeOK, OtherStep
  PROVE  \/ UNCHANGED <<fails, rejects>> /\ (state' = "POLLING" => state = "POLLING")
         \/ fails' = 0 /\ rejects' = 0
         \/ fails' = 0 /\ state' = "IDLE" /\ rejects' = rejects
<1> USE DEF extVars, confVars, epVars, loadVars, watchVars, yieldVars, capVars, histVars
<1>1. ASSUME NEW t \in Thread, ArmStep(t) \/ Disarm(t) \/ Settle(t) \/ Unwind(t)
      PROVE  UNCHANGED <<fails, rejects>> /\ (state' = "POLLING" => state = "POLLING")
  BY <1>1 DEF ArmStep, TryArm, DropYield, ArmChecks, CasArm, ArmedFrom, Disarm, Settle, Unwind
<1>2. CASE MainStep
  <2>1. CASE OnScreenUnlocked \/ ArmGo
    BY <2>1 DEF OnScreenUnlocked, ArmGo
  <2>2. CASE WipeCache \/ Unready \/ YieldAbort \/ ArmCheck \/ ArmTrigger \/ SpawnLoader \/ SpawnFails
    BY <2>2 DEF WipeCache, Unready, YieldAbort, ArmCheck, ArmTrigger, SpawnLoader, SpawnFails
  <2> QED BY <1>1, <1>2, <2>1, <2>2, ThreadKinds DEF MainStep
<1>3. CASE MainEvent \/ MainRequest \/ Tick
  BY <1>3 DEF MainEvent, MainRequest, OnScreenLocked, OnScreenUnlockedNote, Deliver, YieldBegin,
              YieldEnd, SetScanning, SetLockswipe, SetMatchThreshold, Tick
<1>4. CASE \E l \in Loader : LoaderStep(l)
  <2>1. PICK l \in Loader : LoaderStep(l)
    BY <1>4
  <2>2. CASE LMount(l) \/ LRead(l) \/ LUnmount(l) \/ LPublish(l) \/ LDrop(l) \/ LFailed(l)
    BY <2>2 DEF LMount, LRead, LUnmount, LPublish, LDrop, LFailed, LoadFrame
  <2> QED BY <1>1, <2>1, <2>2, ThreadKinds DEF LoaderStep
<1>5. CASE EnvStep
  BY <1>5 DEF EnvStep, LockScreen, UnlockScreen, PromptHide, PromptShow, Plug, ClientBegin,
              ClientTimeout, ClientDone, ClientCrash, YieldExpires, ClientFrame, EnvFrame
<1> QED BY <1>2, <1>3, <1>4, <1>5 DEF OtherStep

\* A step of the polling thread.
LEMMA RejectsPoll ==
  ASSUME TypeOK, RejectsInv, PollStep \/ PCaptureFails \/ PSwipe
  PROVE  RejectsInv'
<1> USE DEF extVars, confVars, epVars, loadVars, watchVars, yieldVars, capVars, histVars
<1>0. /\ pc \in [Thread -> AllLabels] /\ "poll" \in Thread
      /\ fails \in Nat /\ rejects \in Nat /\ MaxFailedSwipes \in Nat \ {0}
      /\ ret["poll"] \in {"top", "unwind"}
  BY ThreadKinds, DaemonAssumption DEF TypeOK, ControlOK, EpisodeOK, HistoryOK, Home
<1> USE <1>0 DEF Goto, Call, RejectsInv
<1>1. CASE ArmStep("poll") \/ Disarm("poll") \/ Settle("poll")
  BY <1>1 DEF ArmStep, TryArm, DropYield, ArmChecks, CasArm, ArmedFrom, Disarm, Settle, Home
<1>2. CASE PTop \/ PBranch \/ PAbort \/ PLockSwipe \/ PLockKey \/ PLockCheck
  BY <1>2 DEF PTop, PBranch, PAbort, PollAborts, PLockSwipe, PLockKey, PLockCheck, PollLocal, PollFrame
<1>3. CASE POpen \/ PUnplugged \/ PCaptureFails \/ PSwipe
  BY <1>3 DEF POpen, PUnplugged, PCaptureFails, PSwipe, NextAttempt, PollLocal, PollFrame
<1>4. CASE PExtract \/ PArmedDone \/ PHold
  BY <1>4 DEF PExtract, PArmedDone, PHold, PollLocal, PollFrame
<1>5. CASE PScore
  BY <1>5 DEF PScore, PollLocal, PollFrame
<1>6. CASE PMatched \/ PSettleWait \/ PType \/ PEndMatch
  BY <1>6 DEF PMatched, PSettleWait, PType, PEndMatch, PollLocal, PollFrame
<1>7. CASE PRejected \/ PLockout
  BY <1>7 DEF PRejected, OutOfSwipes, PLockout, PollFrame
<1> QED BY <1>1, <1>2, <1>3, <1>4, <1>5, <1>6, <1>7 DEF PollStep

\* MAX_FAILED_SWIPES bounds every episode, for every value of the limit and any
\* interleaving of the three threads that reset g_failed_swipes.
THEOREM AttemptsBounded == Spec => []RejectsBounded
<1>1. Init => RejectsInv
  BY DaemonAssumption DEF Init, RejectsInv
<1>2. TypeOK /\ RejectsInv /\ [Next]_vars => RejectsInv'
  <2> SUFFICES ASSUME TypeOK, RejectsInv, [Next]_vars PROVE RejectsInv'
    OBVIOUS
  <2>1. CASE OtherStep
    <3>1. fails \in Nat /\ rejects \in Nat /\ MaxFailedSwipes \in Nat \ {0}
      BY DaemonAssumption DEF TypeOK, EpisodeOK, HistoryOK
    <3> QED BY <2>1, <3>1, OthersLeavePoll, OthersCount DEF RejectsInv
  <2>2. CASE UNCHANGED vars
    BY <2>2 DEF vars, histVars, RejectsInv
  <2> QED BY <2>1, <2>2, RejectsPoll DEF Next, OtherStep
<1>3. TypeOK /\ RejectsInv => RejectsBounded
  BY DaemonAssumption DEF TypeOK, EpisodeOK, HistoryOK, RejectsInv, RejectsBounded
<1> QED BY <1>1, <1>2, <1>3, TypeCorrect, PTL DEF Spec

-----------------------------------------------------------------------------
(* A prompt is armed for at most once.                                     *)

\* The inductive strengthening of OneEpisodePerPrompt: the debounce flag stays up as
\* long as a served prompt is visible, and the main thread is on its way to arm for a
\* padlock only with the flag up and no episode served yet.
DebounceInv ==
  /\ served => debounce /\ Visible # NoPid
  /\ pc["main"] \in {"arm", "arm_set", "arm_go"} /\ arg.source = "PADLOCK"
       => debounce /\ ~served /\ arg.pid # NoPid

\* A step of one of the other threads, or of the environment: the prompt changes only
\* together with the history variable.
LEMMA DebounceOthers ==
  ASSUME TypeOK, DebounceInv,
         \/ PollStep \/ PCaptureFails \/ PSwipe
         \/ (\E l \in Loader : LoaderStep(l)) \/ EnvStep
  PROVE  DebounceInv'
<1> USE DEF extVars, confVars, epVars, loadVars, watchVars, yieldVars, capVars, histVars
<1>0. pc \in [Thread -> AllLabels]
  BY DEF TypeOK, ControlOK
<1>1. SUFFICES /\ pc'["main"] = pc["main"] /\ UNCHANGED <<arg, debounce>>
               /\ UNCHANGED <<served, screenLocked, prompt>> \/ ~served'
  BY <1>1 DEF DebounceInv, Visible
<1> USE <1>0, ThreadKinds DEF Goto, Call
<1>2. ASSUME NEW t \in Thread, t # "main", ArmStep(t) \/ Disarm(t) \/ Settle(t) \/ Unwind(t)
      PROVE  /\ pc'["main"] = pc["main"] /\ UNCHANGED <<arg, debounce>>
             /\ UNCHANGED <<served, screenLocked, prompt>>
  BY <1>2 DEF ArmStep, TryArm, DropYield, ArmChecks, CasArm, Disarm, Settle, Unwind
<1>3. CASE PollStep \/ PCaptureFails \/ PSwipe
  <2>1. CASE PTop \/ PBranch \/ PAbort \/ PLockSwipe \/ PLockKey \/ PLockCheck
    BY <2>1 DEF PTop, PBranch, PAbort, PLockSwipe, PLockKey, PLockCheck, PollLocal, PollFrame
  <2>2. CASE POpen \/ PUnplugged \/ PCaptureFails \/ PSwipe
    BY <2>2 DEF POpen, PUnplugged, PCaptureFails, PSwipe, NextAttempt, PollLocal, PollFrame
  <2>3. CASE PExtract \/ PArmedDone \/ PHold \/ PScore
    BY <2>3 DEF PExtract, PArmedDone, PHold, PScore, PollLocal, PollFrame
  <2>4. CASE PMatched \/ PSettleWait \/ PType \/ PEndMatch \/ PRejected \/ PLockout
    BY <2>4 DEF PMatched, PSettleWait, PType, PEndMatch, PRejected, PLockout, PollLocal, PollFrame
  <2> QED BY <1>2, <1>3, <2>1, <2>2, <2>3, <2>4 DEF PollStep
<1>4. CASE \E l \in Loader : LoaderStep(l)
  <2>1. PICK l \in Loader : LoaderStep(l)
    BY <1>4
  <2>2. CASE LMount(l) \/ LRead(l) \/ LUnmount(l) \/ LPublish(l) \/ LDrop(l) \/ LFailed(l)
    BY <2>2 DEF LMount, LRead, LUnmount, LPublish, LDrop, LFailed, LoadFrame
  <2> QED BY <1>2, <2>1, <2>2 DEF LoaderStep
<1>5. CASE EnvStep
  BY <1>5 DEF EnvStep, LockScreen, UnlockScreen, PromptHide, PromptShow, Plug, ClientBegin,
              ClientTimeout, ClientDone, ClientCrash, YieldExpires, ClientFrame, EnvFrame
<1> QED BY <1>3, <1>4, <1>5

\* A step of the main run loop.
LEMMA DebounceMain ==
  ASSUME TypeOK, DebounceInv, MainStep \/ MainEvent \/ MainRequest \/ Tick
  PROVE  DebounceInv'
<1> USE DEF extVars, confVars, epVars, loadVars, watchVars, yieldVars, capVars, histVars
<1>0. /\ pc \in [Thread -> AllLabels] /\ "main" \in Thread /\ "main" \notin Loader
      /\ ret["main"] \in {"run", "unwind"}
  BY ThreadKinds DEF TypeOK, ControlOK, Home
<1> USE <1>0 DEF Goto, Call, DebounceInv, Visible
<1>1. CASE ArmStep("main") \/ Disarm("main") \/ Settle("main") \/ Unwind("main")
  BY <1>1 DEF ArmStep, TryArm, DropYield, ArmChecks, CasArm, Disarm, Settle, Unwind, Home
<1>2. CASE OnScreenUnlocked \/ WipeCache \/ Unready \/ YieldAbort
  BY <1>2 DEF OnScreenUnlocked, WipeCache, Unready, YieldAbort
<1>3. CASE ArmCheck \/ ArmTrigger
  BY <1>3 DEF ArmCheck, ArmTrigger, NoArg
<1>4. CASE ArmGo
  BY <1>4 DEF ArmGo, NoArg
<1>5. CASE SpawnLoader
  <2>1. pc'["main"] = "run"
    BY <1>5 DEF SpawnLoader
  <2> QED BY <1>5, <2>1 DEF SpawnLoader
<1>6. CASE SpawnFails \/ MainRequest
  BY <1>6 DEF SpawnFails, MainRequest, SetScanning, SetLockswipe, SetMatchThreshold
<1>7. CASE MainEvent
  BY <1>7 DEF MainEvent, OnScreenLocked, OnScreenUnlockedNote, Deliver, YieldBegin, YieldEnd
<1>8. CASE Tick
  <2>1. UNCHANGED <<served, screenLocked, prompt>>
    BY <1>8 DEF Tick
  <2>2. served => debounce'
    <3>1. CASE UNCHANGED debounce
      BY <3>1
    <3>2. CASE debounce' = (Visible # NoPid)
      BY <3>2
    <3> QED BY <1>8, <3>1, <3>2 DEF Tick
  <2>3. CASE state = "POLLING"
    <3>1. pc'["main"] \notin {"arm", "arm_set", "arm_go"}
      BY <1>8, <2>3 DEF Tick
    <3> QED BY <2>1, <2>2, <3>1
  <2>4. CASE state # "POLLING" /\ ~NewPrompt
    <3>1. pc'["main"] \notin {"arm", "arm_set", "arm_go"}
      BY <1>8, <2>4 DEF Tick
    <3> QED BY <2>1, <2>2, <3>1
  <2>5. CASE state # "POLLING" /\ NewPrompt
    <3>1. Visible # NoPid /\ ~debounce
      BY <2>5 DEF NewPrompt
    <3>2. debounce' = (Visible # NoPid)
      BY <1>8, <2>5 DEF Tick
    <3>3. debounce' /\ ~served
      BY <3>1, <3>2
    <3>4. arg'.pid # NoPid
      BY <1>8, <2>5, <3>1 DEF Tick
    <3> QED BY <2>1, <3>3, <3>4
  <2> QED BY <2>3, <2>4, <2>5
<1> QED BY <1>1, <1>2, <1>3, <1>4, <1>5, <1>6, <1>7, <1>8 DEF MainStep

\* A prompt that stays on screen is armed for at most once, also after a lockout, an
\* unlock, or an episode of the lock screen in between.
THEOREM PromptServedOnce == Spec => []OneEpisodePerPrompt
<1>1. Init => DebounceInv
  BY ThreadKinds DEF Init, DebounceInv
<1>2. TypeOK /\ DebounceInv /\ [Next]_vars => DebounceInv'
  <2>1. ASSUME DebounceInv, UNCHANGED vars PROVE DebounceInv'
    BY <2>1 DEF vars, extVars, watchVars, histVars, DebounceInv, Visible
  <2> QED BY <2>1, DebounceOthers, DebounceMain DEF Next
<1>3. DebounceInv => OneEpisodePerPrompt
  BY DEF DebounceInv, OneEpisodePerPrompt
<1> QED BY <1>1, <1>2, <1>3, TypeCorrect, PTL DEF Spec

-----------------------------------------------------------------------------
(* The compare-and-swap.                                                   *)

\* lockswipe_try_arm never takes an episode over: with any number of loaders in its
\* checks at once, a step that leaves POLLING never enters LOCK_ARMED.
THEOREM CasProtectsEpisode == Spec => NeverArmsOverEpisode
<1> USE DEF extVars, confVars, epVars, loadVars, watchVars, yieldVars, capVars, histVars
<1>1. [Next]_vars => [state = "POLLING" => state' # "LOCK_ARMED"]_vars
  <2> SUFFICES ASSUME Next, state = "POLLING" PROVE state' # "LOCK_ARMED"
    OBVIOUS
  <2>1. ASSUME NEW t \in Thread, ArmStep(t) \/ Disarm(t) \/ Settle(t) \/ Unwind(t)
        PROVE  state' # "LOCK_ARMED"
    BY <2>1 DEF ArmStep, TryArm, DropYield, ArmChecks, CasArm, ArmedFrom, Disarm, Settle, Unwind
  <2>2. CASE MainStep \/ MainEvent \/ MainRequest \/ Tick
    <3>1. CASE OnScreenUnlocked \/ WipeCache \/ Unready \/ YieldAbort
      BY <3>1 DEF OnScreenUnlocked, WipeCache, Unready, YieldAbort
    <3>2. CASE ArmCheck \/ ArmTrigger \/ ArmGo \/ SpawnLoader \/ SpawnFails
      BY <3>2 DEF ArmCheck, ArmTrigger, ArmGo, SpawnLoader, SpawnFails
    <3>3. CASE MainEvent \/ MainRequest \/ Tick
      BY <3>3 DEF MainEvent, MainRequest, OnScreenLocked, OnScreenUnlockedNote, Deliver, YieldBegin,
                  YieldEnd, SetScanning, SetLockswipe, SetMatchThreshold, Tick
    <3> QED BY <2>1, <2>2, <3>1, <3>2, <3>3, ThreadKinds DEF MainStep
  <2>3. CASE PollStep \/ PCaptureFails \/ PSwipe
    <3>1. CASE PTop \/ PBranch \/ PAbort \/ PLockSwipe \/ PLockKey \/ PLockCheck
      BY <3>1 DEF PTop, PBranch, PAbort, PLockSwipe, PLockKey, PLockCheck, PollLocal, PollFrame
    <3>2. CASE POpen \/ PUnplugged \/ PCaptureFails \/ PSwipe
      BY <3>2 DEF POpen, PUnplugged, PCaptureFails, PSwipe, NextAttempt, PollLocal, PollFrame
    <3>3. CASE PExtract \/ PArmedDone \/ PHold \/ PScore
      BY <3>3 DEF PExtract, PArmedDone, PHold, PScore, PollLocal, PollFrame
    <3>4. CASE PMatched \/ PSettleWait \/ PType \/ PEndMatch \/ PRejected \/ PLockout
      BY <3>4 DEF PMatched, PSettleWait, PType, PEndMatch, PRejected, PLockout, PollLocal, PollFrame
    <3> QED BY <2>1, <2>3, <3>1, <3>2, <3>3, <3>4, ThreadKinds DEF PollStep
  <2>4. CASE \E l \in Loader : LoaderStep(l)
    <3>1. PICK l \in Loader : LoaderStep(l)
      BY <2>4
    <3>2. CASE LMount(l) \/ LRead(l) \/ LUnmount(l) \/ LPublish(l) \/ LDrop(l) \/ LFailed(l)
      BY <3>2 DEF LMount, LRead, LUnmount, LPublish, LDrop, LFailed, LoadFrame
    <3> QED BY <2>1, <3>1, <3>2, ThreadKinds DEF LoaderStep
  <2>5. CASE EnvStep
    BY <2>5 DEF EnvStep, LockScreen, UnlockScreen, PromptHide, PromptShow, Plug, ClientBegin,
                ClientTimeout, ClientDone, ClientCrash, YieldExpires, ClientFrame, EnvFrame
  <2> QED BY <2>2, <2>3, <2>4, <2>5 DEF Next
<1> QED BY <1>1, PTL DEF Spec, NeverArmsOverEpisode

=============================================================================
