---------------------------- MODULE AgentProofs ----------------------------
(***************************************************************************)
(* Proofs about Agent, for every set of loader threads and processes and    *)
(* every value of the limits: its type invariant, the session's part of it  *)
(* included, and its safety properties.                                     *)
(***************************************************************************)
(***************************************************************************)
EXTENDS Agent, TLAPS

-----------------------------------------------------------------------------
(* Control points, notifications, events.                                  *)

\* The three kinds of threads are distinct.
LEMMA ThreadKinds ==
  /\ "main" \in Thread /\ "poll" \in Thread
  /\ \A l \in Loader : l \in Thread /\ l # "main" /\ l # "poll"
BY AgentAssumption DEF Thread

\* A jump to one of the thread's own labels keeps the control state well typed.
LEMMA GotoOK ==
  ASSUME ControlOK, NEW t \in Thread, NEW l \in Labels(t), Goto(t, l),
         arg' \in [source : Sources, pid : Pids \cup {NoPid}]
  PROVE  ControlOK'
BY DEF ControlOK, Goto, Labels, AllLabels

\* So does a call that returns to one of the thread's return points.
LEMMA CallOK ==
  ASSUME ControlOK, NEW t \in Thread, NEW l \in Labels(t), NEW r \in Returns(t),
         Call(t, l, r), arg' \in [source : Sources, pid : Pids \cup {NoPid}]
  PROVE  ControlOK'
<1>1. r \in AllLabels
  BY DEF Returns, Home, AllLabels, SharedLabels, MainLabels, PollLabels, LoaderLabels
<1> QED BY <1>1 DEF ControlOK, Call, Labels, AllLabels

\* Return points are labels of the thread.
LEMMA RetOK ==
  ASSUME ControlOK, NEW t \in Thread
  PROVE  ret[t] \in Labels(t)
BY DEF ControlOK, Returns, Home, Labels, SharedLabels, MainLabels, PollLabels, LoaderLabels

\* A step that leaves the control variables alone.
LEMMA StayOK == ASSUME ControlOK, UNCHANGED <<pc, ret, arg>> PROVE ControlOK'
BY DEF ControlOK

\* Spending an event, queueing and taking a notification keep their types.
LEMMA SpendOK ==
  ASSUME left \in [EnvEvents -> Nat], NEW e \in EnvEvents, Spend(e)
  PROVE  left' \in [EnvEvents -> Nat]
BY DEF Spend

LEMMA NotesOK ==
  ASSUME notes \in Seq(Notes)
  PROVE  /\ notes # <<>> => Tail(notes) \in Seq(Notes)
         /\ \A n \in Notes : Append(notes, n) \in Seq(Notes)
BY DEF Notes

\* The counters that wrap at a limit.
LEMMA ModRange == \A n \in Nat, m \in Nat \ {0} : (n + 1) % m \in 0..m-1
OBVIOUS

-----------------------------------------------------------------------------
(* Type correctness.                                                       *)

\* The initial state is well typed.
LEMMA InitTypes == Init => TypeOK
<1> SUFFICES ASSUME Init PROVE TypeOK
  OBVIOUS
<1>1. ExtOK
  <2>1. notes \in Seq(Notes) /\ left \in [EnvEvents -> Nat]
    BY AgentAssumption DEF Init
  <2>2. present \in BOOLEAN /\ scanning \in BOOLEAN /\ lockswipe \in BOOLEAN
    <3>1. PICK b \in Boot : present = b.present /\ scanning = b.scanning /\ lockswipe = b.lockswipe
      BY DEF Init
    <3>2. b.present \in BOOLEAN /\ b.scanning \in BOOLEAN /\ b.lockswipe \in BOOLEAN
      BY AgentAssumption
    <3> QED BY <3>1, <3>2
  <2> QED BY <2>1, <2>2 DEF Init, ExtOK
<1>2. EpisodeOK
  <2>1. 0 \in 0..StuckTicks-1 /\ 0 \in 0..HealPeriod-1 /\ 0 \in Nat
    BY AgentAssumption
  <2> QED BY <2>1 DEF Init, EpisodeOK, States, Sources
<1>3. ControlOK
  <2>1. \A t \in Thread : Home(t) \in AllLabels /\ Home(t) \in Labels(t) /\ Home(t) \in Returns(t)
    BY DEF Home, Returns, AllLabels, Labels, SharedLabels, MainLabels, PollLabels, LoaderLabels
  <2>2. \A t \in Thread : pc[t] = (IF t = "main" THEN "try_arm" ELSE Home(t)) /\ ret[t] = Home(t)
    BY DEF Init
  <2>3. "try_arm" \in AllLabels /\ "try_arm" \in Labels("main")
    BY DEF AllLabels, Labels, SharedLabels
  <2>4. pc \in [Thread -> AllLabels] /\ ret \in [Thread -> AllLabels]
    BY <2>1, <2>3 DEF Init
  <2>5. arg \in [source : Sources, pid : Pids \cup {NoPid}]
    BY DEF Init, NoArg, Sources
  <2> QED BY <2>1, <2>2, <2>3, <2>4, <2>5 DEF ControlOK
<1>4. YieldOK /\ PollOK
  <2>1. 0 \in Nat /\ 0 \in 0..MaxOpenFailures-1
    BY AgentAssumption
  <2> QED BY <2>1 DEF Init, YieldOK, PollOK, States
<1>5. SessionOK
  BY ThreadKinds DEF Init, SessionOK, Home
<1> QED BY <1>1, <1>2, <1>3, <1>4, <1>5 DEF TypeOK

\* The steps that the main run loop and the polling thread share: yield_is_active,
\* lockswipe_try_arm, settle_to_idle.
LEMMA SharedTypes ==
  ASSUME TypeOK, NEW t \in {"main", "poll"}, Shared(t)
  PROVE  TypeOK'
<1> USE DEF extVars, confVars, epVars, loadVars, watchVars, yieldVars, pollVars
<1>0. t \in Thread /\ pc[t] \in Labels(t) /\ ret[t] \in Returns(t)
  BY ThreadKinds DEF TypeOK, ControlOK
<1>1. CASE DropYield(t)
  <2>1. ControlOK'
    BY <1>0, <1>1, ThreadKinds, GotoOK, RetOK DEF DropYield, Drops, TypeOK, ControlOK, Labels, SharedLabels, MainLabels, PollLabels, LoaderLabels
  <2>2. YieldOK'
    BY <1>1 DEF DropYield, Drops, TypeOK, YieldOK
  <2>3. ExtOK' /\ EpisodeOK' /\ PollOK'
    BY <1>1 DEF DropYield, Drops, TypeOK, ExtOK, EpisodeOK, PollOK
  <2>4. SessionOK'
    BY <1>0, <1>1, ThreadKinds DEF DropYield, Drops, TypeOK, ControlOK, SessionOK, Goto, Call
  <2> QED BY <2>1, <2>2, <2>3, <2>4 DEF TypeOK
<1>2. CASE TryArm(t)
  <2>1. ControlOK'
    BY <1>0, <1>2, ThreadKinds, GotoOK, RetOK DEF TryArm, Moves, TypeOK, ControlOK, Labels, SharedLabels, MainLabels, PollLabels, LoaderLabels
  <2>2. ExtOK' /\ EpisodeOK' /\ YieldOK' /\ PollOK'
    BY <1>2 DEF TryArm, Moves, TypeOK, ExtOK, EpisodeOK, YieldOK, PollOK
  <2>3. SessionOK'
    BY <1>0, <1>2, ThreadKinds DEF TryArm, Moves, TypeOK, ControlOK, SessionOK, Goto, Call, Returns, Home, Labels
  <2> QED BY <2>1, <2>2, <2>3 DEF TypeOK
<1>3. CASE CasArm(t)
  <2>1. ControlOK'
    BY <1>0, <1>3, ThreadKinds, GotoOK, RetOK DEF CasArm, TypeOK, ControlOK, Labels, SharedLabels, MainLabels, PollLabels, LoaderLabels
  <2>2. EpisodeOK'
    BY <1>3 DEF CasArm, States, TypeOK, EpisodeOK
  <2>3. ExtOK' /\ YieldOK' /\ PollOK'
    BY <1>3 DEF CasArm, TypeOK, ExtOK, YieldOK, PollOK
  <2>4. SessionOK'
    BY <1>0, <1>3, ThreadKinds DEF CasArm, TypeOK, ControlOK, SessionOK, Goto, Call, Returns, Home, Labels
  <2> QED BY <2>1, <2>2, <2>3, <2>4 DEF TypeOK
<1>4. CASE Settle(t)
  <2>1. ControlOK'
    BY <1>0, <1>4, ThreadKinds, GotoOK, RetOK DEF Settle, TypeOK, ControlOK, Labels, SharedLabels, MainLabels, PollLabels, LoaderLabels
  <2>2. EpisodeOK'
    BY <1>4 DEF Settle, States, TypeOK, EpisodeOK
  <2>3. ExtOK' /\ YieldOK' /\ PollOK'
    BY <1>4 DEF Settle, TypeOK, ExtOK, YieldOK, PollOK
  <2>4. SessionOK'
    BY <1>0, <1>4, ThreadKinds DEF Settle, TypeOK, ControlOK, SessionOK, Goto, Call
  <2> QED BY <2>1, <2>2, <2>3, <2>4 DEF TypeOK
<1> QED BY <1>1, <1>2, <1>3, <1>4 DEF Shared

\* The main run loop's own steps.
LEMMA MainTypes ==
  ASSUME TypeOK, MainStep \/ MainEvent \/ MainRequest \/ Tick
  PROVE  TypeOK'
<1> USE DEF extVars, confVars, epVars, loadVars, watchVars, yieldVars, pollVars
<1>1. CASE OnScreenLocked
  <2>1. ControlOK'
    BY <1>1, ThreadKinds, GotoOK, RetOK DEF OnScreenLocked, Deliver, TypeOK, ControlOK, Labels, SharedLabels, MainLabels, PollLabels, LoaderLabels, Sources
  <2>2. ExtOK'
    BY <1>1, NotesOK DEF OnScreenLocked, Deliver, Notes, TypeOK, ExtOK
  <2>3. EpisodeOK' /\ YieldOK' /\ PollOK'
    BY <1>1 DEF OnScreenLocked, Deliver, TypeOK, EpisodeOK, YieldOK, PollOK
  <2>4. SessionOK'
    BY <1>1, ThreadKinds DEF OnScreenLocked, Deliver, TypeOK, ControlOK, SessionOK, Goto, Call
  <2> QED BY <2>1, <2>2, <2>3, <2>4 DEF TypeOK
<1>2. CASE OnScreenUnlocked
  <2>1. ControlOK'
    BY <1>2, StayOK DEF OnScreenUnlocked, EndByUnlock, TypeOK
  <2>2. ExtOK'
    BY <1>2, NotesOK DEF OnScreenUnlocked, EndByUnlock, Notes, TypeOK, ExtOK
  <2>3. EpisodeOK'
    BY <1>2 DEF OnScreenUnlocked, EndByUnlock, States, Sources, TypeOK, EpisodeOK
  <2>4. YieldOK' /\ PollOK'
    BY <1>2 DEF OnScreenUnlocked, EndByUnlock, TypeOK, YieldOK, PollOK
  <2>5. SessionOK'
    BY <1>2 DEF OnScreenUnlocked, EndByUnlock, TypeOK, SessionOK
  <2> QED BY <2>1, <2>2, <2>3, <2>4, <2>5 DEF TypeOK
<1>3. CASE Tick
  <2>1. ControlOK'
    BY <1>3, ThreadKinds, GotoOK, CallOK, RetOK DEF Tick, EndByUnlock, TypeOK, ControlOK, Labels, SharedLabels, MainLabels, PollLabels, LoaderLabels, Home, Returns
  <2>2. EpisodeOK'
    <3>1. ticks' \in 0..StuckTicks-1
      BY <1>3, AgentAssumption DEF Tick, EndByUnlock, TypeOK, EpisodeOK
    <3>2. heals' \in 0..HealPeriod-1
      <4>1. (heals + 1) % HealPeriod \in 0..HealPeriod-1
        BY ModRange, AgentAssumption DEF TypeOK, EpisodeOK
      <4> QED BY <1>3, <4>1 DEF Tick, TypeOK, EpisodeOK
    <3>3. /\ state' \in States /\ source' \in Sources /\ fails' \in Nat
          /\ grace' \in BOOLEAN /\ password' \in BOOLEAN
      <4>1. EndByUnlock \/ UNCHANGED <<state, epVars, grace, loadVars>>
        BY <1>3 DEF Tick
      <4>2. CASE EndByUnlock
        BY <4>2 DEF EndByUnlock, States, Sources
      <4>3. CASE UNCHANGED <<state, epVars, grace, loadVars>>
        BY <4>3 DEF TypeOK, EpisodeOK
      <4> QED BY <4>1, <4>2, <4>3
    <3>4. UNCHANGED <<target, rejects, mounted, debounce>>
      BY <1>3 DEF Tick, EndByUnlock
    <3> QED BY <3>1, <3>2, <3>3, <3>4 DEF TypeOK, EpisodeOK
  <2>3. ExtOK' /\ YieldOK' /\ PollOK'
    BY <1>3 DEF Tick, EndByUnlock, TypeOK, ExtOK, YieldOK, PollOK
  <2>4. SessionOK'
    BY <1>3, ThreadKinds DEF Tick, EndByUnlock, TypeOK, ControlOK, SessionOK, Goto, Call
  <2> QED BY <2>1, <2>2, <2>3, <2>4 DEF TypeOK
<1>4. CASE Watch
  <2>1. ControlOK'
    <3>1. arg' \in [source : Sources, pid : Pids \cup {NoPid}]
      BY <1>4, AgentAssumption DEF Watch, Visible, TypeOK, ExtOK, ControlOK, Sources
    <3> QED BY <1>4, <3>1, ThreadKinds, CallOK DEF Watch, TypeOK, Labels, MainLabels, Returns
  <2>2. EpisodeOK'
    BY <1>4 DEF Watch, Visible, TypeOK, EpisodeOK
  <2>3. ExtOK' /\ YieldOK' /\ PollOK'
    BY <1>4 DEF Watch, Visible, TypeOK, ExtOK, YieldOK, PollOK
  <2>4. SessionOK'
    BY <1>4, ThreadKinds DEF Watch, Visible, TypeOK, ControlOK, SessionOK, Goto, Call
  <2> QED BY <2>1, <2>2, <2>3, <2>4 DEF TypeOK
<1>5. CASE ArmCheck
  <2>1. ControlOK'
    <3>1. arg' \in [source : Sources, pid : Pids \cup {NoPid}]
      BY <1>5 DEF ArmCheck, NoArg, TypeOK, ControlOK, Sources
    <3>2. CASE Call("main", "settle", "run")
      BY <3>1, <3>2, ThreadKinds, CallOK DEF TypeOK, Labels, SharedLabels, Returns
    <3>3. CASE Goto("main", "drop_arm") \/ Goto("main", "arm_go")
      BY <3>1, <3>3, ThreadKinds, GotoOK DEF TypeOK, Labels, MainLabels
    <3> QED BY <1>5, <3>2, <3>3 DEF ArmCheck
  <2>2. EpisodeOK'
    BY <1>5 DEF ArmCheck, ControlOK, TypeOK, EpisodeOK
  <2>3. ExtOK' /\ YieldOK' /\ PollOK'
    BY <1>5 DEF ArmCheck, TypeOK, ExtOK, YieldOK, PollOK
  <2>4. SessionOK'
    BY <1>5, ThreadKinds DEF ArmCheck, TypeOK, ControlOK, SessionOK, Goto, Call
  <2> QED BY <2>1, <2>2, <2>3, <2>4 DEF TypeOK
<1>6. CASE ArmGo
  <2>1. ControlOK'
    <3>1. CASE Call("main", "settle", "unwind")
      BY <1>6, <3>1, ThreadKinds, CallOK DEF ArmGo, TypeOK, ControlOK, Labels, SharedLabels, Returns
    <3>2. CASE \E l \in Loader : pc' = [pc EXCEPT !["main"] = "run", ![l] = "mount"] /\ UNCHANGED ret
      BY <1>6, <3>2, ThreadKinds DEF ArmGo, TypeOK, ControlOK, AllLabels, Labels, SharedLabels, MainLabels, PollLabels, LoaderLabels
    <3> QED BY <1>6, <3>1, <3>2 DEF ArmGo
  <2>2. ExtOK'
    BY <1>6, SpendOK DEF ArmGo, EnvEvents, TypeOK, ExtOK
  <2>3. EpisodeOK'
    BY <1>6 DEF ArmGo, States, TypeOK, EpisodeOK
  <2>4. YieldOK' /\ PollOK'
    BY <1>6 DEF ArmGo, TypeOK, YieldOK, PollOK
  <2>5. SessionOK'
    BY <1>6, ThreadKinds DEF ArmGo, TypeOK, ControlOK, SessionOK, Call
  <2> QED BY <2>1, <2>2, <2>3, <2>4, <2>5 DEF TypeOK
<1>7. CASE Unwind
  <2>1. ControlOK'
    BY <1>7, ThreadKinds, GotoOK, CallOK, RetOK DEF Unwind, TypeOK, ControlOK, Labels, SharedLabels, MainLabels, PollLabels, LoaderLabels, Home, Returns
  <2>2. EpisodeOK'
    BY <1>7 DEF Unwind, Sources, TypeOK, EpisodeOK
  <2>3. ExtOK' /\ YieldOK' /\ PollOK'
    BY <1>7 DEF Unwind, TypeOK, ExtOK, YieldOK, PollOK
  <2>4. SessionOK'
    BY <1>7, ThreadKinds DEF Unwind, TypeOK, ControlOK, SessionOK, Goto, Call
  <2> QED BY <2>1, <2>2, <2>3, <2>4 DEF TypeOK
<1>8. CASE Disarm
  <2>1. ControlOK'
    BY <1>8, ThreadKinds, GotoOK, RetOK DEF Disarm, Disarmed, TypeOK, ControlOK, Labels, SharedLabels, MainLabels, PollLabels, LoaderLabels
  <2>2. EpisodeOK'
    BY <1>8 DEF Disarm, Disarmed, States, TypeOK, EpisodeOK
  <2>3. ExtOK' /\ YieldOK' /\ PollOK'
    BY <1>8 DEF Disarm, Disarmed, TypeOK, ExtOK, YieldOK, PollOK
  <2>4. SessionOK'
    BY <1>8, ThreadKinds DEF Disarm, Disarmed, TypeOK, ControlOK, SessionOK, Goto, Call
  <2> QED BY <2>1, <2>2, <2>3, <2>4 DEF TypeOK
<1>9. CASE YieldBegin
  <2>1. ControlOK'
    BY <1>9, ThreadKinds, GotoOK, RetOK DEF YieldBegin, Deliver, TypeOK, ControlOK, Labels, SharedLabels, MainLabels, PollLabels, LoaderLabels
  <2>2. ExtOK'
    BY <1>9, NotesOK DEF YieldBegin, Deliver, Notes, TypeOK, ExtOK
  <2>3. YieldOK'
    BY <1>9 DEF YieldBegin, Deliver, TypeOK, YieldOK
  <2>4. EpisodeOK' /\ PollOK'
    BY <1>9 DEF YieldBegin, Deliver, TypeOK, EpisodeOK, PollOK
  <2>5. SessionOK'
    BY <1>9, ThreadKinds DEF YieldBegin, Deliver, TypeOK, ControlOK, SessionOK, Goto, Call
  <2> QED BY <2>1, <2>2, <2>3, <2>4, <2>5 DEF TypeOK
<1>10. CASE YieldEnd
  <2>1. ControlOK'
    BY <1>10, ThreadKinds, GotoOK, CallOK, RetOK DEF YieldEnd, Deliver, TypeOK, ControlOK, Labels, SharedLabels, MainLabels, PollLabels, LoaderLabels, Home, Returns
  <2>2. ExtOK'
    BY <1>10, NotesOK DEF YieldEnd, Deliver, Notes, TypeOK, ExtOK
  <2>3. YieldOK'
    BY <1>10 DEF YieldEnd, Deliver, TypeOK, YieldOK
  <2>4. EpisodeOK' /\ PollOK'
    BY <1>10 DEF YieldEnd, Deliver, TypeOK, EpisodeOK, PollOK
  <2>5. SessionOK'
    BY <1>10, ThreadKinds DEF YieldEnd, Deliver, TypeOK, ControlOK, SessionOK, Goto, Call
  <2> QED BY <2>1, <2>2, <2>3, <2>4, <2>5 DEF TypeOK
<1>11. CASE SetScanning
  <2>1. ControlOK'
    BY <1>11, StayOK DEF SetScanning, TypeOK
  <2>2. ExtOK'
    BY <1>11, SpendOK DEF SetScanning, EnvEvents, TypeOK, ExtOK
  <2>3. EpisodeOK' /\ YieldOK' /\ PollOK'
    BY <1>11 DEF SetScanning, TypeOK, EpisodeOK, YieldOK, PollOK
  <2>4. SessionOK'
    BY <1>11 DEF SetScanning, TypeOK, SessionOK
  <2> QED BY <2>1, <2>2, <2>3, <2>4 DEF TypeOK
<1>12. CASE SetLockswipe
  <2>1. ControlOK'
    BY <1>12, ThreadKinds, GotoOK, CallOK, RetOK DEF SetLockswipe, TypeOK, ControlOK, Labels, SharedLabels, MainLabels, PollLabels, LoaderLabels, Home, Returns
  <2>2. ExtOK'
    BY <1>12, SpendOK DEF SetLockswipe, EnvEvents, TypeOK, ExtOK
  <2>3. EpisodeOK' /\ YieldOK' /\ PollOK'
    BY <1>12 DEF SetLockswipe, TypeOK, EpisodeOK, YieldOK, PollOK
  <2>4. SessionOK'
    BY <1>12, ThreadKinds DEF SetLockswipe, TypeOK, ControlOK, SessionOK, Goto, Call
  <2> QED BY <2>1, <2>2, <2>3, <2>4 DEF TypeOK
<1> QED BY <1>1, <1>2, <1>3, <1>4, <1>5, <1>6, <1>7, <1>8, <1>9, <1>10, <1>11, <1>12, SharedTypes DEF MainStep, MainEvent, MainRequest

\* The polling thread's own steps.
LEMMA PollTypes ==
  ASSUME TypeOK, PollStep \/ PTouch
  PROVE  TypeOK'
<1> USE DEF extVars, confVars, epVars, loadVars, watchVars, yieldVars, pollVars
<1>1. CASE PTop
  <2>1. ControlOK'
    BY <1>1, ThreadKinds, GotoOK, RetOK DEF PTop, PollFrame, MayAck, TypeOK, ControlOK, Labels, SharedLabels, MainLabels, PollLabels, LoaderLabels
  <2>2. ExtOK'
    BY <1>1 DEF PTop, PollFrame, MayAck, TypeOK, ExtOK
  <2>3. YieldOK'
    BY <1>1 DEF PTop, PollFrame, MayAck, TypeOK, YieldOK
  <2>4. PollOK'
    BY <1>1 DEF PTop, PollFrame, MayAck, EpisodeOK, TypeOK, PollOK
  <2>5. EpisodeOK'
    BY <1>1 DEF PTop, PollFrame, MayAck, TypeOK, EpisodeOK
  <2>6. SessionOK'
    BY <1>1, ThreadKinds DEF PTop, PollFrame, MayAck, TypeOK, ControlOK, SessionOK, Goto, Call
  <2> QED BY <2>1, <2>2, <2>3, <2>4, <2>5, <2>6 DEF TypeOK
<1>2. CASE PWant
  <2>1. ControlOK'
    BY <1>2, ThreadKinds, GotoOK, RetOK DEF PWant, PollFrame, PollLocal, Wanted, SessionLeft, TypeOK, ControlOK, Labels, SharedLabels, MainLabels, PollLabels, LoaderLabels
  <2>2. PollOK'
    <3>1. openFails' \in Nat /\ errors' \in 0..MaxOpenFailures-1
      BY <1>2, AgentAssumption DEF PWant, TypeOK, PollOK
    <3>2. session' \in BOOLEAN
      BY <1>2 DEF PWant, SessionLeft, TypeOK, PollOK
    <3> QED BY <1>2, <3>1, <3>2 DEF PWant, TypeOK, PollOK
  <2>3. ExtOK' /\ EpisodeOK' /\ YieldOK'
    BY <1>2 DEF PWant, PollFrame, PollLocal, Wanted, SessionLeft, TypeOK, ExtOK, EpisodeOK, YieldOK
  <2>4. SessionOK'
    BY <1>2, ThreadKinds DEF PWant, PollFrame, PollLocal, Wanted, SessionLeft, TypeOK, ControlOK, SessionOK, Goto, Call
  <2> QED BY <2>1, <2>2, <2>3, <2>4 DEF TypeOK
<1>3. CASE POpen
  <2>1. ControlOK'
    BY <1>3, ThreadKinds, GotoOK, RetOK DEF POpen, PollFrame, PollLocal, Hopeless, Counted, TypeOK, ControlOK, Labels, SharedLabels, MainLabels, PollLabels, LoaderLabels
  <2>2. PollOK'
    <3>1. openFails' \in Nat
      BY <1>3 DEF POpen, Counted, TypeOK, PollOK
    <3>2. session' \in BOOLEAN
      BY <1>3 DEF POpen, TypeOK, PollOK
    <3> QED BY <1>3, <3>1, <3>2 DEF POpen, TypeOK, PollOK
  <2>3. ExtOK' /\ EpisodeOK' /\ YieldOK'
    BY <1>3 DEF POpen, PollFrame, PollLocal, Hopeless, Counted, TypeOK, ExtOK, EpisodeOK, YieldOK
  <2>4. SessionOK'
    BY <1>3, ThreadKinds DEF POpen, PollFrame, PollLocal, Hopeless, Counted, TypeOK, ControlOK, SessionOK, Goto, Call
  <2> QED BY <2>1, <2>2, <2>3, <2>4 DEF TypeOK
<1>4. CASE PAbort
  <2>1. ControlOK'
    BY <1>4, ThreadKinds, GotoOK, RetOK DEF PAbort, PollFrame, PollLocal, TypeOK, ControlOK, Labels, SharedLabels, MainLabels, PollLabels, LoaderLabels
  <2>2. PollOK'
    BY <1>4 DEF PAbort, PollFrame, PollLocal, TypeOK, PollOK
  <2>3. ExtOK' /\ EpisodeOK' /\ YieldOK'
    BY <1>4 DEF PAbort, PollFrame, PollLocal, TypeOK, ExtOK, EpisodeOK, YieldOK
  <2>4. SessionOK'
    BY <1>4, ThreadKinds DEF PAbort, PollFrame, PollLocal, TypeOK, ControlOK, SessionOK, Goto, Call
  <2> QED BY <2>1, <2>2, <2>3, <2>4 DEF TypeOK
<1>5. CASE PNoFinger
  <2>1. ControlOK'
    BY <1>5, ThreadKinds, GotoOK, RetOK DEF PNoFinger, PollFrame, PollLocal, TypeOK, ControlOK, Labels, SharedLabels, MainLabels, PollLabels, LoaderLabels
  <2>2. PollOK'
    BY <1>5, AgentAssumption DEF PNoFinger, PollFrame, PollLocal, TypeOK, PollOK
  <2>3. ExtOK' /\ EpisodeOK' /\ YieldOK'
    BY <1>5 DEF PNoFinger, PollFrame, PollLocal, TypeOK, ExtOK, EpisodeOK, YieldOK
  <2>4. SessionOK'
    BY <1>5, ThreadKinds DEF PNoFinger, PollFrame, PollLocal, TypeOK, ControlOK, SessionOK, Goto, Call
  <2> QED BY <2>1, <2>2, <2>3, <2>4 DEF TypeOK
<1>6. CASE PError
  <2>1. ControlOK'
    BY <1>6, ThreadKinds, GotoOK, RetOK DEF PError, PollFrame, PollLocal, Hopeless, Streak, TypeOK, ControlOK, Labels, SharedLabels, MainLabels, PollLabels, LoaderLabels
  <2>2. PollOK'
    <3>1. errors' \in 0..MaxOpenFailures-1
      BY <1>6, ModRange, AgentAssumption DEF PError, Streak, TypeOK, PollOK
    <3> QED BY <1>6, <3>1 DEF PError, TypeOK, PollOK
  <2>3. ExtOK' /\ EpisodeOK' /\ YieldOK'
    BY <1>6 DEF PError, PollFrame, PollLocal, Hopeless, Streak, TypeOK, ExtOK, EpisodeOK, YieldOK
  <2>4. SessionOK'
    BY <1>6, ThreadKinds DEF PError, PollFrame, PollLocal, Hopeless, Streak, TypeOK, ControlOK, SessionOK, Goto, Call
  <2> QED BY <2>1, <2>2, <2>3, <2>4 DEF TypeOK
<1>7. CASE PTouch
  <2>1. ControlOK'
    BY <1>7, ThreadKinds, GotoOK, RetOK DEF PTouch, PollFrame, PollLocal, TypeOK, ControlOK, Labels, SharedLabels, MainLabels, PollLabels, LoaderLabels
  <2>2. ExtOK'
    BY <1>7, SpendOK DEF PTouch, PollFrame, PollLocal, EnvEvents, TypeOK, ExtOK
  <2>3. PollOK'
    BY <1>7, AgentAssumption DEF PTouch, PollFrame, PollLocal, TypeOK, PollOK
  <2>4. EpisodeOK' /\ YieldOK'
    BY <1>7 DEF PTouch, PollFrame, PollLocal, TypeOK, EpisodeOK, YieldOK
  <2>5. SessionOK'
    BY <1>7, ThreadKinds DEF PTouch, PollFrame, PollLocal, TypeOK, ControlOK, SessionOK, Goto, Call
  <2> QED BY <2>1, <2>2, <2>3, <2>4, <2>5 DEF TypeOK
<1>8. CASE PPause
  <2>1. ControlOK'
    BY <1>8, ThreadKinds, GotoOK, RetOK DEF PPause, PollFrame, Disarmed, TypeOK, ControlOK, Labels, SharedLabels, MainLabels, PollLabels, LoaderLabels
  <2>2. EpisodeOK'
    BY <1>8 DEF PPause, PollFrame, Disarmed, States, TypeOK, EpisodeOK
  <2>3. ExtOK' /\ YieldOK' /\ PollOK'
    BY <1>8 DEF PPause, PollFrame, Disarmed, TypeOK, ExtOK, YieldOK, PollOK
  <2>4. SessionOK'
    BY <1>8, ThreadKinds DEF PPause, PollFrame, Disarmed, TypeOK, ControlOK, SessionOK, Goto, Call
  <2> QED BY <2>1, <2>2, <2>3, <2>4 DEF TypeOK
<1>9. CASE PTouchLock
  <2>1. ControlOK'
    BY <1>9, ThreadKinds, GotoOK, RetOK DEF PTouchLock, PollFrame, TypeOK, ControlOK, Labels, SharedLabels, MainLabels, PollLabels, LoaderLabels
  <2>2. EpisodeOK'
    BY <1>9 DEF PTouchLock, PollFrame, States, TypeOK, EpisodeOK
  <2>3. ExtOK' /\ YieldOK' /\ PollOK'
    BY <1>9 DEF PTouchLock, PollFrame, TypeOK, ExtOK, YieldOK, PollOK
  <2>4. SessionOK'
    BY <1>9, ThreadKinds DEF PTouchLock, PollFrame, TypeOK, ControlOK, SessionOK, Goto, Call
  <2> QED BY <2>1, <2>2, <2>3, <2>4 DEF TypeOK
<1>10. CASE PLockKey
  <2>1. ControlOK'
    BY <1>10, ThreadKinds, GotoOK, RetOK DEF PLockKey, PollFrame, TypeOK, ControlOK, Labels, SharedLabels, MainLabels, PollLabels, LoaderLabels
  <2>2. ExtOK'
    BY <1>10, NotesOK DEF PLockKey, PollFrame, Notes, TypeOK, ExtOK
  <2>3. EpisodeOK' /\ YieldOK' /\ PollOK'
    BY <1>10 DEF PLockKey, PollFrame, TypeOK, EpisodeOK, YieldOK, PollOK
  <2>4. SessionOK'
    BY <1>10, ThreadKinds DEF PLockKey, PollFrame, TypeOK, ControlOK, SessionOK, Goto, Call
  <2> QED BY <2>1, <2>2, <2>3, <2>4 DEF TypeOK
<1>11. CASE PLockCheck
  <2>1. ControlOK'
    BY <1>11, ThreadKinds, GotoOK, RetOK DEF PLockCheck, Moves, TypeOK, ControlOK, Labels, SharedLabels, MainLabels, PollLabels, LoaderLabels
  <2>2. ExtOK' /\ EpisodeOK' /\ YieldOK' /\ PollOK'
    BY <1>11 DEF PLockCheck, Moves, TypeOK, ExtOK, EpisodeOK, YieldOK, PollOK
  <2>3. SessionOK'
    BY <1>11, ThreadKinds DEF PLockCheck, Moves, TypeOK, ControlOK, SessionOK, Goto, Call
  <2> QED BY <2>1, <2>2, <2>3 DEF TypeOK
<1>12. CASE PHeld
  <2>1. ControlOK'
    BY <1>12, ThreadKinds, GotoOK, RetOK DEF PHeld, PollFrame, PollLocal, TypeOK, ControlOK, Labels, SharedLabels, MainLabels, PollLabels, LoaderLabels
  <2>2. PollOK'
    BY <1>12 DEF PHeld, PollFrame, PollLocal, EpisodeOK, TypeOK, PollOK
  <2>3. ExtOK' /\ EpisodeOK' /\ YieldOK'
    BY <1>12 DEF PHeld, PollFrame, PollLocal, TypeOK, ExtOK, EpisodeOK, YieldOK
  <2>4. SessionOK'
    BY <1>12, ThreadKinds DEF PHeld, PollFrame, PollLocal, TypeOK, ControlOK, SessionOK, Goto, Call
  <2> QED BY <2>1, <2>2, <2>3, <2>4 DEF TypeOK
<1>13. CASE PMatched
  <2>1. ControlOK'
    BY <1>13, ThreadKinds, GotoOK, RetOK DEF PMatched, Moves, TypeOK, ControlOK, Labels, SharedLabels, MainLabels, PollLabels, LoaderLabels
  <2>2. ExtOK' /\ EpisodeOK' /\ YieldOK' /\ PollOK'
    BY <1>13 DEF PMatched, Moves, TypeOK, ExtOK, EpisodeOK, YieldOK, PollOK
  <2>3. SessionOK'
    BY <1>13, ThreadKinds DEF PMatched, Moves, TypeOK, ControlOK, SessionOK, Goto, Call
  <2> QED BY <2>1, <2>2, <2>3 DEF TypeOK
<1>14. CASE PSettleWait
  <2>1. ControlOK'
    BY <1>14, ThreadKinds, GotoOK, RetOK DEF PSettleWait, Moves, TypeOK, ControlOK, Labels, SharedLabels, MainLabels, PollLabels, LoaderLabels
  <2>2. ExtOK' /\ EpisodeOK' /\ YieldOK' /\ PollOK'
    BY <1>14 DEF PSettleWait, Moves, TypeOK, ExtOK, EpisodeOK, YieldOK, PollOK
  <2>3. SessionOK'
    BY <1>14, ThreadKinds DEF PSettleWait, Moves, TypeOK, ControlOK, SessionOK, Goto, Call
  <2> QED BY <2>1, <2>2, <2>3 DEF TypeOK
<1>15. CASE PType
  <2>1. ControlOK'
    BY <1>15, ThreadKinds, GotoOK, RetOK DEF PType, Moves, TypeOK, ControlOK, Labels, SharedLabels, MainLabels, PollLabels, LoaderLabels
  <2>2. ExtOK' /\ EpisodeOK' /\ YieldOK' /\ PollOK'
    BY <1>15 DEF PType, Moves, TypeOK, ExtOK, EpisodeOK, YieldOK, PollOK
  <2>3. SessionOK'
    BY <1>15, ThreadKinds DEF PType, Moves, TypeOK, ControlOK, SessionOK, Goto, Call
  <2> QED BY <2>1, <2>2, <2>3 DEF TypeOK
<1>16. CASE PEndMatch
  <2>1. ControlOK'
    BY <1>16, ThreadKinds, GotoOK, RetOK DEF PEndMatch, PollFrame, TypeOK, ControlOK, Labels, SharedLabels, MainLabels, PollLabels, LoaderLabels
  <2>2. EpisodeOK'
    BY <1>16 DEF PEndMatch, PollFrame, Sources, TypeOK, EpisodeOK
  <2>3. ExtOK' /\ YieldOK' /\ PollOK'
    BY <1>16 DEF PEndMatch, PollFrame, TypeOK, ExtOK, YieldOK, PollOK
  <2>4. SessionOK'
    BY <1>16, ThreadKinds DEF PEndMatch, PollFrame, TypeOK, ControlOK, SessionOK, Goto, Call
  <2> QED BY <2>1, <2>2, <2>3, <2>4 DEF TypeOK
<1>17. CASE PRejected
  <2>1. ControlOK'
    BY <1>17, ThreadKinds, GotoOK, RetOK DEF PRejected, PollFrame, OutOfTouches, TypeOK, ControlOK, Labels, SharedLabels, MainLabels, PollLabels, LoaderLabels
  <2>2. EpisodeOK'
    BY <1>17 DEF PRejected, PollFrame, OutOfTouches, TypeOK, EpisodeOK
  <2>3. ExtOK' /\ YieldOK' /\ PollOK'
    BY <1>17 DEF PRejected, PollFrame, OutOfTouches, TypeOK, ExtOK, YieldOK, PollOK
  <2>4. SessionOK'
    BY <1>17, ThreadKinds DEF PRejected, PollFrame, OutOfTouches, TypeOK, ControlOK, SessionOK, Goto, Call
  <2> QED BY <2>1, <2>2, <2>3, <2>4 DEF TypeOK
<1>18. CASE PGiveUp
  <2>1. ControlOK'
    BY <1>18, ThreadKinds, GotoOK, RetOK DEF PGiveUp, PollFrame, TypeOK, ControlOK, Labels, SharedLabels, MainLabels, PollLabels, LoaderLabels
  <2>2. EpisodeOK'
    BY <1>18 DEF PGiveUp, PollFrame, Sources, TypeOK, EpisodeOK
  <2>3. ExtOK' /\ YieldOK' /\ PollOK'
    BY <1>18 DEF PGiveUp, PollFrame, TypeOK, ExtOK, YieldOK, PollOK
  <2>4. SessionOK'
    BY <1>18, ThreadKinds DEF PGiveUp, PollFrame, TypeOK, ControlOK, SessionOK, Goto, Call
  <2> QED BY <2>1, <2>2, <2>3, <2>4 DEF TypeOK
<1> QED BY <1>1, <1>2, <1>3, <1>4, <1>5, <1>6, <1>7, <1>8, <1>9, <1>10, <1>11, <1>12, <1>13, <1>14, <1>15, <1>16, <1>17, <1>18, SharedTypes DEF PollStep

\* The loader threads' steps.
LEMMA LoaderTypes ==
  ASSUME TypeOK, NEW l \in Loader, LoaderStep(l)
  PROVE  TypeOK'
<1> USE DEF extVars, confVars, epVars, loadVars, watchVars, yieldVars, pollVars
<1>1. CASE LMount(l)
  <2>1. ControlOK'
    BY <1>1, ThreadKinds, GotoOK, RetOK DEF LMount, LoadFrame, TypeOK, ControlOK, Labels, SharedLabels, MainLabels, PollLabels, LoaderLabels
  <2>2. ExtOK'
    BY <1>1, SpendOK DEF LMount, LoadFrame, EnvEvents, TypeOK, ExtOK
  <2>3. EpisodeOK'
    BY <1>1 DEF LMount, LoadFrame, TypeOK, EpisodeOK
  <2>4. YieldOK' /\ PollOK'
    BY <1>1 DEF LMount, LoadFrame, TypeOK, YieldOK, PollOK
  <2>5. SessionOK'
    BY <1>1, ThreadKinds DEF LMount, LoadFrame, TypeOK, ControlOK, SessionOK, Goto, Call
  <2> QED BY <2>1, <2>2, <2>3, <2>4, <2>5 DEF TypeOK
<1>2. CASE LRead(l)
  <2>1. ControlOK'
    BY <1>2, ThreadKinds, GotoOK, RetOK DEF LRead, LoadFrame, TypeOK, ControlOK, Labels, SharedLabels, MainLabels, PollLabels, LoaderLabels
  <2>2. EpisodeOK'
    BY <1>2, AgentAssumption DEF LRead, LoadFrame, TypeOK, EpisodeOK
  <2>3. ExtOK' /\ YieldOK' /\ PollOK'
    BY <1>2 DEF LRead, LoadFrame, TypeOK, ExtOK, YieldOK, PollOK
  <2>4. SessionOK'
    BY <1>2, ThreadKinds DEF LRead, LoadFrame, TypeOK, ControlOK, SessionOK, Goto, Call
  <2> QED BY <2>1, <2>2, <2>3, <2>4 DEF TypeOK
<1>3. CASE LUnmount(l)
  <2>1. ControlOK'
    BY <1>3, ThreadKinds, GotoOK, RetOK DEF LUnmount, LoadFrame, TypeOK, ControlOK, Labels, SharedLabels, MainLabels, PollLabels, LoaderLabels
  <2>2. EpisodeOK'
    BY <1>3 DEF LUnmount, LoadFrame, TypeOK, EpisodeOK
  <2>3. ExtOK' /\ YieldOK' /\ PollOK'
    BY <1>3 DEF LUnmount, LoadFrame, TypeOK, ExtOK, YieldOK, PollOK
  <2>4. SessionOK'
    BY <1>3, ThreadKinds DEF LUnmount, LoadFrame, TypeOK, ControlOK, SessionOK, Goto, Call
  <2> QED BY <2>1, <2>2, <2>3, <2>4 DEF TypeOK
<1> QED BY <1>1, <1>2, <1>3 DEF LoaderStep

\* The environment's steps.
LEMMA EnvTypes ==
  ASSUME TypeOK, EnvStep
  PROVE  TypeOK'
<1> USE DEF extVars, confVars, epVars, loadVars, watchVars, yieldVars, pollVars
<1>1. CASE LockScreen
  <2>1. ControlOK'
    BY <1>1, StayOK DEF LockScreen, EnvFrame, TypeOK
  <2>2. ExtOK'
    BY <1>1, NotesOK, SpendOK DEF LockScreen, EnvFrame, Notes, EnvEvents, TypeOK, ExtOK
  <2>3. EpisodeOK' /\ YieldOK' /\ PollOK'
    BY <1>1 DEF LockScreen, EnvFrame, TypeOK, EpisodeOK, YieldOK, PollOK
  <2>4. SessionOK'
    BY <1>1 DEF LockScreen, EnvFrame, TypeOK, SessionOK
  <2> QED BY <2>1, <2>2, <2>3, <2>4 DEF TypeOK
<1>2. CASE UnlockScreen
  <2>1. ControlOK'
    BY <1>2, StayOK DEF UnlockScreen, EnvFrame, TypeOK
  <2>2. ExtOK'
    BY <1>2, NotesOK, SpendOK DEF UnlockScreen, EnvFrame, Notes, EnvEvents, TypeOK, ExtOK
  <2>3. EpisodeOK' /\ YieldOK' /\ PollOK'
    BY <1>2 DEF UnlockScreen, EnvFrame, TypeOK, EpisodeOK, YieldOK, PollOK
  <2>4. SessionOK'
    BY <1>2 DEF UnlockScreen, EnvFrame, TypeOK, SessionOK
  <2> QED BY <2>1, <2>2, <2>3, <2>4 DEF TypeOK
<1>3. CASE Plug
  <2>1. ControlOK'
    BY <1>3, StayOK DEF Plug, EnvFrame, TypeOK
  <2>2. ExtOK'
    BY <1>3, SpendOK DEF Plug, EnvFrame, EnvEvents, TypeOK, ExtOK
  <2>3. EpisodeOK' /\ YieldOK' /\ PollOK'
    BY <1>3 DEF Plug, EnvFrame, TypeOK, EpisodeOK, YieldOK, PollOK
  <2>4. SessionOK'
    BY <1>3 DEF Plug, EnvFrame, TypeOK, SessionOK
  <2> QED BY <2>1, <2>2, <2>3, <2>4 DEF TypeOK
<1>4. CASE ClientBegin
  <2>1. ControlOK'
    BY <1>4, StayOK DEF ClientBegin, EnvFrame, ClientFrame, TypeOK
  <2>2. ExtOK'
    BY <1>4, NotesOK, SpendOK DEF ClientBegin, EnvFrame, ClientFrame, Notes, EnvEvents, TypeOK, ExtOK
  <2>3. EpisodeOK' /\ YieldOK' /\ PollOK'
    BY <1>4 DEF ClientBegin, EnvFrame, ClientFrame, TypeOK, EpisodeOK, YieldOK, PollOK
  <2>4. SessionOK'
    BY <1>4 DEF ClientBegin, EnvFrame, ClientFrame, TypeOK, SessionOK
  <2> QED BY <2>1, <2>2, <2>3, <2>4 DEF TypeOK
<1>5. CASE ClientTimeout
  <2>1. ControlOK'
    BY <1>5, StayOK DEF ClientTimeout, EnvFrame, ClientFrame, TypeOK
  <2>2. ExtOK'
    BY <1>5 DEF ClientTimeout, EnvFrame, ClientFrame, TypeOK, ExtOK
  <2>3. EpisodeOK' /\ YieldOK' /\ PollOK'
    BY <1>5 DEF ClientTimeout, EnvFrame, ClientFrame, TypeOK, EpisodeOK, YieldOK, PollOK
  <2>4. SessionOK'
    BY <1>5 DEF ClientTimeout, EnvFrame, ClientFrame, TypeOK, SessionOK
  <2> QED BY <2>1, <2>2, <2>3, <2>4 DEF TypeOK
<1>6. CASE ClientDone
  <2>1. ControlOK'
    BY <1>6, StayOK DEF ClientDone, EnvFrame, ClientFrame, TypeOK
  <2>2. ExtOK'
    BY <1>6, NotesOK DEF ClientDone, EnvFrame, ClientFrame, Notes, TypeOK, ExtOK
  <2>3. EpisodeOK' /\ YieldOK' /\ PollOK'
    BY <1>6 DEF ClientDone, EnvFrame, ClientFrame, TypeOK, EpisodeOK, YieldOK, PollOK
  <2>4. SessionOK'
    BY <1>6 DEF ClientDone, EnvFrame, ClientFrame, TypeOK, SessionOK
  <2> QED BY <2>1, <2>2, <2>3, <2>4 DEF TypeOK
<1>7. CASE ClientCrash
  <2>1. ControlOK'
    BY <1>7, StayOK DEF ClientCrash, EnvFrame, ClientFrame, TypeOK
  <2>2. ExtOK'
    BY <1>7, SpendOK DEF ClientCrash, EnvFrame, ClientFrame, EnvEvents, TypeOK, ExtOK
  <2>3. EpisodeOK' /\ YieldOK' /\ PollOK'
    BY <1>7 DEF ClientCrash, EnvFrame, ClientFrame, TypeOK, EpisodeOK, YieldOK, PollOK
  <2>4. SessionOK'
    BY <1>7 DEF ClientCrash, EnvFrame, ClientFrame, TypeOK, SessionOK
  <2> QED BY <2>1, <2>2, <2>3, <2>4 DEF TypeOK
<1>8. CASE YieldExpires
  <2>1. ControlOK'
    BY <1>8, StayOK DEF YieldExpires, EnvFrame, TypeOK
  <2>2. YieldOK'
    BY <1>8 DEF YieldExpires, EnvFrame, TypeOK, YieldOK
  <2>3. ExtOK' /\ EpisodeOK' /\ PollOK'
    BY <1>8 DEF YieldExpires, EnvFrame, TypeOK, ExtOK, EpisodeOK, PollOK
  <2>4. SessionOK'
    BY <1>8 DEF YieldExpires, EnvFrame, TypeOK, SessionOK
  <2> QED BY <2>1, <2>2, <2>3, <2>4 DEF TypeOK
<1>9. CASE GraceEnds
  <2>1. ControlOK'
    BY <1>9, StayOK DEF GraceEnds, EnvFrame, TypeOK
  <2>2. EpisodeOK'
    BY <1>9 DEF GraceEnds, EnvFrame, TypeOK, EpisodeOK
  <2>3. ExtOK' /\ YieldOK' /\ PollOK'
    BY <1>9 DEF GraceEnds, EnvFrame, TypeOK, ExtOK, YieldOK, PollOK
  <2>4. SessionOK'
    BY <1>9 DEF GraceEnds, EnvFrame, TypeOK, SessionOK
  <2> QED BY <2>1, <2>2, <2>3, <2>4 DEF TypeOK
<1>10. CASE \E p \in Pids \cup {NoPid} : PromptChange(p)
  <2>1. ControlOK'
    BY <1>10, StayOK DEF PromptChange, EnvFrame, TypeOK
  <2>2. ExtOK'
    BY <1>10, SpendOK DEF PromptChange, EnvFrame, EnvEvents, TypeOK, ExtOK
  <2>3. EpisodeOK' /\ YieldOK' /\ PollOK'
    BY <1>10 DEF PromptChange, EnvFrame, TypeOK, EpisodeOK, YieldOK, PollOK
  <2>4. SessionOK'
    BY <1>10 DEF PromptChange, EnvFrame, TypeOK, SessionOK
  <2> QED BY <2>1, <2>2, <2>3, <2>4 DEF TypeOK
<1> QED BY <1>1, <1>2, <1>3, <1>4, <1>5, <1>6, <1>7, <1>8, <1>9, <1>10 DEF EnvStep

\* A step that changes nothing.
LEMMA StutterTypes == ASSUME TypeOK, UNCHANGED vars PROVE TypeOK'
BY DEF vars, extVars, confVars, epVars, loadVars, watchVars, yieldVars, pollVars,
   TypeOK, ExtOK, EpisodeOK, YieldOK, ControlOK, PollOK, SessionOK

\* Type correctness: whatever the threads, the user, the bus and the client do, every
\* thread of the agent stays on its own control points, every global keeps its type, and
\* the polling thread waits for a finger only on an open session and opens one only when
\* it has none.
THEOREM TypeCorrect == Spec => []TypeOK
<1>1. TypeOK /\ [Next]_vars => TypeOK'
  BY MainTypes, PollTypes, LoaderTypes, EnvTypes, StutterTypes DEF Next
<1> QED BY <1>1, InitTypes, PTL DEF Spec

-----------------------------------------------------------------------------
(* The safety properties, each from the type invariant and what makes it    *)
(* inductive.                                                              *)

OtherStep ==
  \/ MainStep \/ MainEvent \/ MainRequest \/ Tick
  \/ (\E l \in Loader : LoaderStep(l))
  \/ EnvStep

\* Only the polling thread moves the polling thread and its locals, opens or closes the
\* session; the other threads confirm no yield, and one that begins is unconfirmed.
LEMMA OthersLeavePoll ==
  ASSUME TypeOK, OtherStep
  PROVE  /\ pc'["poll"] = pc["poll"] /\ UNCHANGED <<st, session>>
         /\ acked' /\ yielded' /\ ~expired' => acked /\ yielded /\ ~expired
<1> USE DEF extVars, confVars, epVars, loadVars, watchVars, yieldVars, pollVars
<1>0. pc \in [Thread -> AllLabels]
  BY DEF TypeOK, ControlOK
<1> USE <1>0, ThreadKinds DEF Goto, Call
<1>1. CASE Shared("main")
  BY <1>1 DEF Shared, DropYield, TryArm, CasArm, Settle, Moves
<1>2. CASE Watch \/ ArmCheck \/ Unwind \/ Disarm
  BY <1>2 DEF Watch, ArmCheck, Unwind, Disarm
<1>3. CASE ArmGo
  BY <1>3 DEF ArmGo
<1>4. CASE OnScreenLocked \/ OnScreenUnlocked \/ YieldBegin \/ YieldEnd
  BY <1>4 DEF OnScreenLocked, OnScreenUnlocked, YieldBegin, YieldEnd, Deliver
<1>5. CASE SetScanning
  BY <1>5 DEF SetScanning
<1>6. CASE SetLockswipe
  <2>1. \E l \in {"try_arm", "disarm"} : pc' = [pc EXCEPT !["main"] = l]
    BY <1>6 DEF SetLockswipe
  <2>2. UNCHANGED <<st, session, acked, yielded, expired>>
    BY <1>6 DEF SetLockswipe
  <2> QED BY <2>1, <2>2
<1>7. CASE \E l \in Loader : LoaderStep(l)
  <2>1. PICK l \in Loader : LoaderStep(l)
    BY <1>7
  <2>2. \E r \in {"read", "off", "unmount"} : pc' = [pc EXCEPT ![l] = r]
    BY <2>1 DEF LoaderStep, LMount, LRead, LUnmount
  <2>3. UNCHANGED <<st, session, acked, yielded, expired>>
    BY <2>1 DEF LoaderStep, LMount, LRead, LUnmount, LoadFrame
  <2> QED BY <2>2, <2>3
<1>8. CASE EnvStep
  BY <1>8 DEF EnvStep, LockScreen, UnlockScreen, PromptChange, Plug, ClientBegin, ClientTimeout,
              ClientDone, ClientCrash, YieldExpires, GraceEnds, ClientFrame, EnvFrame
<1>9. CASE Tick
  <2>1. pc'["poll"] = pc["poll"]
    <3>1. \/ UNCHANGED pc
          \/ \E l \in {"try_arm", "run", "watch"} : pc' = [pc EXCEPT !["main"] = l]
      BY <1>9 DEF Tick
    <3> QED BY <3>1
  <2> QED BY <1>9, <2>1 DEF Tick
<1> QED BY <1>1, <1>2, <1>3, <1>4, <1>5, <1>6, <1>7, <1>8, <1>9
        DEF OtherStep, MainStep, MainEvent, MainRequest

-----------------------------------------------------------------------------
(* A confirmed yield leaves the sensor to the client.                      *)

\* A step of the polling thread.
LEMMA YieldPoll ==
  ASSUME TypeOK, YieldedSensorFree, PollStep \/ PTouch
  PROVE  YieldedSensorFree'
<1> USE DEF extVars, confVars, epVars, loadVars, watchVars, yieldVars, pollVars
<1>0. /\ pc \in [Thread -> AllLabels] /\ "poll" \in Thread
      /\ ret["poll"] = "top" /\ pc["poll"] \in Labels("poll") /\ SessionOK
  BY ThreadKinds DEF TypeOK, ControlOK, Returns, Home
<1> USE <1>0 DEF Goto, Call, YieldedSensorFree
<1>1. CASE Shared("poll")
  BY <1>1 DEF Shared, DropYield, Drops, TryArm, CasArm, Settle, Moves
<1>2. CASE PTop
  BY <1>2 DEF PTop, MayAck, PollFrame
<1>3. CASE PWant
  BY <1>3 DEF PWant, YieldOver, Wanted, SessionLeft, PollLocal, PollFrame
<1>4. CASE POpen
  BY <1>4 DEF POpen, PollLocal, PollFrame
<1>5. CASE PAbort \/ PNoFinger \/ PError \/ PTouch
  BY <1>5 DEF PAbort, PNoFinger, PError, PTouch, Hopeless, SessionOK, PollLocal, PollFrame
<1>6. CASE PPause \/ PTouchLock \/ PLockKey \/ PLockCheck
  BY <1>6 DEF PPause, PTouchLock, PLockKey, PLockCheck, Moves, PollFrame
<1>7. CASE PHeld \/ PMatched \/ PSettleWait \/ PType
  BY <1>7 DEF PHeld, PMatched, PSettleWait, PType, Moves, PollLocal, PollFrame
<1>8. CASE PEndMatch \/ PRejected \/ PGiveUp
  BY <1>8 DEF PEndMatch, PRejected, PGiveUp, PollFrame
<1> QED BY <1>1, <1>2, <1>3, <1>4, <1>5, <1>6, <1>7, <1>8 DEF PollStep

\* Once the polling thread has confirmed a yield, the agent neither holds nor opens a
\* session while the yield is in force, whatever the run loop, the user and the bus do.
THEOREM YieldKept == Spec => []YieldedSensorFree
<1>1. Init => YieldedSensorFree
  BY DEF Init, YieldedSensorFree
<1>2. TypeOK /\ YieldedSensorFree /\ [Next]_vars => YieldedSensorFree'
  <2> SUFFICES ASSUME TypeOK, YieldedSensorFree, [Next]_vars PROVE YieldedSensorFree'
    OBVIOUS
  <2>1. CASE OtherStep
    BY <2>1, OthersLeavePoll DEF YieldedSensorFree
  <2>2. CASE UNCHANGED vars
    BY <2>2 DEF vars, yieldVars, pollVars, YieldedSensorFree
  <2> QED BY <2>1, <2>2, YieldPoll DEF Next, OtherStep
<1> QED BY <1>1, <1>2, TypeCorrect, PTL DEF Spec

-----------------------------------------------------------------------------
(* What the polling thread does is for the state it has read.              *)

\* A session is opened and waited on only for a state that wants one, and the match, the
\* count, the end of an episode only follow a wait for an episode.
WaitInv ==
  /\ pc["poll"] \in {"open", "wait", "drop_wait"} => st # "IDLE"
  /\ pc["poll"] \in {"held", "matched", "settle_wait", "type", "end_match", "rejected",
                     "give_up", "settle"} => st = "POLLING"

\* A step of the polling thread.
LEMMA WaitPoll ==
  ASSUME TypeOK, WaitInv, PollStep \/ PTouch
  PROVE  WaitInv'
<1> USE DEF extVars, confVars, epVars, loadVars, watchVars, yieldVars, pollVars
<1>0. /\ pc \in [Thread -> AllLabels] /\ "poll" \in Thread
      /\ ret["poll"] = "top" /\ pc["poll"] \in Labels("poll") /\ st \in States
  BY ThreadKinds DEF TypeOK, ControlOK, PollOK, Returns, Home
<1> USE <1>0 DEF Goto, Call, WaitInv, States
<1>1. CASE Shared("poll")
  BY <1>1 DEF Shared, DropYield, Drops, TryArm, CasArm, Settle, Moves
<1>2. CASE PTop
  BY <1>2 DEF PTop
<1>3. CASE PWant
  BY <1>3 DEF PWant, Wanted
<1>4. CASE POpen
  BY <1>4 DEF POpen, Hopeless
<1>5. CASE PAbort \/ PNoFinger \/ PError \/ PTouch
  BY <1>5 DEF PAbort, PNoFinger, PError, PTouch, Hopeless
<1>6. CASE PPause \/ PTouchLock \/ PLockKey \/ PLockCheck
  BY <1>6 DEF PPause, PTouchLock, PLockKey, PLockCheck, Moves
<1>7. CASE PHeld \/ PMatched \/ PSettleWait \/ PType
  BY <1>7 DEF PHeld, PMatched, PSettleWait, PType, Moves
<1>8. CASE PEndMatch \/ PRejected \/ PGiveUp
  BY <1>8 DEF PEndMatch, PRejected, PGiveUp
<1> QED BY <1>1, <1>2, <1>3, <1>4, <1>5, <1>6, <1>7, <1>8 DEF PollStep

\* WaitInv is inductive: the other threads leave the polling thread alone.
LEMMA WaitStep == TypeOK /\ WaitInv /\ [Next]_vars => WaitInv'
<1> SUFFICES ASSUME TypeOK, WaitInv, [Next]_vars PROVE WaitInv'
  OBVIOUS
<1>1. CASE OtherStep
  BY <1>1, OthersLeavePoll DEF WaitInv
<1>2. CASE UNCHANGED vars
  BY <1>2 DEF vars, pollVars, WaitInv
<1> QED BY <1>1, <1>2, WaitPoll DEF Next, OtherStep

\* The polling thread starts at the top of its loop.
LEMMA WaitInit == Init => WaitInv
BY ThreadKinds DEF Init, WaitInv, Home

-----------------------------------------------------------------------------
(* The compare-and-swaps.                                                  *)

\* An episode ends only through an unlock, through settle_to_idle of the run loop, or
\* through settle_to_idle of a polling iteration that was itself for an episode: what
\* began as a wait for Touch to Lock, and lockswipe_disarm, leave it alone.
THEOREM CasKeepsEpisode == Spec => EpisodeKept
<1> USE DEF extVars, confVars, epVars, loadVars, watchVars, yieldVars, pollVars
<1>1. TypeOK /\ WaitInv /\ [Next]_vars
        => [state = "POLLING" /\ state' # "POLLING" =>
              /\ pc'["poll"] = pc["poll"] \/ (pc["poll"] = "settle" /\ st = "POLLING")
              /\ pc'["main"] = pc["main"] \/ pc["main"] # "disarm"]_vars
  <2> SUFFICES ASSUME TypeOK, WaitInv, Next, state = "POLLING", state' # "POLLING"
               PROVE  /\ pc'["poll"] = pc["poll"] \/ (pc["poll"] = "settle" /\ st = "POLLING")
                      /\ pc'["main"] = pc["main"] \/ pc["main"] # "disarm"
    OBVIOUS
  <2>1. CASE OtherStep
    <3>1. pc'["poll"] = pc["poll"]
      BY <2>1, OthersLeavePoll
    <3>2. ~Disarm
      BY DEF Disarm, Disarmed
    <3>3. CASE MainStep \/ MainEvent \/ MainRequest \/ Tick
      <4>1. pc["main"] # "disarm"
        BY <3>2, <3>3 DEF MainStep, MainEvent, MainRequest, Shared, DropYield, Drops, TryArm, CasArm,
           Settle, Watch, ArmCheck, ArmGo, Unwind, OnScreenLocked, OnScreenUnlocked, YieldBegin,
           YieldEnd, Deliver, SetScanning, SetLockswipe, Tick
      <4> QED BY <3>1, <4>1
    <3>4. CASE \E l \in Loader : LoaderStep(l)
      BY <3>4 DEF LoaderStep, LMount, LRead, LUnmount, LoadFrame
    <3>5. CASE EnvStep
      BY <3>5 DEF EnvStep, LockScreen, UnlockScreen, PromptChange, Plug, ClientBegin, ClientTimeout,
                  ClientDone, ClientCrash, YieldExpires, GraceEnds, ClientFrame, EnvFrame
    <3> QED BY <2>1, <3>3, <3>4, <3>5 DEF OtherStep
  <2>2. CASE PollStep \/ PTouch
    <3>1. Settle("poll")
      <4>1. CASE Shared("poll")
        BY <4>1 DEF Shared, DropYield, TryArm, CasArm, Moves
      <4>2. CASE PTop \/ PWant \/ POpen \/ PAbort \/ PNoFinger \/ PError \/ PTouch
        BY <4>2 DEF PTop, PWant, POpen, PAbort, PNoFinger, PError, PTouch, PollLocal, PollFrame
      <4>3. CASE PPause \/ PTouchLock \/ PLockKey \/ PLockCheck
        BY <4>3 DEF PPause, Disarmed, PTouchLock, PLockKey, PLockCheck, Moves, PollFrame
      <4>4. CASE PHeld \/ PMatched \/ PSettleWait \/ PType \/ PEndMatch \/ PRejected \/ PGiveUp
        BY <4>4 DEF PHeld, PMatched, PSettleWait, PType, PEndMatch, PRejected, PGiveUp, Moves,
                    PollLocal, PollFrame
      <4> QED BY <2>2, <4>1, <4>2, <4>3, <4>4 DEF PollStep
    <3>2. pc["poll"] = "settle" /\ st = "POLLING"
      BY <3>1 DEF Settle, WaitInv
    <3>3. pc'["main"] = pc["main"]
      BY <3>1, ThreadKinds DEF Settle, Goto, TypeOK, ControlOK
    <3> QED BY <3>2, <3>3
  <2> QED BY <2>1, <2>2 DEF Next, OtherStep
<1> QED BY <1>1, WaitInit, WaitStep, TypeCorrect, PTL DEF Spec, EpisodeKept

-----------------------------------------------------------------------------
(* No episode has more than MAX_FAILED_TOUCHES rejected touches.            *)

\* The inductive strengthening of RejectsBounded: g_failed_swipes reaches the limit only
\* on the way to the lockout; while an episode is on, it is no smaller than the number of
\* rejected touches (the lockout's own reset excepted); and an iteration of the polling
\* loop that began for an episode has a touch left to reject, also when the episode has
\* ended since.
RejectsInv ==
  /\ fails <= MaxFailedTouches - 1 \/ (pc["poll"] = "give_up" /\ fails <= MaxFailedTouches)
  /\ state = "POLLING" /\ pc["poll"] \notin {"give_up", "settle"} => rejects <= fails
  /\ pc["poll"] \in {"want", "drop_want", "open", "wait", "drop_wait", "rejected"} /\ st = "POLLING"
       => rejects <= MaxFailedTouches - 1
  /\ rejects <= MaxFailedTouches

\* What the other threads do to the counters: nothing, unless they reset them for a new
\* episode or on an unlock.
LEMMA OthersCount ==
  ASSUME TypeOK, OtherStep
  PROVE  \/ UNCHANGED <<fails, rejects>> /\ (state' = "POLLING" => state = "POLLING")
         \/ fails' = 0 /\ rejects' = 0
         \/ fails' = 0 /\ state' = "IDLE" /\ rejects' = rejects
<1> USE DEF extVars, confVars, epVars, loadVars, watchVars, yieldVars, pollVars
<1>1. CASE Shared("main")
  BY <1>1 DEF Shared, DropYield, TryArm, CasArm, Settle, Moves
<1>2. CASE Watch \/ ArmCheck \/ ArmGo \/ Unwind \/ Disarm
  BY <1>2 DEF Watch, ArmCheck, ArmGo, Unwind, Disarm, Disarmed
<1>3. CASE MainEvent
  BY <1>3 DEF MainEvent, OnScreenLocked, OnScreenUnlocked, EndByUnlock, YieldBegin, YieldEnd, Deliver
<1>4. CASE MainRequest
  BY <1>4 DEF MainRequest, SetScanning, SetLockswipe
<1>5. CASE Tick
  <2>1. EndByUnlock \/ UNCHANGED <<state, epVars>>
    BY <1>5 DEF Tick
  <2> QED BY <2>1 DEF EndByUnlock
<1>6. CASE \E l \in Loader : LoaderStep(l)
  BY <1>6 DEF LoaderStep, LMount, LRead, LUnmount, LoadFrame
<1>7. CASE EnvStep
  BY <1>7 DEF EnvStep, LockScreen, UnlockScreen, PromptChange, Plug, ClientBegin, ClientTimeout,
              ClientDone, ClientCrash, YieldExpires, GraceEnds, ClientFrame, EnvFrame
<1> QED BY <1>1, <1>2, <1>3, <1>4, <1>5, <1>6, <1>7 DEF OtherStep, MainStep

\* A step of the polling thread.
LEMMA RejectsPoll ==
  ASSUME TypeOK, WaitInv, RejectsInv, PollStep \/ PTouch
  PROVE  RejectsInv'
<1> USE DEF extVars, confVars, epVars, loadVars, watchVars, yieldVars, pollVars
<1>0. /\ pc \in [Thread -> AllLabels] /\ "poll" \in Thread
      /\ ret["poll"] = "top" /\ pc["poll"] \in Labels("poll") /\ st \in States
      /\ fails \in Nat /\ rejects \in Nat /\ MaxFailedTouches \in Nat \ {0}
  BY ThreadKinds, AgentAssumption DEF TypeOK, ControlOK, EpisodeOK, PollOK, Returns, Home
<1> USE <1>0 DEF Goto, Call, WaitInv, RejectsInv, States
<1>1. CASE Shared("poll")
  BY <1>1 DEF Shared, DropYield, Drops, TryArm, CasArm, Settle, Moves
<1>2. CASE PTop
  BY <1>2 DEF PTop, PollFrame
<1>3. CASE PWant
  BY <1>3 DEF PWant, Wanted, PollLocal, PollFrame
<1>4. CASE POpen
  BY <1>4 DEF POpen, Hopeless, PollLocal, PollFrame
<1>5. CASE PAbort \/ PNoFinger \/ PError
  BY <1>5 DEF PAbort, PNoFinger, PError, Hopeless, PollLocal, PollFrame
<1>6. CASE PTouch
  BY <1>6 DEF PTouch, PollFrame
<1>7. CASE PPause \/ PTouchLock \/ PLockKey \/ PLockCheck
  BY <1>7 DEF PPause, Disarmed, PTouchLock, PLockKey, PLockCheck, Moves, PollFrame
<1>8. CASE PHeld \/ PMatched \/ PSettleWait \/ PType \/ PEndMatch
  BY <1>8 DEF PHeld, PMatched, PSettleWait, PType, PEndMatch, Moves, PollLocal, PollFrame
<1>9. CASE PRejected \/ PGiveUp
  BY <1>9 DEF PRejected, OutOfTouches, PGiveUp, PollFrame
<1> QED BY <1>1, <1>2, <1>3, <1>4, <1>5, <1>6, <1>7, <1>8, <1>9 DEF PollStep

\* MAX_FAILED_TOUCHES bounds the rejected touches of every episode, for every value of
\* the limit, although handle_no_match counts a touch whose episode is over.
THEOREM TouchesBounded == Spec => []RejectsBounded
<1>1. Init => RejectsInv
  BY AgentAssumption, ThreadKinds DEF Init, RejectsInv, Home
<1>2. TypeOK /\ WaitInv /\ RejectsInv /\ [Next]_vars => RejectsInv'
  <2> SUFFICES ASSUME TypeOK, WaitInv, RejectsInv, [Next]_vars PROVE RejectsInv'
    OBVIOUS
  <2>1. CASE OtherStep
    <3>1. fails \in Nat /\ rejects \in Nat /\ MaxFailedTouches \in Nat \ {0}
      BY AgentAssumption DEF TypeOK, EpisodeOK
    <3> QED BY <2>1, <3>1, OthersLeavePoll, OthersCount DEF RejectsInv
  <2>2. CASE UNCHANGED vars
    BY <2>2 DEF vars, epVars, pollVars, RejectsInv
  <2> QED BY <2>1, <2>2, RejectsPoll DEF Next, OtherStep
<1>3. RejectsInv => RejectsBounded
  BY DEF RejectsInv, RejectsBounded
<1> QED BY <1>1, <1>2, <1>3, WaitInit, WaitStep, TypeCorrect, PTL DEF Spec

=============================================================================
