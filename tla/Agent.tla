------------------------------- MODULE Agent -------------------------------
(***************************************************************************)
(* The Metallica agent (src/metallica/metallica_mis_agent.c) over the agent *)
(* calls of metallica_mis_enroll.c.                                         *)
(*                                                                         *)
(* It is the second daemon of the repository: the sensor matches on chip,   *)
(* so there are no templates, but the polling thread holds a sensor session *)
(* across touches, waits for a finger in calls that poll abort_wait_cb, and *)
(* has to give the session up for a client, for another kind of wait, after *)
(* errors and when nothing is wanted. Threads are as in Daemon. An action   *)
(* is a stretch of one thread; accesses are in one action when no other     *)
(* thread can tell, from what it reads later, that it ran in between.       *)
(***************************************************************************)
EXTENDS Integers, Sequences

CONSTANTS
  Loader,            \* password loader threads that can exist at the same time
  Pids,              \* allow-listed processes that can show a padlock prompt
  NoPid,
  LockField,         \* the process whose field the watcher sees while locked, or NoPid
  TouchLockOS,       \* os_allows_touch_lock()
  MaxFailedTouches,  \* MAX_FAILED_TOUCHES (4)
  MaxOpenFailures,   \* MAX_OPEN_FAILURES (3), also for the error streak
  StuckTicks,        \* not_locked_ticks limit (10)
  HealPeriod,        \* heal_ticks limit (7)
  OpenResults,       \* what opening a session on a sensor that is present can give
  WaitErrors,        \* may a wait on a sensor that is present end in an error?
  Stored,            \* can the volume hold a password, can it lack one?
  Boot,              \* flag files and sensor found when the agent starts
  Budget             \* how often each environment event may still happen

EnvEvents == {"lock", "lost", "prompt", "touch", "plug", "toggle", "yield", "fault"}
OpenCodes == {"ok", "no_prints", "refused", "error"}

ASSUME AgentAssumption ==
  /\ Loader # {} /\ Loader \cap {"main", "poll"} = {}
  /\ NoPid \notin Pids /\ LockField \in Pids \cup {NoPid}
  /\ TouchLockOS \in BOOLEAN /\ WaitErrors \in BOOLEAN
  /\ MaxFailedTouches \in Nat \ {0} /\ MaxOpenFailures \in Nat \ {0}
  /\ StuckTicks \in Nat \ {0} /\ HealPeriod \in Nat \ {0}
  /\ OpenResults \subseteq OpenCodes /\ OpenResults # {}
  /\ Stored \subseteq BOOLEAN /\ Stored # {}
  /\ Boot \subseteq [present : BOOLEAN, scanning : BOOLEAN, lockswipe : BOOLEAN]
  /\ Budget \in [EnvEvents -> Nat]

VARIABLES
  \* external
  screenLocked, prompt, notes, present, client, left,
  \* settings
  scanning, lockswipe,
  \* agent globals
  state,         \* g_state
  source,        \* g_trigger_source
  target,        \* g_trigger_target_pid
  fails,         \* g_failed_swipes
  grace,         \* now < g_arm_not_before
  password,      \* g_cached_password_valid
  mounted,       \* the volume is mounted
  debounce,      \* g_padlock_prompt_already_armed
  ticks, heals,  \* not_locked_ticks, heal_ticks
  yielded,       \* g_yield_active
  expired,       \* now >= g_yield_deadline
  ackPending,    \* g_yield_ack_pending
  \* thread-local
  pc, ret, arg,  \* control and return points; arm_polling_for_trigger's arguments
  st,            \* the polling loop's st, and g_wait_state, which is a copy of it
  session,       \* session_open
  openFails, errors, \* open_failures, error_streak
  snap,          \* password_valid_snapshot
  \* history
  acked,         \* the current yield has been confirmed to the client
  rejects        \* touches rejected since the current episode was armed

extVars   == <<screenLocked, prompt, notes, present, client, left>>
confVars  == <<scanning, lockswipe>>
epVars    == <<source, target, fails, rejects>>
loadVars  == <<password, mounted>>
watchVars == <<debounce, ticks, heals>>
yieldVars == <<yielded, expired, ackPending, acked>>
pollVars  == <<st, session, openFails, errors, snap>>
vars == <<extVars, confVars, state, epVars, grace, loadVars, watchVars, yieldVars,
          pc, ret, arg, pollVars>>

Thread  == {"main", "poll"} \cup Loader
States  == {"IDLE", "POLLING", "LOCK_ARMED"}
Sources == {"NONE", "LOCK_SCREEN", "PADLOCK"}
Notes   == {"locked", "unlocked", "yield_begin", "yield_end"}
NoArg   == [source |-> "NONE", pid |-> NoPid]

\* yield_is_active has two accesses when a yield has run out: where each of its callers
\* goes on after it has dropped the yield.
Drops == [drop_try |-> "try_arm", drop_arm |-> "arm", drop_want |-> "want",
          drop_wait |-> "wait"]
MainLabels   == {"run", "watch", "arm", "drop_arm", "arm_go", "disarm", "unwind"}
PollLabels   == {"top", "want", "drop_want", "open", "wait", "drop_wait", "pause",
                 "touch_lock", "lock_key", "lock_check", "held", "matched",
                 "settle_wait", "type", "end_match", "rejected", "give_up"}
LoaderLabels == {"off", "mount", "read", "unmount"}
SharedLabels == {"settle", "try_arm", "drop_try", "cas"}
Labels(t) == IF t = "main" THEN MainLabels \cup SharedLabels
             ELSE IF t = "poll" THEN PollLabels \cup SharedLabels ELSE LoaderLabels
AllLabels == MainLabels \cup PollLabels \cup LoaderLabels \cup SharedLabels
Home(t) == IF t = "main" THEN "run" ELSE IF t = "poll" THEN "top" ELSE "off"
Returns(t) == IF t = "main" THEN {"run", "watch", "unwind"} ELSE {Home(t)}

Goto(t, l) == pc' = [pc EXCEPT ![t] = l] /\ UNCHANGED ret
Call(t, l, r) == pc' = [pc EXCEPT ![t] = l] /\ ret' = [ret EXCEPT ![t] = r]
Spend(e) == left[e] > 0 /\ left' = [left EXCEPT ![e] = @ - 1]

\* What the prompt watcher and the check before typing find.
Visible == IF screenLocked THEN LockField ELSE prompt

\* yield_is_active, apart from the dropping of a yield that has run out.
YieldOver == yielded /\ expired

Init ==
  /\ screenLocked = FALSE /\ prompt = NoPid /\ notes = <<>> /\ client = "off"
  /\ left = Budget
  /\ \E b \in Boot : present = b.present /\ scanning = b.scanning /\ lockswipe = b.lockswipe
  /\ state = "IDLE" /\ source = "NONE" /\ target = NoPid /\ fails = 0 /\ grace = FALSE
  /\ password = FALSE /\ mounted = FALSE
  /\ debounce = FALSE /\ ticks = 0 /\ heals = 0
  /\ yielded = FALSE /\ expired = FALSE /\ ackPending = FALSE
  /\ pc = [t \in Thread |-> IF t = "main" THEN "try_arm" ELSE Home(t)]
  /\ ret = [t \in Thread |-> Home(t)] /\ arg = NoArg
  /\ st = "IDLE" /\ session = FALSE /\ openFails = 0 /\ errors = 0 /\ snap = FALSE
  /\ acked = FALSE /\ rejects = 0

-----------------------------------------------------------------------------
(* Routines of the main run loop and of the polling thread.                 *)

\* A step that only moves control.
Moves == UNCHANGED <<extVars, confVars, state, epVars, grace, loadVars, watchVars,
                     yieldVars, arg, pollVars>>

\* yield_is_active stores false without looking again.
DropYield(t) ==
  /\ pc[t] \in DOMAIN Drops
  /\ yielded' = FALSE
  /\ Goto(t, Drops[pc[t]])
  /\ UNCHANGED <<extVars, confVars, state, epVars, grace, loadVars, watchVars, expired,
                 ackPending, acked, arg, pollVars>>

\* lockswipe_try_arm: its conditions, in their order, then the compare-and-swap.
MayArm ==
  /\ TouchLockOS /\ scanning /\ ~grace /\ ~screenLocked /\ present
  /\ state \in {"IDLE", "LOCK_ARMED"}
TryArm(t) ==
  /\ pc[t] = "try_arm"
  /\ Goto(t, IF lockswipe /\ YieldOver THEN "drop_try"
             ELSE IF lockswipe /\ ~yielded /\ MayArm THEN "cas" ELSE ret[t])
  /\ Moves

CasArm(t) ==
  /\ pc[t] = "cas"
  /\ state' = IF state = "IDLE" THEN "LOCK_ARMED" ELSE state
  /\ Goto(t, ret[t])
  /\ UNCHANGED <<extVars, confVars, epVars, grace, loadVars, watchVars, yieldVars, arg,
                 pollVars>>

\* settle_to_idle: an unconditional store, the grace period, lockswipe_try_arm.
Settle(t) ==
  /\ pc[t] = "settle"
  /\ state' = "IDLE" /\ grace' = TRUE
  /\ Goto(t, "try_arm")
  /\ UNCHANGED <<extVars, confVars, epVars, loadVars, watchVars, yieldVars, arg, pollVars>>

Shared(t) == DropYield(t) \/ TryArm(t) \/ CasArm(t) \/ Settle(t)

\* The compare-and-swap from LOCK_ARMED to IDLE of lockswipe_disarm, lockswipe_pause
\* and trigger_touch_lock: an episode that has begun meanwhile is left alone.
Disarmed_PlainStore(s) == "IDLE"
Disarmed(s) == IF s = "LOCK_ARMED" THEN "IDLE" ELSE s

-----------------------------------------------------------------------------
(* The main run loop.                                                      *)

Deliver(n) ==
  /\ pc["main"] = "run" /\ notes # <<>> /\ Head(notes) = n
  /\ notes' = Tail(notes)
  /\ UNCHANGED <<screenLocked, prompt, present, client, left, confVars, state, epVars,
                 grace, loadVars, watchVars, pollVars>>

\* on_screen_locked leaves a running episode alone.
OnScreenLocked ==
  /\ Deliver("locked")
  /\ IF state = "POLLING" THEN UNCHANGED <<pc, ret, arg>>
     ELSE Goto("main", "arm") /\ arg' = [source |-> "LOCK_SCREEN", pid |-> NoPid]
  /\ UNCHANGED yieldVars

\* on_screen_unlocked, from the notification or from the stuck-episode heal. It does
\* not re-arm: the heal of the prompt watcher does, after the grace period.
EndByUnlock ==
  /\ state' = "IDLE" /\ grace' = TRUE /\ source' = "NONE" /\ fails' = 0
  /\ password' = FALSE
  /\ UNCHANGED <<target, rejects, mounted>>

OnScreenUnlocked ==
  /\ pc["main"] = "run" /\ notes # <<>> /\ Head(notes) = "unlocked"
  /\ notes' = Tail(notes)
  /\ EndByUnlock
  /\ UNCHANGED <<screenLocked, prompt, present, client, left, confVars, watchVars,
                 yieldVars, pc, ret, arg, pollVars>>

\* auth_prompt_poll_callback up to its look at the screen: the stuck-episode heal, the
\* heal of Touch to Lock.
HealDue_Never(n) == FALSE /\ n = n
HealDue(n) == n = 0

Tick ==
  /\ pc["main"] = "run"
  /\ IF state = "POLLING" /\ source = "LOCK_SCREEN"
     THEN LET due == ~screenLocked /\ ticks + 1 >= StuckTicks
          IN  /\ ticks' = IF screenLocked \/ due THEN 0 ELSE ticks + 1
              /\ IF due THEN EndByUnlock ELSE UNCHANGED <<state, epVars, grace, loadVars>>
              /\ UNCHANGED <<heals, pc, ret>>
     ELSE /\ ticks' = 0
          /\ heals' = IF state = "IDLE" THEN (heals + 1) % HealPeriod ELSE heals
          /\ IF state = "IDLE" /\ HealDue(heals') THEN Call("main", "try_arm", "watch")
             ELSE Goto("main", IF state = "POLLING" THEN "run" ELSE "watch")
          /\ UNCHANGED <<state, epVars, grace, loadVars>>
  /\ UNCHANGED <<extVars, confVars, debounce, yieldVars, arg, pollVars>>

\* The rest of it: a prompt that is seen for the first time is armed for.
Watch ==
  /\ pc["main"] = "watch"
  /\ debounce' = (Visible # NoPid)
  /\ IF Visible # NoPid /\ ~debounce
     THEN Call("main", "arm", "run") /\ arg' = [source |-> "PADLOCK", pid |-> Visible]
     ELSE Call("main", "run", "run") /\ UNCHANGED arg
  /\ UNCHANGED <<extVars, confVars, state, epVars, grace, loadVars, ticks, heals,
                 yieldVars, pollVars>>

\* arm_polling_for_trigger: the early returns and the trigger; then the switch to
\* POLLING and the loader thread, which may fail to start.
ArmCheck ==
  /\ pc["main"] = "arm"
  /\ IF scanning /\ YieldOver THEN Goto("main", "drop_arm") /\ UNCHANGED <<source, target, arg>>
     ELSE IF scanning /\ ~yielded /\ present
     THEN /\ target' = arg.pid /\ source' = arg.source /\ arg' = NoArg
          /\ Goto("main", "arm_go")
     ELSE Call("main", "settle", "run") /\ arg' = NoArg /\ UNCHANGED <<source, target>>
  /\ UNCHANGED <<extVars, confVars, state, fails, rejects, grace, loadVars, watchVars,
                 yieldVars, pollVars>>

ArmGo ==
  /\ pc["main"] = "arm_go"
  /\ fails' = 0 /\ rejects' = 0 /\ state' = "POLLING"
  /\ \/ /\ \E l \in Loader : /\ pc[l] = "off"
                             /\ pc' = [pc EXCEPT !["main"] = "run", ![l] = "mount"]
        /\ UNCHANGED <<ret, left>>
     \/ /\ Spend("fault") \/ ((\A l \in Loader : pc[l] # "off") /\ UNCHANGED left)
        /\ Call("main", "settle", "unwind")
  /\ UNCHANGED <<screenLocked, prompt, notes, present, client, confVars, source, target,
                 grace, password, mounted, watchVars, yieldVars, arg, pollVars>>

Unwind ==
  /\ pc["main"] = "unwind"
  /\ source' = "NONE" /\ Call("main", "run", "run")
  /\ UNCHANGED <<extVars, confVars, state, target, fails, rejects, grace, loadVars,
                 watchVars, yieldVars, arg, pollVars>>

\* Requests of the menu bar app (hack-touchid-menubar-ipc.c).
SetScanning ==
  /\ pc["main"] = "run" /\ Spend("toggle")
  /\ scanning' = ~scanning
  /\ UNCHANGED <<screenLocked, prompt, notes, present, client, lockswipe, state, epVars,
                 grace, loadVars, watchVars, yieldVars, pc, ret, arg, pollVars>>

\* on_lockswipe_setting_changed.
SetLockswipe ==
  /\ pc["main"] = "run" /\ Spend("toggle")
  /\ lockswipe' = ~lockswipe
  /\ Call("main", IF lockswipe' THEN "try_arm" ELSE "disarm", "run")
  /\ UNCHANGED <<screenLocked, prompt, notes, present, client, scanning, state, epVars,
                 grace, loadVars, watchVars, yieldVars, arg, pollVars>>

\* on_yield_request.
YieldBegin ==
  /\ Deliver("yield_begin")
  /\ yielded' = TRUE /\ ackPending' = TRUE /\ expired' = FALSE /\ acked' = FALSE
  /\ Goto("main", "disarm") /\ UNCHANGED arg

YieldEnd ==
  /\ Deliver("yield_end")
  /\ IF yielded
     THEN /\ yielded' = FALSE /\ ackPending' = FALSE /\ acked' = FALSE
          /\ Call("main", "try_arm", "run")
     ELSE UNCHANGED <<yielded, ackPending, acked, pc, ret>>
  /\ UNCHANGED <<expired, arg>>

\* lockswipe_disarm.
Disarm ==
  /\ pc["main"] = "disarm"
  /\ state' = Disarmed(state) /\ Goto("main", "run")
  /\ UNCHANGED <<extVars, confVars, epVars, grace, loadVars, watchVars, yieldVars, arg,
                 pollVars>>

MainStep ==
  Shared("main") \/ Watch \/ ArmCheck \/ ArmGo \/ Unwind \/ Disarm
MainEvent == OnScreenLocked \/ OnScreenUnlocked \/ YieldBegin \/ YieldEnd
MainRequest == SetScanning \/ SetLockswipe

-----------------------------------------------------------------------------
(* polling_thread_main.                                                    *)

\* Frame of a step that changes only the thread's own control and locals.
PollFrame == UNCHANGED <<confVars, target, loadVars, watchVars, yielded, expired, arg>>
PollLocal == PollFrame /\ UNCHANGED <<extVars, state, source, fails, rejects, grace,
                                      ackPending, acked>>

\* Top of the loop: a yield is confirmed once no session is held; st is read.
MayAck_AnySession == ackPending
MayAck == ackPending /\ ~session

PTop ==
  /\ pc["poll"] = "top"
  /\ ackPending' = (ackPending /\ ~MayAck) /\ acked' = (acked \/ MayAck)
  /\ client' = IF MayAck /\ client = "waiting" THEN "ready" ELSE client
  /\ st' = state /\ snap' = FALSE
  /\ Goto("poll", "want")
  /\ PollFrame
  /\ UNCHANGED <<screenLocked, prompt, notes, present, left, state, source, fails,
                 rejects, grace, session, openFails, errors>>

\* want_session: when nothing is wanted the session is closed and the counters reset.
Wanted == st # "IDLE" /\ ~yielded
SessionLeft_Open == session
SessionLeft == FALSE

PWant ==
  /\ pc["poll"] = "want"
  /\ IF st # "IDLE" /\ YieldOver THEN Goto("poll", "drop_want") /\ UNCHANGED <<session, openFails, errors>>
     ELSE IF Wanted
     THEN Goto("poll", IF session THEN "wait" ELSE "open") /\ UNCHANGED <<session, openFails, errors>>
     ELSE /\ session' = SessionLeft /\ openFails' = 0 /\ errors' = 0
          /\ Goto("poll", "top")
  /\ UNCHANGED <<st, snap>> /\ PollLocal

\* Where a failure that is final leads: Touch to Lock pauses, an episode is abandoned.
Hopeless == IF st = "LOCK_ARMED" THEN "pause" ELSE "give_up"

\* metallica_mis_agent_open and metallica_mis_agent_prints. Errors are retried; the
\* counter is not cleared when an episode is abandoned.
Counted_Forgets(n) == 1
Counted(n) == n + 1

POpen ==
  /\ pc["poll"] = "open"
  /\ \E r \in IF present THEN OpenResults ELSE {"error"} :
       \/ /\ r = "ok" /\ session' = TRUE /\ openFails' = 0
          /\ Goto("poll", "wait")
       \/ /\ r \in {"no_prints", "refused"} /\ UNCHANGED <<session, openFails>>
          /\ Goto("poll", Hopeless)
       \/ /\ r = "error" /\ UNCHANGED session
          /\ LET n == Counted(openFails)
             IN  IF n >= MaxOpenFailures
                 THEN openFails' = (IF st = "LOCK_ARMED" THEN 0 ELSE n) /\ Goto("poll", Hopeless)
                 ELSE openFails' = n /\ Goto("poll", "top")
  /\ UNCHANGED <<st, errors, snap>> /\ PollLocal

\* abort_wait_cb, polled every 300 ms while metallica_mis_agent_identify waits for a
\* finger: the wait ends, and with it the session, when it is for the wrong state.
PAbort ==
  /\ pc["poll"] = "wait"
  /\ \/ /\ state # st \/ (yielded /\ ~expired)
        /\ session' = FALSE /\ Goto("poll", "top")
     \/ state = st /\ YieldOver /\ Goto("poll", "drop_wait") /\ UNCHANGED session
  /\ UNCHANGED <<st, openFails, errors, snap>> /\ PollLocal

\* Nobody touches the sensor in time.
PNoFinger ==
  /\ pc["poll"] = "wait" /\ present
  /\ errors' = 0 /\ Goto("poll", "top")
  /\ UNCHANGED <<st, session, openFails, snap>> /\ PollLocal

\* The sensor answers with an error, always when it is gone: the session is reopened,
\* until the streak is too long.
Streak_NoReset(n) == n + 1
Streak(n) == (n + 1) % MaxOpenFailures

PError ==
  /\ pc["poll"] = "wait" /\ (~present \/ WaitErrors)
  /\ session' = FALSE
  /\ errors' = Streak(errors)
  /\ Goto("poll", IF errors' = 0 THEN Hopeless ELSE "top")
  /\ UNCHANGED <<st, openFails, snap>> /\ PollLocal

\* A finger: the chip matches it or not. The wait may have been for Touch to Lock.
PTouch ==
  /\ pc["poll"] = "wait" /\ present /\ Spend("touch")
  /\ errors' = 0
  /\ \/ Goto("poll", IF st = "LOCK_ARMED" THEN "touch_lock" ELSE "held")
     \/ Goto("poll", IF st = "LOCK_ARMED" THEN "top" ELSE "rejected")
  /\ PollFrame
  /\ UNCHANGED <<screenLocked, prompt, notes, present, client, state, source, fails,
                 rejects, grace, ackPending, acked, st, session, openFails, snap>>

\* lockswipe_pause.
PPause ==
  /\ pc["poll"] = "pause"
  /\ grace' = TRUE /\ state' = Disarmed(state)
  /\ Goto("poll", "top")
  /\ PollFrame
  /\ UNCHANGED <<extVars, source, fails, rejects, ackPending, acked, pollVars>>

\* trigger_touch_lock: leave LOCK_ARMED, post the keystroke, look a second later.
PTouchLock ==
  /\ pc["poll"] = "touch_lock"
  /\ IF ~screenLocked /\ state = "LOCK_ARMED"
     THEN state' = "IDLE" /\ grace' = TRUE /\ Goto("poll", "lock_key")
     ELSE Goto("poll", "top") /\ UNCHANGED <<state, grace>>
  /\ PollFrame
  /\ UNCHANGED <<extVars, source, fails, rejects, ackPending, acked, pollVars>>

PLockKey ==
  /\ pc["poll"] = "lock_key"
  /\ \/ ~screenLocked /\ screenLocked' = TRUE /\ notes' = Append(notes, "locked")
     \/ UNCHANGED <<screenLocked, notes>>
  /\ Goto("poll", "lock_check")
  /\ PollFrame
  /\ UNCHANGED <<prompt, present, client, left, state, source, fails, rejects, grace,
                 ackPending, acked, pollVars>>

PLockCheck ==
  /\ pc["poll"] = "lock_check"
  /\ Goto("poll", IF ~screenLocked /\ state = "IDLE" THEN "try_arm" ELSE "top")
  /\ Moves

\* handle_match: the wait for the password ends with the episode, with g_password_ready
\* or, when the volume is slow, after 200 times 50 ms: it may end at any moment, and
\* only the episode is looked at. Then the snapshot under g_pw_lock.
PHeld ==
  /\ pc["poll"] = "held"
  /\ snap' = (state = "POLLING" /\ password)
  /\ Goto("poll", IF state = "POLLING" THEN "matched" ELSE "top")
  /\ UNCHANGED <<st, session, openFails, errors>> /\ PollLocal

\* A padlock's target is looked at again; a lock screen is given time to settle.
PMatched ==
  /\ pc["poll"] = "matched"
  /\ Goto("poll", IF (source = "PADLOCK" /\ Visible # target) \/ ~snap THEN "end_match"
                  ELSE IF source = "LOCK_SCREEN" THEN "settle_wait" ELSE "type")
  /\ Moves

PSettleWait ==
  /\ pc["poll"] = "settle_wait"
  /\ Goto("poll", IF state = "POLLING" THEN "type" ELSE "end_match")
  /\ Moves

\* type_password_and_enter.
PType == pc["poll"] = "type" /\ Goto("poll", "end_match") /\ Moves

PEndMatch ==
  /\ pc["poll"] = "end_match"
  /\ source' = "NONE" /\ Goto("poll", "settle")
  /\ PollFrame
  /\ UNCHANGED <<extVars, state, fails, rejects, grace, ackPending, acked, pollVars>>

\* handle_no_match counts the touch whatever has become of the episode.
OutOfTouches_OneMore(n) == n > MaxFailedTouches
OutOfTouches(n) == n >= MaxFailedTouches

PRejected ==
  /\ pc["poll"] = "rejected"
  /\ fails' = fails + 1 /\ rejects' = rejects + 1
  /\ Goto("poll", IF OutOfTouches(fails') THEN "give_up" ELSE "top")
  /\ PollFrame
  /\ UNCHANGED <<extVars, state, source, grace, ackPending, acked, pollVars>>

\* The lockout of handle_no_match, and abandon_episode.
PGiveUp ==
  /\ pc["poll"] = "give_up"
  /\ source' = "NONE" /\ fails' = 0 /\ Goto("poll", "settle")
  /\ PollFrame
  /\ UNCHANGED <<extVars, state, rejects, grace, ackPending, acked, pollVars>>

PollStep ==
  \/ Shared("poll") \/ PTop \/ PWant \/ POpen \/ PAbort \/ PNoFinger \/ PError
  \/ PPause \/ PTouchLock \/ PLockKey \/ PLockCheck \/ PHeld \/ PMatched
  \/ PSettleWait \/ PType \/ PEndMatch \/ PRejected \/ PGiveUp

-----------------------------------------------------------------------------
(* load_password_thread_main.                                              *)

LoadFrame == UNCHANGED <<confVars, state, epVars, grace, watchVars, yieldVars, arg, pollVars>>

LMount(l) ==
  /\ pc[l] = "mount"
  /\ \/ mounted' = TRUE /\ Goto(l, "read") /\ UNCHANGED left
     \/ Spend("fault") /\ Goto(l, "off") /\ UNCHANGED mounted
  /\ LoadFrame /\ UNCHANGED <<screenLocked, prompt, notes, present, client, password>>

\* The read under g_pw_lock; another loader may have unmounted the volume.
LRead(l) ==
  /\ pc[l] = "read"
  /\ password' \in IF mounted THEN Stored ELSE {FALSE}
  /\ Goto(l, "unmount")
  /\ LoadFrame /\ UNCHANGED <<extVars, mounted>>

\* unmount_template_volume, then g_password_ready, which only shortens a wait.
LUnmount(l) ==
  /\ pc[l] = "unmount"
  /\ mounted' = FALSE /\ Goto(l, "off")
  /\ LoadFrame /\ UNCHANGED <<extVars, password>>

LoaderStep(l) == LMount(l) \/ LRead(l) \/ LUnmount(l)

-----------------------------------------------------------------------------
(* External: the window server, the user, the bus, the client, time.        *)

EnvFrame == UNCHANGED <<confVars, state, epVars, loadVars, watchVars, ackPending, acked,
                        yielded, pc, ret, arg, pollVars>>

LockScreen ==
  /\ ~screenLocked /\ Spend("lock")
  /\ screenLocked' = TRUE /\ notes' = Append(notes, "locked")
  /\ EnvFrame /\ UNCHANGED <<prompt, present, client, grace, expired>>

UnlockScreen ==
  /\ screenLocked /\ screenLocked' = FALSE
  /\ \/ notes' = Append(notes, "unlocked") /\ UNCHANGED left
     \/ Spend("lost") /\ UNCHANGED notes
  /\ EnvFrame /\ UNCHANGED <<prompt, present, client, grace, expired>>

PromptChange(p) ==
  /\ ~screenLocked /\ prompt # p
  /\ prompt' = p /\ IF p = NoPid THEN UNCHANGED left ELSE prompt = NoPid /\ Spend("prompt")
  /\ EnvFrame /\ UNCHANGED <<screenLocked, notes, present, client, grace, expired>>

Plug ==
  /\ Spend("plug") /\ present' = ~present
  /\ EnvFrame /\ UNCHANGED <<screenLocked, prompt, notes, client, grace, expired>>

\* sensor_yield_begin and sensor_yield_end of the client.
ClientFrame == EnvFrame /\ UNCHANGED <<screenLocked, prompt, present, grace, expired>>
ClientBegin ==
  /\ client = "off" /\ lockswipe /\ Spend("yield")
  /\ client' = "waiting" /\ notes' = Append(notes, "yield_begin")
  /\ ClientFrame
ClientTimeout ==
  /\ client = "waiting" /\ client' = "timedout"
  /\ ClientFrame /\ UNCHANGED <<notes, left>>
ClientDone ==
  /\ client \in {"ready", "timedout"}
  /\ client' = "off" /\ notes' = Append(notes, "yield_end")
  /\ ClientFrame /\ UNCHANGED left
ClientCrash ==
  /\ client # "off" /\ client' = "off" /\ Spend("fault")
  /\ ClientFrame /\ UNCHANGED notes

\* YIELD_TIMEOUT_SEC passes, long after the agent has confirmed the yield.
YieldExpires ==
  /\ yielded /\ ~expired /\ ~ackPending
  /\ expired' = TRUE
  /\ EnvFrame /\ UNCHANGED <<extVars, grace>>

\* g_arm_not_before passes.
GraceEnds ==
  /\ grace /\ grace' = FALSE
  /\ EnvFrame /\ UNCHANGED <<extVars, expired>>

EnvStep ==
  \/ LockScreen \/ UnlockScreen \/ (\E p \in Pids \cup {NoPid} : PromptChange(p)) \/ Plug
  \/ ClientBegin \/ ClientTimeout \/ ClientDone \/ ClientCrash \/ YieldExpires \/ GraceEnds

Next ==
  \/ MainStep \/ MainEvent \/ MainRequest \/ Tick
  \/ PollStep \/ PTouch
  \/ \E l \in Loader : LoaderStep(l)
  \/ EnvStep

Spec == Init /\ [][Next]_vars

\* Threads run, the run loop serves its timer and notifications, time passes. The user,
\* the bus and the client owe nothing.
Fairness ==
  /\ WF_vars(MainStep) /\ WF_vars(MainEvent) /\ WF_vars(Tick) /\ WF_vars(PollStep)
  /\ \A l \in Loader : WF_vars(LoaderStep(l))
  /\ WF_vars(YieldExpires) /\ WF_vars(GraceEnds)
FairSpec == Spec /\ Fairness

-----------------------------------------------------------------------------
(* Safety.                                                                 *)

ExtOK ==
  /\ screenLocked \in BOOLEAN /\ prompt \in Pids \cup {NoPid} /\ notes \in Seq(Notes)
  /\ present \in BOOLEAN /\ client \in {"off", "waiting", "ready", "timedout"}
  /\ left \in [EnvEvents -> Nat] /\ scanning \in BOOLEAN /\ lockswipe \in BOOLEAN
EpisodeOK ==
  /\ state \in States /\ source \in Sources /\ target \in Pids \cup {NoPid}
  /\ fails \in Nat /\ rejects \in Nat /\ grace \in BOOLEAN
  /\ password \in BOOLEAN /\ mounted \in BOOLEAN
  /\ debounce \in BOOLEAN /\ ticks \in 0..StuckTicks-1 /\ heals \in 0..HealPeriod-1
YieldOK ==
  yielded \in BOOLEAN /\ expired \in BOOLEAN /\ ackPending \in BOOLEAN /\ acked \in BOOLEAN
ControlOK ==
  /\ pc \in [Thread -> AllLabels] /\ \A t \in Thread : pc[t] \in Labels(t)
  /\ ret \in [Thread -> AllLabels] /\ \A t \in Thread : ret[t] \in Returns(t)
  /\ arg \in [source : Sources, pid : Pids \cup {NoPid}]
PollOK ==
  /\ st \in States /\ session \in BOOLEAN /\ openFails \in Nat
  /\ errors \in 0..MaxOpenFailures-1 /\ snap \in BOOLEAN

\* Every variable keeps its type, every thread stays on its own control points, and the
\* session is open exactly when the polling thread waits for a finger on it.
SessionOK ==
  /\ pc["poll"] = "open" => ~session
  /\ pc["poll"] \in {"wait", "drop_wait", "touch_lock", "held", "rejected"} => session
TypeOK == ExtOK /\ EpisodeOK /\ YieldOK /\ ControlOK /\ PollOK /\ SessionOK

\* on_yield_request and polling_thread_main: once the agent has told the client that
\* the sensor is free, it neither holds nor opens a session until the yield ends or
\* runs out, whatever locks, prompts, touches and settings come in between.
YieldedSensorFree ==
  acked /\ yielded /\ ~expired => ~session /\ pc["poll"] # "open"

\* MAX_FAILED_TOUCHES: no episode has more rejected touches than that, although the
\* polling thread counts a touch without looking at the episode and the main run loop
\* resets the counter at any moment.
RejectsBounded == rejects <= MaxFailedTouches

\* The compare-and-swaps of lockswipe_disarm, lockswipe_pause and trigger_touch_lock:
\* an episode is ended by an unlock or by settle_to_idle, never by what a wait for Touch
\* to Lock, a yield or a settings change that began before it comes to.
EpisodeKept ==
  [][state = "POLLING" /\ state' # "POLLING" =>
       /\ pc'["poll"] = pc["poll"] \/ (pc["poll"] = "settle" /\ st = "POLLING")
       /\ pc'["main"] = pc["main"] \/ pc["main"] # "disarm"]_vars

-----------------------------------------------------------------------------
(* Liveness, under Fairness.                                               *)

\* A yield in force is confirmed, whatever the polling thread is doing: waiting for a
\* finger in either state, opening a session that keeps failing. A request that arrives
\* between the two accesses of yield_is_active to an old yield is not in force: its flag
\* is overwritten, and it may wait for its confirmation for ever.
YieldConfirmed == (ackPending /\ yielded) ~> (~ackPending \/ ~yielded)

\* g_wait_state: an episode that begins while another wait is under way, or while the
\* session cannot be opened, gets a wait of its own or is abandoned.
EpisodeGetsSensor ==
  (state = "POLLING" /\ ~yielded)
    ~> ((pc["poll"] = "wait" /\ st = "POLLING") \/ state # "POLLING" \/ yielded)

\* The session does not stay open when nothing is wanted of the sensor.
SessionReleased == (state = "IDLE" /\ session) ~> (state # "IDLE" \/ ~session)

\* The heal of auth_prompt_poll_callback: Touch to Lock comes back after an unlock, a
\* pause, a yield whose client died.
TouchToLockReturns ==
  []<>(lockswipe /\ scanning /\ TouchLockOS /\ present /\ ~screenLocked /\ client = "off"
         => state # "IDLE")

=============================================================================
