------------------------------- MODULE Daemon -------------------------------
(***************************************************************************)
(* The VFS5011 authentication daemon (src/vfs5011/vfs5011_daemon.c) and the *)
(* request side of its menu bar IPC (hack-touchid-menubar-ipc.c).           *)
(*                                                                         *)
(* Three kinds of threads share the daemon's globals without a common lock: *)
(*   "main"  - the CFRunLoop: lock/unlock notifications, the 300 ms prompt  *)
(*             watcher, requests from the menu bar app and from the client; *)
(*   "poll"  - polling_thread_main: captures, scores, types, locks;         *)
(*   Loader  - one detached load_templates_thread_main per episode.         *)
(* Each action is a stretch of one thread between two accesses to shared    *)
(* state that another thread can change in between.                        *)
(*                                                                         *)
(* The window server, the USB device, the encrypted volume and the user are *)
(* external: their actions are in the last section.                         *)
(***************************************************************************)
EXTENDS Integers, Sequences

CONSTANTS
  Loader,            \* loader threads that can exist at the same time
  Pids,              \* allow-listed processes that can show a padlock prompt
  LoginPid,          \* loginwindow, the owner of the lock screen
  NoPid,
  LoginWindowSeen,   \* does the prompt watcher see the lock screen's field?
  Tahoe,             \* os_is_tahoe_or_newer()
  MaxFailedSwipes,   \* MAX_FAILED_SWIPES (4)
  MaxSwipeRetries,   \* MAX_SWIPE_RETRIES (3)
  HealTicks,         \* not_locked_ticks limit (10)
  HealPeriod,        \* idle_ticks between two self-heals (10)
  MaxTemplates,      \* MAX_STORED_TEMPLATES (8)
  Volumes,           \* what a loader can find on the template volume
  SwipeKinds,        \* the swipes that can occur
  Scores,            \* the bozorth3 scores that can occur
  Boot,              \* flag files and sensor found when the daemon starts
  ConfValues,        \* contents of match_threshold.conf (0: missing, unparsable)
  Budget             \* how often each environment event may still happen

EnvEvents == {"lock", "lost", "prompt", "swipe", "plug", "toggle", "yield", "fault"}

\* Templates and password in memory or on the volume; a captured swipe: whose
\* finger, enough minutiae to score, long enough to lock.
Contents == [n : 0..MaxTemplates, pw : BOOLEAN]
Swipes   == [finger : {"owner", "stranger"}, good : BOOLEAN, tall : BOOLEAN]

ASSUME DaemonAssumption ==
  /\ Loader # {} /\ Loader \cap {"main", "poll"} = {}
  /\ NoPid \notin Pids \cup {LoginPid} /\ LoginPid \notin Pids
  /\ LoginWindowSeen \in BOOLEAN /\ Tahoe \in BOOLEAN
  /\ MaxFailedSwipes \in Nat \ {0} /\ MaxSwipeRetries \in Nat \ {0}
  /\ HealTicks \in Nat \ {0} /\ HealPeriod \in Nat \ {0}
  /\ MaxTemplates \in Nat \ {0}
  /\ Scores \subseteq Nat /\ ConfValues \subseteq Int
  /\ Volumes \subseteq Contents /\ Volumes # {} /\ SwipeKinds \subseteq Swipes
  /\ Boot \subseteq [present : BOOLEAN, scanning : BOOLEAN, lockswipe : BOOLEAN]
  /\ Budget \in [EnvEvents -> Nat]

VARIABLES
  \* external
  screenLocked,  \* CGSSessionScreenIsLocked
  prompt,        \* the process showing a focused secure field, or NoPid
  notes,         \* distributed notifications not yet delivered to the run loop
  present,       \* the sensor is on the bus
  client,        \* the interactive client's side of the sensor yield
  left,          \* remaining Budget
  \* settings (menu bar flags and match_threshold.conf)
  scanning, lockswipe, conf,
  \* daemon globals
  state,         \* g_state
  source,        \* g_trigger_source
  target,        \* g_trigger_target_pid
  ready,         \* g_templates_ready
  cache,         \* g_enrolled_count and g_cached_password_valid
  mounted,       \* the template volume is mounted
  debounce,      \* g_padlock_prompt_already_armed
  ticks,         \* not_locked_ticks
  fails,         \* g_failed_swipes
  yielded,       \* g_yield_active
  expired,       \* now >= g_yield_deadline
  ackPending,    \* g_yield_ack_pending
  abort,         \* g_capture_abort
  \* thread-local
  pc, ret,       \* control point and return point of every thread
  arg,           \* arm_polling_for_trigger's (source, target_pid)
  attempt, idleTicks, probe, snap,
  \* history
  served,        \* the prompt now on screen has had an episode
  rejects,       \* swipes rejected since the current episode was armed
  lockedOut      \* a lock-screen episode ended in a lockout

extVars   == <<screenLocked, prompt, notes, present, client, left>>
confVars  == <<scanning, lockswipe, conf>>
epVars    == <<source, target>>
loadVars  == <<ready, cache, mounted>>
watchVars == <<debounce, ticks>>
yieldVars == <<yielded, expired, ackPending, abort>>
capVars   == <<attempt, idleTicks, probe, snap>>
histVars  == <<served, rejects, lockedOut>>
vars == <<extVars, confVars, state, epVars, loadVars, watchVars, fails,
          yieldVars, pc, ret, arg, capVars, histVars>>

Thread   == {"main", "poll"} \cup Loader
States   == {"IDLE", "POLLING", "LOCK_ARMED"}
Sources  == {"NONE", "LOCK_SCREEN", "PADLOCK"}
AnyPid   == Pids \cup {LoginPid, NoPid}
Notes    == {"locked", "unlocked", "yield_begin", "yield_end"}
Empty    == [n |-> 0, pw |-> FALSE]

NoArg    == [source |-> "NONE", pid |-> NoPid]
NoProbe  == [finger |-> "stranger", good |-> FALSE, tall |-> FALSE]

\* Control points that only one kind of thread has, and the shared ones.
MainLabels   == {"run", "arm", "arm_set", "arm_go", "spawn", "unlocked", "wipe",
                 "unready", "yield_abort"}
PollLabels   == {"top", "branch", "open_armed", "wait_armed", "extract",
                 "armed_done", "lock_swipe", "lock_key", "lock_check",
                 "open_poll", "wait_poll", "hold", "score", "matched", "settle_wait",
                 "type", "end_match", "rejected", "lockout"}
LoaderLabels == {"off", "mount", "read", "unmount_ok", "unmount_bad", "publish",
                 "drop", "failed"}
SharedLabels == {"settle", "try_arm", "drop_yield", "arm_checks", "cas", "disarm", "unwind"}
Labels(t) == SharedLabels \cup (IF t = "main" THEN MainLabels
                                ELSE IF t = "poll" THEN PollLabels ELSE LoaderLabels)
AllLabels == SharedLabels \cup MainLabels \cup PollLabels \cup LoaderLabels
Home(t) == IF t = "main" THEN "run" ELSE IF t = "poll" THEN "top" ELSE "off"

Goto(t, l) == pc' = [pc EXCEPT ![t] = l] /\ UNCHANGED ret
Call(t, l, r) == pc' = [pc EXCEPT ![t] = l] /\ ret' = [ret EXCEPT ![t] = r]
Spend(e) == left[e] > 0 /\ left' = [left EXCEPT ![e] = @ - 1]

\* What the prompt watcher finds, and what receives posted key events
\* (NoPid: some ordinary application).
Visible == IF screenLocked THEN (IF LoginWindowSeen THEN LoginPid ELSE NoPid) ELSE prompt
Focus   == IF screenLocked THEN LoginPid ELSE prompt

Init ==
  /\ screenLocked = FALSE /\ prompt = NoPid /\ notes = <<>> /\ client = "off"
  /\ left = Budget /\ conf \in ConfValues
  /\ \E b \in Boot : present = b.present /\ scanning = b.scanning /\ lockswipe = b.lockswipe
  /\ state = "IDLE" /\ source = "NONE" /\ target = NoPid
  /\ ready = FALSE /\ cache = Empty /\ mounted = FALSE
  /\ debounce = FALSE /\ ticks = 0 /\ fails = 0
  /\ yielded = FALSE /\ expired = FALSE /\ ackPending = FALSE /\ abort = FALSE
  /\ pc = [t \in Thread |-> IF t = "main" THEN "try_arm" ELSE Home(t)]
  /\ ret = [t \in Thread |-> Home(t)]
  /\ arg = NoArg
  /\ attempt = 1 /\ idleTicks = 0 /\ snap = Empty
  /\ probe = NoProbe
  /\ served = FALSE /\ rejects = 0 /\ lockedOut = FALSE

-----------------------------------------------------------------------------
(* Shared by all threads.                                                  *)

\* lockswipe_try_arm: the setting and a client's yield come first.
TryArm(t) ==
  /\ pc[t] = "try_arm"
  /\ Goto(t, IF ~lockswipe \/ (yielded /\ ~expired) THEN ret[t]
             ELSE IF yielded THEN "drop_yield" ELSE "arm_checks")
  /\ UNCHANGED <<extVars, confVars, state, epVars, loadVars, watchVars, fails,
                 yieldVars, arg, capVars, histVars>>

\* The yield timed out: the daemon takes the sensor back.
DropYield(t) ==
  /\ pc[t] = "drop_yield"
  /\ yielded' = FALSE /\ abort' = FALSE
  /\ Goto(t, "arm_checks")
  /\ UNCHANGED <<extVars, confVars, state, epVars, loadVars, watchVars, fails,
                 expired, ackPending, arg, capVars, histVars>>

\* The remaining conditions, read before the compare-and-swap.
MayArm ==
  Tahoe /\ scanning /\ ~screenLocked /\ present /\ state \in {"IDLE", "LOCK_ARMED"}

ArmChecks(t) ==
  /\ pc[t] = "arm_checks"
  /\ Goto(t, IF MayArm THEN "cas" ELSE ret[t])
  /\ UNCHANGED <<extVars, confVars, state, epVars, loadVars, watchVars, fails,
                 yieldVars, arg, capVars, histVars>>

\* The atomic_compare_exchange_strong that ends lockswipe_try_arm.
ArmedFrom_PlainStore(s) == "LOCK_ARMED"
ArmedFrom(s) == IF s = "IDLE" THEN "LOCK_ARMED" ELSE s

CasArm(t) ==
  /\ pc[t] = "cas"
  /\ state' = ArmedFrom(state)
  /\ Goto(t, ret[t])
  /\ UNCHANGED <<extVars, confVars, epVars, loadVars, watchVars, fails, yieldVars,
                 arg, capVars, histVars>>

\* lockswipe_disarm.
Disarm(t) ==
  /\ pc[t] = "disarm"
  /\ state' = IF state = "LOCK_ARMED" THEN "IDLE" ELSE state
  /\ Goto(t, Home(t))
  /\ UNCHANGED <<extVars, confVars, epVars, loadVars, watchVars, fails, yieldVars,
                 arg, capVars, histVars>>

ArmStep(t) == TryArm(t) \/ DropYield(t) \/ ArmChecks(t) \/ CasArm(t)

\* settle_to_idle: an unconditional store, then lockswipe_try_arm.
Settle(t) ==
  /\ pc[t] = "settle"
  /\ state' = "IDLE"
  /\ Goto(t, "try_arm")
  /\ UNCHANGED <<extVars, confVars, epVars, loadVars, watchVars, fails, yieldVars,
                 arg, capVars, histVars>>

\* What follows settle_to_idle when an episode could not be served.
Unwind(t) ==
  /\ pc[t] = "unwind"
  /\ source' = "NONE"
  /\ Goto(t, Home(t))
  /\ UNCHANGED <<extVars, confVars, state, target, loadVars, watchVars, fails,
                 yieldVars, arg, capVars, histVars>>

-----------------------------------------------------------------------------
(* The main run loop.                                                      *)

\* Takes the oldest notification off the queue.
Deliver(n) ==
  /\ pc["main"] = "run" /\ notes # <<>> /\ Head(notes) = n
  /\ notes' = Tail(notes)
  /\ UNCHANGED <<screenLocked, prompt, present, client, left, confVars, state, epVars,
                 loadVars, watchVars, fails, expired, abort, capVars>>

\* on_screen_locked, which leaves a running episode alone.
MayStartEpisode_IdleOnly == state = "IDLE"
MayStartEpisode == state \in {"IDLE", "LOCK_ARMED"}

OnScreenLocked ==
  /\ Deliver("locked")
  /\ IF ~MayStartEpisode THEN UNCHANGED <<pc, ret, arg, lockedOut>>
     ELSE /\ Goto("main", "arm")
          /\ arg' = [source |-> "LOCK_SCREEN", pid |-> NoPid]
          /\ lockedOut' = FALSE
  /\ UNCHANGED <<yielded, ackPending, served, rejects>>

\* notification_callback -> on_screen_unlocked.
OnScreenUnlockedNote ==
  /\ Deliver("unlocked")
  /\ Goto("main", "unlocked")
  /\ UNCHANGED <<yielded, ackPending, arg, histVars>>

\* on_screen_unlocked, one action per stretch: the episode globals, the cache
\* under g_templates_lock, the ready flag (then lockswipe_try_arm).
OnScreenUnlocked ==
  /\ pc["main"] = "unlocked"
  /\ state' = "IDLE" /\ source' = "NONE" /\ fails' = 0
  /\ lockedOut' = FALSE
  /\ Goto("main", "wipe")
  /\ UNCHANGED <<extVars, confVars, target, loadVars, watchVars, yieldVars, arg,
                 capVars, served, rejects>>

WipeCache ==
  /\ pc["main"] = "wipe"
  /\ cache' = Empty
  /\ Goto("main", "unready")
  /\ UNCHANGED <<extVars, confVars, state, epVars, ready, mounted, watchVars, fails,
                 yieldVars, arg, capVars, histVars>>

Unready ==
  /\ pc["main"] = "unready"
  /\ ready' = FALSE
  /\ Call("main", "try_arm", "run")
  /\ UNCHANGED <<extVars, confVars, state, epVars, cache, mounted, watchVars, fails,
                 yieldVars, arg, capVars, histVars>>

\* The heal limit on not_locked_ticks, and the debounce test.
HealDue_OffByOne(n) == n + 1 > HealTicks
HealDue(n) == n + 1 >= HealTicks
TicksAfter_Forgets == 0
TicksAfter == IF screenLocked \/ HealDue(ticks) THEN 0 ELSE ticks + 1
NewPrompt_NoDebounce == Visible # NoPid
NewPrompt == Visible # NoPid /\ ~debounce

\* auth_prompt_poll_callback. Healing a stuck lock-screen episode, clearing the
\* debounce flag, or arming on a prompt that is seen for the first time.
Tick ==
  /\ pc["main"] = "run"
  /\ IF state = "POLLING" /\ source = "LOCK_SCREEN"
     THEN /\ ticks' = TicksAfter
          /\ Goto("main", IF ~screenLocked /\ HealDue(ticks) THEN "unlocked" ELSE "run")
          /\ UNCHANGED <<debounce, arg>>
     ELSE /\ ticks' = 0
          /\ IF state = "POLLING" THEN UNCHANGED <<debounce, arg, pc, ret>>
             ELSE /\ debounce' = (Visible # NoPid)
                  /\ IF NewPrompt
                     THEN /\ arg' = [source |-> "PADLOCK", pid |-> Visible]
                          /\ Goto("main", "arm")
                     ELSE UNCHANGED <<arg, pc, ret>>
  /\ UNCHANGED <<extVars, confVars, state, epVars, loadVars, fails, yieldVars,
                 capVars, histVars>>

\* arm_polling_for_trigger: its two early returns, the trigger, the switch to
\* POLLING, the loader thread.
ArmCheck ==
  /\ pc["main"] = "arm"
  /\ IF scanning /\ present
     THEN Goto("main", "arm_set") /\ UNCHANGED arg
     ELSE Call("main", "settle", "run") /\ arg' = NoArg
  /\ UNCHANGED <<extVars, confVars, state, epVars, loadVars, watchVars, fails,
                 yieldVars, capVars, histVars>>

ArmTrigger ==
  /\ pc["main"] = "arm_set"
  /\ target' = arg.pid /\ source' = arg.source
  /\ Goto("main", "arm_go")
  /\ UNCHANGED <<extVars, confVars, state, loadVars, watchVars, fails, yieldVars,
                 arg, capVars, histVars>>

ArmGo ==
  /\ pc["main"] = "arm_go"
  /\ ready' = FALSE /\ fails' = 0 /\ state' = "POLLING"
  /\ Goto("main", "spawn")
  /\ arg' = NoArg /\ rejects' = 0
  /\ served' = (served \/ (arg.source = "PADLOCK" /\ arg.pid = Visible))
  /\ UNCHANGED <<extVars, confVars, epVars, cache, mounted, watchVars, yieldVars,
                 capVars, lockedOut>>

SpawnLoader ==
  /\ pc["main"] = "spawn"
  /\ \E l \in Loader :
       /\ pc[l] = "off"
       /\ pc' = [pc EXCEPT !["main"] = "run", ![l] = "mount"]
  /\ UNCHANGED <<extVars, confVars, state, epVars, loadVars, watchVars, fails,
                 yieldVars, ret, arg, capVars, histVars>>

\* pthread_create fails; with every loader busy it is the only way on.
SpawnFails ==
  /\ pc["main"] = "spawn"
  /\ \/ Spend("fault")
     \/ (\A l \in Loader : pc[l] # "off") /\ UNCHANGED left
  /\ Call("main", "settle", "unwind")
  /\ UNCHANGED <<screenLocked, prompt, notes, present, client, confVars, state, epVars,
                 loadVars, watchVars, fails, yieldVars, arg, capVars, histVars>>

\* set_scanning_enabled, set_lockswipe_enabled and set_match_threshold.
SetScanning ==
  /\ pc["main"] = "run" /\ Spend("toggle")
  /\ scanning' = ~scanning
  /\ UNCHANGED <<screenLocked, prompt, notes, present, client, lockswipe, conf, state,
                 epVars, loadVars, watchVars, fails, yieldVars, pc, ret, arg, capVars, histVars>>

SetLockswipe ==
  /\ pc["main"] = "run" /\ Spend("toggle")
  /\ lockswipe' = ~lockswipe
  /\ Call("main", IF lockswipe' THEN "try_arm" ELSE "disarm", "run")
  /\ UNCHANGED <<screenLocked, prompt, notes, present, client, scanning, conf, state,
                 epVars, loadVars, watchVars, fails, yieldVars, arg, capVars, histVars>>

SetMatchThreshold ==
  /\ pc["main"] = "run" /\ Spend("toggle")
  /\ conf' \in ConfValues \cap {20, 25, 30, 35, 40}
  /\ UNCHANGED <<screenLocked, prompt, notes, present, client, scanning, lockswipe, state,
                 epVars, loadVars, watchVars, fails, yieldVars, pc, ret, arg, capVars, histVars>>

\* on_yield_request(true): the flags, then the abort of an armed capture, then
\* lockswipe_disarm.
YieldBegin ==
  /\ pc["main"] = "run" /\ notes # <<>> /\ Head(notes) = "yield_begin"
  /\ notes' = Tail(notes)
  /\ yielded' = TRUE /\ ackPending' = TRUE /\ expired' = FALSE
  /\ Goto("main", "yield_abort")
  /\ UNCHANGED <<screenLocked, prompt, present, client, left, confVars, state, epVars,
                 loadVars, watchVars, fails, abort, arg, capVars, histVars>>

AbortWanted_Never == FALSE
AbortWanted == state = "LOCK_ARMED"

YieldAbort ==
  /\ pc["main"] = "yield_abort"
  /\ abort' = (abort \/ AbortWanted)
  /\ Goto("main", "disarm")
  /\ UNCHANGED <<extVars, confVars, state, epVars, loadVars, watchVars, fails, yielded,
                 expired, ackPending, arg, capVars, histVars>>

\* on_yield_request(false).
YieldEnd ==
  /\ pc["main"] = "run" /\ notes # <<>> /\ Head(notes) = "yield_end"
  /\ notes' = Tail(notes)
  /\ IF yielded
     THEN yielded' = FALSE /\ ackPending' = FALSE /\ abort' = FALSE /\ Call("main", "try_arm", "run")
     ELSE UNCHANGED <<yielded, ackPending, abort, pc, ret>>
  /\ UNCHANGED <<screenLocked, prompt, present, client, left, confVars, state, epVars,
                 loadVars, watchVars, fails, expired, arg, capVars, histVars>>

MainStep ==
  \/ ArmStep("main") \/ Disarm("main") \/ Settle("main") \/ Unwind("main")
  \/ OnScreenUnlocked \/ WipeCache \/ Unready
  \/ ArmCheck \/ ArmTrigger \/ ArmGo \/ SpawnLoader \/ SpawnFails \/ YieldAbort
MainEvent ==
  OnScreenLocked \/ OnScreenUnlockedNote \/ YieldBegin \/ YieldEnd
MainRequest == SetScanning \/ SetLockswipe \/ SetMatchThreshold

-----------------------------------------------------------------------------
(* polling_thread_main.                                                    *)

\* What no step of the polling thread writes, apart from the device and the
\* episode it ends.
PollFrame == UNCHANGED <<confVars, target, loadVars, watchVars, yielded, expired, arg, served>>
PollLocal == PollFrame /\ UNCHANGED <<extVars, state, source, fails, ackPending,
                                      abort, rejects, lockedOut>>

\* Top of the loop: no capture holds the sensor, so a yield can be confirmed.
\* The previous iteration's locals are gone.
PTop ==
  /\ pc["poll"] = "top"
  /\ IF ackPending
     THEN /\ ackPending' = FALSE /\ abort' = FALSE
          /\ client' = IF client = "waiting" THEN "ready" ELSE client
     ELSE UNCHANGED <<ackPending, abort, client>>
  /\ Goto("poll", "branch")
  /\ attempt' = 1 /\ probe' = NoProbe /\ snap' = Empty
  /\ PollFrame
  /\ UNCHANGED <<screenLocked, prompt, notes, present, left, state, source, fails,
                 idleTicks, rejects, lockedOut>>

IdleHeals_Never(n) == FALSE /\ n = n
IdleHeals(n) == n = 0

\* Dispatch on g_state; while idle every HealPeriod-th turn tries to re-arm.
PBranch ==
  /\ pc["poll"] = "branch"
  /\ \/ /\ state = "POLLING" /\ Goto("poll", "open_poll") /\ UNCHANGED idleTicks
     \/ /\ state = "LOCK_ARMED" /\ UNCHANGED idleTicks
        /\ IF scanning THEN Goto("poll", "open_armed") ELSE Goto("poll", "disarm")
     \/ /\ state = "IDLE"
        /\ idleTicks' = (idleTicks + 1) % HealPeriod
        /\ IF IdleHeals(idleTicks') THEN Call("poll", "try_arm", "top") ELSE Goto("poll", "top")
  /\ UNCHANGED <<attempt, probe, snap>> /\ PollLocal

\* open_device in capture_swipe_adaptive and in capture_quality_template; the
\* latter first looks at the abort flag. Without the sensor it always fails.
PollAborts == pc["poll"] \in {"open_poll", "wait_poll", "wait_armed"} /\ abort
NextAttempt ==
  IF pc["poll"] \in {"open_poll", "wait_poll"} /\ attempt < MaxSwipeRetries
  THEN Goto("poll", "open_poll") /\ attempt' = attempt + 1
  ELSE Goto("poll", "top") /\ UNCHANGED attempt
POpen ==
  /\ pc["poll"] \in {"open_armed", "open_poll"} /\ ~PollAborts
  /\ IF present
     THEN /\ Goto("poll", IF pc["poll"] = "open_armed" THEN "wait_armed" ELSE "wait_poll")
          /\ UNCHANGED attempt
     ELSE NextAttempt
  /\ UNCHANGED <<idleTicks, probe, snap>> /\ PollLocal

\* A yield interrupts the wait for a finger, or the step before it.
PAbort ==
  /\ PollAborts
  /\ Goto("poll", "top")
  /\ UNCHANGED capVars /\ PollLocal

\* The capture fails: a USB error, too few lines, a busy interface. A stalled
\* init sequence of an armed capture is retried once.
PCaptureFails ==
  /\ pc["poll"] \in {"open_armed", "open_poll", "wait_armed", "wait_poll"} /\ Spend("fault")
  /\ \/ NextAttempt
     \/ /\ pc["poll"] = "wait_armed" /\ attempt = 1 /\ ~abort
        /\ Goto("poll", "open_armed") /\ attempt' = 2
  /\ PollFrame
  /\ UNCHANGED <<screenLocked, prompt, notes, present, client, state, source, fails,
                 ackPending, abort, idleTicks, probe, snap, rejects, lockedOut>>

\* The sensor is gone: the pending read fails.
PUnplugged ==
  /\ pc["poll"] \in {"wait_armed", "wait_poll"} /\ ~present
  /\ NextAttempt
  /\ UNCHANGED <<idleTicks, probe, snap>> /\ PollLocal

\* A finger crosses the sensor: the capture completes and the device is closed.
PSwipe ==
  /\ pc["poll"] \in {"wait_armed", "wait_poll"} /\ present /\ Spend("swipe")
  /\ \E p \in SwipeKinds :
       IF pc["poll"] = "wait_armed"
       THEN probe' = p /\ Goto("poll", "extract") /\ UNCHANGED attempt
       ELSE IF p.good
       THEN probe' = [p EXCEPT !.tall = FALSE] /\ Goto("poll", "hold") /\ UNCHANGED attempt
       ELSE NextAttempt /\ UNCHANGED probe
  /\ PollFrame
  /\ UNCHANGED <<screenLocked, prompt, notes, present, client, state, source, fails,
                 ackPending, abort, idleTicks, snap, rejects, lockedOut>>

\* End of capture_swipe_adaptive: a template is extracted only for an episode.
PExtract ==
  /\ pc["poll"] = "extract"
  /\ probe' = [probe EXCEPT !.good = @ /\ state = "POLLING"]
  /\ Goto("poll", "armed_done")
  /\ UNCHANGED <<attempt, idleTicks, snap>> /\ PollLocal

\* What the armed swipe is used for: to lock, or as the episode's probe.
PArmedDone ==
  /\ pc["poll"] = "armed_done"
  /\ Goto("poll", IF state = "LOCK_ARMED" /\ probe.tall THEN "lock_swipe"
                  ELSE IF state = "POLLING" /\ probe.good THEN "hold" ELSE "top")
  /\ UNCHANGED capVars /\ PollLocal

\* trigger_lockswipe: leave LOCK_ARMED first, so that on_screen_locked can arm.
PLockSwipe ==
  /\ pc["poll"] = "lock_swipe"
  /\ IF ~screenLocked /\ state = "LOCK_ARMED"
     THEN state' = "IDLE" /\ Goto("poll", "lock_key")
     ELSE Goto("poll", "top") /\ UNCHANGED state
  /\ PollFrame
  /\ UNCHANGED <<extVars, source, fails, ackPending, abort, capVars, rejects, lockedOut>>

\* post_lock_keystroke: the keystroke locks the screen, or does nothing.
PLockKey ==
  /\ pc["poll"] = "lock_key"
  /\ \/ ~screenLocked /\ screenLocked' = TRUE /\ notes' = Append(notes, "locked") /\ served' = FALSE
     \/ UNCHANGED <<screenLocked, notes, served>>
  /\ Goto("poll", "lock_check")
  /\ UNCHANGED <<confVars, target, loadVars, watchVars, yieldVars, arg, prompt, present,
                 client, left, state, source, fails, capVars, rejects, lockedOut>>

\* A second later: re-arm when the screen did not lock.
PLockCheck ==
  /\ pc["poll"] = "lock_check"
  /\ IF ~screenLocked /\ state = "IDLE" THEN Call("poll", "try_arm", "top") ELSE Goto("poll", "top")
  /\ UNCHANGED capVars /\ PollLocal

\* The captured swipe is held until the templates are ready or the episode ends.
PHold ==
  /\ pc["poll"] = "hold" /\ (ready \/ state # "POLLING")
  /\ Goto("poll", IF state = "POLLING" THEN "score" ELSE "top")
  /\ UNCHANGED capVars /\ PollLocal

\* load_match_threshold: an unreadable or out-of-range value means the default.
Threshold_Unchecked(c) == c
Threshold(c) == IF c \in 20..40 THEN c ELSE 20

\* vfs5011_match_score over the enrolled templates (external: bozorth3 gives
\* another person's finger less than the minimum threshold).
BestScores(n) ==
  IF n = 0 THEN {-1} ELSE {s \in Scores : probe.finger = "stranger" => s < 20}

\* The snapshot under g_templates_lock, the best score, the verdict.
PScore ==
  /\ pc["poll"] = "score"
  /\ snap' = cache
  /\ \E s \in BestScores(cache.n) :
       Goto("poll", IF s >= Threshold(conf) THEN "matched" ELSE "rejected")
  /\ UNCHANGED <<attempt, idleTicks, probe>> /\ PollLocal

\* The match branch up to typing: a padlock's target is looked at again, a lock
\* screen is given time to settle.
PMatched ==
  /\ pc["poll"] = "matched"
  /\ Goto("poll", IF (source = "PADLOCK" /\ Visible # target) \/ ~snap.pw THEN "end_match"
                  ELSE IF source = "LOCK_SCREEN" THEN "settle_wait" ELSE "type")
  /\ UNCHANGED capVars /\ PollLocal

\* wait_for_lock_screen_settle, then the state is read again.
PSettleWait ==
  /\ pc["poll"] = "settle_wait"
  /\ Goto("poll", IF state = "POLLING" THEN "type" ELSE "end_match")
  /\ UNCHANGED capVars /\ PollLocal

\* type_password_and_enter: the events go to whatever has the focus.
PType ==
  /\ pc["poll"] = "type"
  /\ Goto("poll", "end_match")
  /\ UNCHANGED capVars /\ PollLocal

PEndMatch ==
  /\ pc["poll"] = "end_match"
  /\ source' = "NONE"
  /\ Call("poll", "settle", "top")
  /\ PollFrame
  /\ UNCHANGED <<extVars, state, fails, ackPending, abort, capVars, rejects, lockedOut>>

OutOfSwipes_OneMore(n) == n > MaxFailedSwipes
OutOfSwipes(n) == n >= MaxFailedSwipes

\* A scored swipe that matched nothing.
PRejected ==
  /\ pc["poll"] = "rejected"
  /\ fails' = fails + 1 /\ rejects' = rejects + 1
  /\ Goto("poll", IF OutOfSwipes(fails') THEN "lockout" ELSE "top")
  /\ PollFrame
  /\ UNCHANGED <<extVars, state, source, ackPending, abort, capVars, lockedOut>>

\* Out of attempts: the episode is over.
PLockout ==
  /\ pc["poll"] = "lockout"
  /\ lockedOut' = (lockedOut \/ source = "LOCK_SCREEN")
  /\ source' = "NONE" /\ fails' = 0
  /\ Call("poll", "settle", "top")
  /\ PollFrame
  /\ UNCHANGED <<extVars, state, ackPending, abort, capVars, rejects>>

PollStep ==
  \/ ArmStep("poll") \/ Disarm("poll") \/ Settle("poll")
  \/ PTop \/ PBranch \/ POpen \/ PUnplugged \/ PAbort \/ PExtract \/ PArmedDone
  \/ PLockSwipe \/ PLockKey \/ PLockCheck \/ PHold \/ PScore
  \/ PMatched \/ PSettleWait \/ PType \/ PEndMatch \/ PRejected \/ PLockout

-----------------------------------------------------------------------------
(* load_templates_thread_main, one thread per episode. Nothing ties a loader *)
(* to the episode it was started for, and several may run at once.          *)

LoadFrame == UNCHANGED <<confVars, state, epVars, watchVars, fails, yieldVars, arg,
                         capVars, histVars>>

\* mount_template_volume: the script succeeds also when the volume is mounted.
LMount(l) ==
  /\ pc[l] = "mount"
  /\ \/ mounted' = TRUE /\ Goto(l, "read") /\ UNCHANGED left
     \/ Spend("fault") /\ Goto(l, "failed") /\ UNCHANGED mounted
  /\ LoadFrame
  /\ UNCHANGED <<screenLocked, prompt, notes, present, client, ready, cache>>

\* The part of load_templates_for_episode under g_templates_lock. What is read
\* is external; with the volume gone nothing can be.
LRead(l) ==
  /\ pc[l] = "read"
  /\ cache' \in IF mounted THEN Volumes ELSE {Empty}
  /\ Goto(l, IF cache'.n > 0 THEN "unmount_ok" ELSE "unmount_bad")
  /\ LoadFrame /\ UNCHANGED <<extVars, ready, mounted>>

\* unmount_template_volume: unmounts whoever mounted it.
LUnmount(l) ==
  /\ pc[l] \in {"unmount_ok", "unmount_bad"}
  /\ mounted' = FALSE
  /\ Goto(l, IF pc[l] = "unmount_ok" THEN "publish" ELSE "drop")
  /\ LoadFrame /\ UNCHANGED <<extVars, ready, cache>>

LPublish(l) ==
  /\ pc[l] = "publish"
  /\ ready' = TRUE
  /\ Goto(l, "off")
  /\ LoadFrame /\ UNCHANGED <<extVars, cache, mounted>>

\* g_enrolled_count = 0 after a load that found nothing; the password stays.
LDrop(l) ==
  /\ pc[l] = "drop"
  /\ cache' = [cache EXCEPT !.n = 0]
  /\ Goto(l, "failed")
  /\ LoadFrame /\ UNCHANGED <<extVars, ready, mounted>>

LFailed_KeepsEpisode(l) ==
  /\ pc[l] = "failed" /\ Goto(l, "off")
  /\ LoadFrame /\ UNCHANGED <<extVars, loadVars>>

\* A failed load ends the episode that is running.
LFailed(l) ==
  /\ pc[l] = "failed"
  /\ IF state = "POLLING" THEN Call(l, "settle", "unwind") ELSE Goto(l, "off")
  /\ LoadFrame /\ UNCHANGED <<extVars, loadVars>>

LoaderStep(l) ==
  \/ ArmStep(l) \/ Settle(l) \/ Unwind(l)
  \/ LMount(l) \/ LRead(l) \/ LUnmount(l) \/ LPublish(l) \/ LDrop(l) \/ LFailed(l)

-----------------------------------------------------------------------------
(* External: the window server, the user, the bus, the interactive client.  *)

EnvFrame == UNCHANGED <<confVars, state, epVars, loadVars, watchVars, fails, pc, ret, arg,
                        capVars, rejects, lockedOut>>

LockScreen ==
  /\ ~screenLocked /\ Spend("lock")
  /\ screenLocked' = TRUE /\ notes' = Append(notes, "locked") /\ served' = FALSE
  /\ EnvFrame /\ UNCHANGED <<prompt, present, client, yieldVars>>

\* screenIsUnlocked is not always posted (typing the password after a cold boot).
UnlockScreen ==
  /\ screenLocked /\ screenLocked' = FALSE /\ served' = FALSE
  /\ \/ notes' = Append(notes, "unlocked") /\ UNCHANGED left
     \/ Spend("lost") /\ UNCHANGED notes
  /\ EnvFrame /\ UNCHANGED <<prompt, present, client, yieldVars>>

\* A padlock prompt appears, or is answered, cancelled, or loses the focus.
PromptShow(p) ==
  /\ ~screenLocked /\ prompt = NoPid /\ Spend("prompt")
  /\ prompt' = p /\ served' = FALSE
  /\ EnvFrame /\ UNCHANGED <<screenLocked, notes, present, client, yieldVars>>

PromptHide ==
  /\ ~screenLocked /\ prompt # NoPid
  /\ prompt' = NoPid /\ served' = FALSE
  /\ EnvFrame /\ UNCHANGED <<screenLocked, notes, present, client, left, yieldVars>>

Plug ==
  /\ Spend("plug") /\ present' = ~present
  /\ EnvFrame /\ UNCHANGED <<screenLocked, prompt, notes, client, yieldVars, served>>

\* sensor_yield_begin and sensor_yield_end of hack_touchid_client.c. The client
\* asks only while the swipe-to-lock flag is set, waits YIELD_WAIT_SEC for the
\* confirmation and then uses the sensor in any case.
ClientFrame == EnvFrame /\ UNCHANGED <<screenLocked, prompt, present, yieldVars, served>>
ClientBegin ==
  /\ client = "off" /\ lockswipe /\ Spend("yield")
  /\ client' = "waiting" /\ notes' = Append(notes, "yield_begin")
  /\ ClientFrame
ClientTimeout ==
  /\ client = "waiting" /\ client' = "timedout"
  /\ ClientFrame /\ UNCHANGED <<notes, left>>
ClientDone ==
  /\ client \in {"ready", "timedout"}
  /\ client' = "off" /\ notes' = Append(notes, "yield_end")
  /\ ClientFrame /\ UNCHANGED left
ClientCrash ==
  /\ client # "off" /\ client' = "off" /\ Spend("fault")
  /\ ClientFrame /\ UNCHANGED notes

\* YIELD_TIMEOUT_SEC passes: long enough for a pending abort to be acted on.
YieldExpires ==
  /\ yielded /\ ~expired /\ pc["main"] # "yield_abort" /\ ~(abort /\ ackPending)
  /\ expired' = TRUE
  /\ EnvFrame
  /\ UNCHANGED <<extVars, yielded, ackPending, abort, served>>

EnvStep ==
  \/ LockScreen \/ UnlockScreen \/ PromptHide \/ (\E p \in Pids : PromptShow(p)) \/ Plug
  \/ ClientBegin \/ ClientTimeout \/ ClientDone \/ ClientCrash \/ YieldExpires

Next ==
  \/ MainStep \/ MainEvent \/ MainRequest \/ Tick
  \/ PollStep \/ PCaptureFails \/ PSwipe
  \/ \E l \in Loader : LoaderStep(l)
  \/ EnvStep

Spec == Init /\ [][Next]_vars

\* Every thread runs, the run loop serves its timer and its notifications. The
\* user, the bus and the client owe nothing, except that a yield runs out.
Fairness ==
  /\ WF_vars(MainStep) /\ WF_vars(MainEvent) /\ WF_vars(Tick) /\ WF_vars(PollStep)
  /\ \A l \in Loader : WF_vars(LoaderStep(l))
  /\ WF_vars(YieldExpires)
FairSpec == Spec /\ Fairness

-----------------------------------------------------------------------------
(* Invariants.                                                             *)

ExtOK ==
  /\ screenLocked \in BOOLEAN /\ prompt \in Pids \cup {NoPid} /\ notes \in Seq(Notes)
  /\ present \in BOOLEAN /\ client \in {"off", "waiting", "ready", "timedout"}
  /\ left \in [EnvEvents -> Nat]
  /\ scanning \in BOOLEAN /\ lockswipe \in BOOLEAN /\ conf \in ConfValues
EpisodeOK ==
  /\ state \in States /\ source \in Sources /\ target \in AnyPid /\ fails \in Nat
  /\ debounce \in BOOLEAN /\ ticks \in 0..HealTicks-1
LoadOK == ready \in BOOLEAN /\ cache \in Contents /\ mounted \in BOOLEAN
YieldOK ==
  yielded \in BOOLEAN /\ expired \in BOOLEAN /\ ackPending \in BOOLEAN /\ abort \in BOOLEAN
ControlOK ==
  /\ pc \in [Thread -> AllLabels] /\ \A t \in Thread : pc[t] \in Labels(t)
  /\ ret \in [Thread -> AllLabels] /\ \A t \in Thread : ret[t] \in {Home(t), "unwind"}
  /\ arg \in [source : Sources, pid : AnyPid]
CaptureOK ==
  /\ attempt \in 1..(MaxSwipeRetries + 1) /\ idleTicks \in 0..HealPeriod-1
  /\ probe \in Swipes /\ snap \in Contents
HistoryOK == served \in BOOLEAN /\ rejects \in Nat /\ lockedOut \in BOOLEAN

\* Every variable keeps its type; in particular every thread stays on its own
\* control points and a call returns to a point of the calling thread.
TypeOK == ExtOK /\ EpisodeOK /\ LoadOK /\ YieldOK /\ ControlOK /\ CaptureOK /\ HistoryOK

\* polling_thread_main types the password only for a swipe that load_match_threshold
\* and the score accept against at least one template loaded from the volume, and
\* only with a stored password: whatever match_threshold.conf holds, and however
\* loaders, unlocks and new episodes overlap with the scoring. A swipe captured for
\* swipe-to-lock is used only if its template was extracted and is good enough.
TypesOnlyForOwner ==
  /\ pc["poll"] \in {"hold", "score", "matched", "settle_wait", "type"} => probe.good
  /\ pc["poll"] \in {"matched", "settle_wait", "type"} => probe.finger = "owner" /\ snap.n > 0
  /\ pc["poll"] \in {"settle_wait", "type"} => snap.pw

\* MAX_FAILED_SWIPES: no episode scores more rejected swipes than that, and the
\* last one ends it, although three threads reset g_failed_swipes.
RejectsBounded ==
  /\ rejects <= MaxFailedSwipes
  /\ rejects = MaxFailedSwipes /\ state = "POLLING" => pc["poll"] \in {"lockout", "settle"}

\* The debounce flag of auth_prompt_poll_callback: a prompt that stays on screen is
\* armed for at most once, also after its episode ended in a lockout.
OneEpisodePerPrompt ==
  pc["main"] = "arm_go" /\ arg = [source |-> "PADLOCK", pid |-> Visible] => ~served

\* lockswipe_try_arm, run by three threads at once, never takes over an episode that
\* the main run loop starts after its checks: LOCK_ARMED is never entered from POLLING.
NeverArmsOverEpisode == [][state = "POLLING" => state' # "LOCK_ARMED"]_vars

-----------------------------------------------------------------------------
(* Liveness, under Fairness.                                               *)

\* The stuck-episode heal of auth_prompt_poll_callback: a lock-screen episode whose
\* screen is no longer locked ends although no screenIsUnlocked arrived.
StuckEpisodeHeals ==
  (state = "POLLING" /\ source = "LOCK_SCREEN" /\ ~screenLocked)
    ~> (state # "POLLING" \/ source # "LOCK_SCREEN" \/ screenLocked)

\* on_screen_locked, also when trigger_lockswipe locked the screen: unless an episode
\* is running, a lock starts one, wherever the polling thread is between LOCK_ARMED,
\* the keystroke and the re-arm.
LockStartsEpisode ==
  (notes = <<"locked">> /\ scanning /\ present)
    ~> (state = "POLLING" \/ ~scanning \/ ~present)

\* A swipe held for the templates is released: the loader publishes, or its failure
\* ends the episode, or the screen is unlocked.
HeldSwipeReleased == (pc["poll"] = "hold") ~> (pc["poll"] # "hold")

\* on_yield_request while swipe-to-lock is armed: the client is told that the sensor
\* is free, whatever the polling thread is doing, even inside a capture that waits for
\* a finger. A loader left over from an earlier episode may disarm between the request
\* and the look at g_state, and then nothing aborts the capture; it is excluded.
ArmedYieldConfirmed ==
  (/\ pc["main"] = "yield_abort" /\ state = "LOCK_ARMED" /\ client = "waiting"
   /\ \A l \in Loader : pc[l] = "off") ~> (client # "waiting")

\* lockswipe_try_arm from the idle polling thread: swipe-to-lock does not stay
\* disarmed while it is wanted (after a resume, a replug, a yield whose client died),
\* unless the thread is still inside a capture begun before.
SwipeToLockWanted ==
  lockswipe /\ scanning /\ Tahoe /\ present /\ ~screenLocked /\ client = "off"
SelfHeals ==
  []<>(SwipeToLockWanted => state # "IDLE" \/ pc["poll"] \in {"wait_poll", "wait_armed"})

=============================================================================
