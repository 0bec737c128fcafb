# A TLA+ model of the Hackintosh Touch-ID daemons

This project models and verifies the control logic of VFS5011-hackintosh: fingerprint
readers that macOS does not support are driven by a user-space daemon that unlocks the
screen, answers password prompts by typing the stored password, and locks the screen on a
swipe. Around the daemons it covers the configuration client that enrols fingers and
installs everything, the pairing and storage of the sensor that matches on the chip, and the
detection and scoring of minutiae for the sensor that does not. File and line references are
to the repository; `PROJECT.json` maps every definition to the lines it models.

## 1. Inventory

### 1.1 The parts and how they interact

| Part | State it keeps | Operations | Talks to |
|---|---|---|---|
| VFS5011 daemon (`vfs5011/vfs5011_daemon.c`) | `g_state` (IDLE, POLLING, LOCK_ARMED), trigger source and target, template cache and password, failure counter, yield flags | main run loop (lock/unlock, prompt watcher every 300 ms, requests), polling thread (capture, score, type, lock), one loader thread per episode | sensor (libusb), window server, template volume, menu bar, client |
| Menu-bar IPC (`vfs5011/hack-touchid-menubar-ipc.c`, copied in `Hackintosh-TouchID-Menubar/daemon-patch`) | flag files: scanning, swipe-to-lock, match threshold | set and report a setting, relay yield requests | distributed notifications, on the daemon's run loop |
| Client, fingers (`hack_touchid_client.c`) | the mounted volume, finger files, file of print names, password, host identity file, a yield under way | enrol, verify, rename, delete, set or clear the password, wipe; from the menu or as a headless call | notifications, sensor, volume |
| Client, installation (same file) | the client's tree and `VERSION.txt`, daemon binary and agent, menu-bar app, preference panes | check, update, deploy, uninstall; from the menu or in a Terminal window | network, `launchctl`, scripts |
| Metallica agent (`metallica/metallica_mis_agent.c`) | as the VFS5011 daemon, with a device session and no templates | the same threads; the chip matches | Metallica session and enrolment code |
| Metallica enrolment (`metallica/metallica_mis_enroll.c`) | one enrolment or identification in progress | capture, add a touch, commit, identify, wipe | the session's encrypted commands |
| Metallica session (`metallica_mis_daemon.c`, `metallica_mis_tls.c`, `metallica_mis_init_flash.c`) | keys, sequence state, pairing | open, handshake, pair, send a command | USB |
| Metallica storage and set-up (`_flash`, `_db`, `_firmware`, `_upload_fwext`, `mmis_timeslot`, `mmis_calibrate`, `mmis_factory_bits`, `mmis_rom_info`) | the chip's flash partitions and record database | read, write, erase, program rewriting | session |
| UPEK daemon (`upek/upek_daemon.c`) | an earlier form of the VFS5011 state machine | capture, score, type | sensor |
| Matcher and template format (`shared/sen`) | none | extract, score | NBIS |
| Menu-bar app, preference pane (Swift) | cached settings | show and change settings | notifications, files |
| Volume scripts (`vol/`) | the mounted encrypted image | mount, unmount | `hdiutil` |
| Accessibility probe, authorization plug-in spike, install and CI scripts | none | diagnostics and set-up | system |
| NBIS mindtct and bozorth3 (`NBIS`) | within a call: direction maps, binary image, list of minutiae; across calls: the global match table | detect minutiae, score a probe against a template | matcher |
| Protocol tables | none | generated bytes | - |

### 1.2 What is hard here

Each daemon has three kinds of threads that share a dozen globals. Most are single
atomics, there is one mutex (around the template cache), and nothing makes a *pair* of
accesses atomic. The following are hard to test, and are listed at their lines under
`hazards`:

* *Interleavings.* Swipe-to-lock is armed by any of three threads, while the run loop
  starts an episode. The match branch reads the trigger source long after the swipe was
  scored. Two loaders may run at once, and one unmounts the volume the other reads.
* *Stale results.* A loader is not tied to its episode.
* *Lost or late events.* macOS does not always post an unlock; a client may die while it
  holds the sensor; a yield may expire as a new one arrives.
* *Things that must eventually happen.* A stuck episode heals, a held swipe is released,
  an armed capture gives the sensor up, swipe-to-lock comes back.
* *A resource two programs want.* The Metallica agent keeps a session open across touches;
  the client asks for the sensor while a wait, a retry or a new episode is under way.
* *Crashes and lost answers.* Pairing rewrites the chip's flash partition by partition; a
  command may be carried out and its answer lost; the process may die between any two.
* *Programs that share a store and an installation.* The menu, the preference pane's
  headless calls and the daemon's loader mount and unmount one volume with no count of its
  users; the menu and a Terminal run replace the same files.
* *Paths that must clean up.* Some forty paths of the client mount the volume or borrow the
  sensor; the traversal of the match table undoes what it paired.
* *Structures edited while they are used.* Minutiae removal fills loops in the picture that
  listed minutiae lie on, moves minutiae in a list it takes to be sorted, and refines the
  direction map in place; the match table of one comparison stays behind the next.
* *Boundaries.* Attempt limits with several resetting threads, the heal's tick limit, a
  threshold file with any number in it.

### 1.3 What makes it correct

The password is typed only for the owner's finger; a run of wrong fingers is bounded; a
prompt is served once; arming to lock never takes over an authentication; every wait
ends. The prints on the chip belong to the pairing in force and a reported result is
true; whatever the client does, the volume, the sensor and the installation are left in
order; a minutia in a template is one of the picture; a score is that of the best set of
clusters. These are the properties below.

## 2. Modules

| Module | Content |
|---|---|
| `Daemon` | the VFS5011 daemon, the request side of its IPC, the client's yield protocol, and the external world |
| `DaemonClaims` | a statement of a comment that the code does not keep |
| `DaemonProofs` | type correctness of `Daemon`; its safety properties, proved |
| `Agent` | the Metallica agent with its sensor session, and the same external world |
| `AgentProofs` | type correctness of `Agent`; its safety properties, proved |
| `PrintStore` | abstract: what the Metallica storage promises (`Forget`, `Adopt`, `Enrol`, `Remove`) |
| `Metallica` | opening, bootstrap, pairing, firmware upload and handshake of the sensor, with faults |
| `MetallicaPrints` | what is done inside a session, and the whole system (`MSpec`, `FairSpec`) |
| `MetallicaSafety` | its properties, and the refinement of `PrintStore` |
| `MetallicaProofs`, `MetallicaResults` | the refinement and two invariants; type correctness and the truth of results, proved |
| `ClientPrints` | the client's work on fingers, names, the password and the sensor |
| `ClientInstall` | updates, deployment and uninstallation |
| `ClientSafety` | both, and their properties |
| `ClientProofs` | its invariants, proved |
| `NbisImage` | padding, depth, the image as a function, loop filling, straight lines of pixels |
| `NbisContour` | tracing a contour, its loops and its turning points |
| `NbisMaps` | the direction maps, the binarization |
| `NbisMinutiae` | scanning for minutiae, adding one to the list |
| `NbisRemove` | the removal of false minutiae |
| `NbisRidges` | neighbours, ridge counts, quality |
| `Mindtct` | the pipeline of these, one action per call |
| `MindtctSafety` | its properties |
| `MindtctProofs` | the refinement of the direction map proved to end stable, minutiae to stay in the image, neighbours to be the closest |
| `Bozorth` | the web of edges, the match table, its traversal and the clusters |
| `BozorthSafety` | its properties |
| `BozorthProofs` | its invariants, proved: the table, its traversal, the clusters and the best set of them |
| `Induction` | induction over numbers and greatest elements, for the proofs |
| `MCDaemon`, `MCAgent`, `MCMetallica`, `MCClient`, `MCMindtct`, `MCBozorth` | the instances for TLC |

`Daemon` and `Agent` are alternatives, one per kind of sensor: the repository installs one
or the other, and they share code by copy. They are therefore separate modules and not
instances of one, so that each can be compared with its own file.

### 2.1 `Daemon`

*Threads.* `pc[t]` is the control point of a thread: `"main"` (the CFRunLoop), `"poll"`
(`polling_thread_main`), and one thread per member of `Loader`. An action is the stretch
of one thread between two accesses to shared state that another thread can change.
`lockswipe_try_arm`, `lockswipe_disarm` and `settle_to_idle` are called from all of
them, so their actions take the thread as a parameter; `ret[t]` is the return point.

*Main run loop.* `OnScreenLocked`, `OnScreenUnlockedNote` (then `OnScreenUnlocked`,
`WipeCache`, `Unready`), `Tick` (`auth_prompt_poll_callback`), `ArmCheck`, `ArmTrigger`,
`ArmGo`, `SpawnLoader`, `SpawnFails` (`arm_polling_for_trigger`), `SetScanning`,
`SetLockswipe`, `SetMatchThreshold` (the IPC's setters), `YieldBegin`, `YieldAbort`,
`YieldEnd` (`on_yield_request`).

*Polling thread.* `PTop` (top of loop, yield acknowledgement), `PBranch` (dispatch and
idle heal), `POpen`, `PSwipe`, `PCaptureFails`, `PUnplugged`, `PAbort` (the captures),
`PExtract`, `PArmedDone`, `PLockSwipe`, `PLockKey`, `PLockCheck` (swipe-to-lock),
`PHold`, `PScore`, `PMatched`, `PSettleWait`, `PType`, `PEndMatch`, `PRejected`,
`PLockout` (an episode).

*Loader.* `LMount`, `LRead`, `LUnmount`, `LPublish`, `LDrop`, `LFailed`.

*Data.* A template cache is a number of templates and whether there is a password
(`Contents`); a swipe is whose finger it is, whether it has enough minutiae, whether it
is long enough to lock (`Swipes`). A score is a number; the assumption on the matcher
(`BestScores`, external) is that another person's finger scores below the lowest
threshold the daemon accepts, 20. That is the biometric's promise and cannot be derived
from the code; what is checked is that nothing *around* the matcher defeats it.

*External.* Locking and unlocking, prompts, the bus, the volume's content and the client
are nondeterministic. `Budget` bounds how often each happens; the proofs hold for every
budget. The three history variables `served`, `rejects`, `lockedOut` are written and
never read by the actions.

*Abstractions worth knowing.* One tick of the watcher is one action whenever the run
loop is free; 300 ms and the settling delays are not timed. `YieldExpires` waits for a
pending abort to be acted on: the timeout is 300 s and an abort takes well under one.
A pthread that cannot be created is the same as every loader of the instance being busy.

### 2.2 `Agent`

The chip matches, so there is no template cache and no score; what is new is the session.
`polling_thread_main` is `PTop` (confirm a yield if no session is held, read `g_state`
into `st`), `PWant` (`want_session`; close the session when nothing is wanted), `POpen`
(open, with retries and two final failures), then one of `PAbort` (`abort_wait_cb` while
waiting for a finger), `PNoFinger`, `PError`, `PTouch`. A touch goes to `PTouchLock`,
`PLockKey`, `PLockCheck` when the wait was for Touch to Lock, and to `PHeld`, `PMatched`,
`PSettleWait`, `PType`, `PEndMatch` (`handle_match`) or `PRejected`, `PGiveUp`
(`handle_no_match`, `abandon_episode`) when it was for an episode. `st` also stands for
`g_wait_state`, which is a copy of it during the wait.

The run loop is as in `Daemon`, with differences that matter: an unlock does not re-arm
(`EndByUnlock`), every end of an episode starts a grace period (`grace`,
`g_arm_not_before`), and the prompt watcher heals both a stuck episode and Touch to Lock
(`Tick`, then `Watch`).

`yield_is_active` drops a yield whose deadline has passed by a store that does not look
again. It is called from four places; the store is an action of its own (`DropYield`), so
a new request can arrive in between. When it does, its flag is overwritten: the client is
told the sensor is free, or waits until its own timeout, while the agent is not yielding.
The properties about yields are therefore stated for a yield in force, and the race is
listed as a hazard. It needs a request in the instant another one's 300 s run out.

`metallica_mis_agent_open` and `_identify` are one step each: their result is what the
control flow depends on, and it comes from `OpenResults` and `WaitErrors`. A sensor that
is unplugged gives errors only. `acked` and `rejects` are history variables.

### 2.3 `Metallica` and `MetallicaPrints`

One host process runs one operation at a time: `mode` is the operation, `pc` the place in
it, `n` and `m` its loop counters, `host` the product name and serial number the keys are
derived from, `rc` what it will return and `last` what the last one returned. On the chip,
`flash` holds the partitions (is there a table, whose identity is in partition 1, is the
firmware there and loaded, is there a clean slate), `db` the records and the one that is
staged, `wire` whether the chip is in a session, `armed` whether it waits for a finger.

*One action per command.* A command gets through (`"ok"`), is lost (`"lost"`), or is carried
out with its answer lost (`"late"`); `Send(r, p)` goes on at `p` when the answer came and
leaves the operation with a failure when not. `Die` and `Replug` happen between any two.
The flash keeps its content through all of them, which is the fault the design has to
survive.

*Actions and code.* `OpenDevice` to `CleanSlateBlob` are `open_device` and the plaintext
bootstrap (`metallica_mis_daemon.c`), with the busy answers and the resets of a sensor that
is stuck in a session. `GetFlashInfo` to `WriteTlsFlash` are `init_flash`
(`metallica_mis_init_flash.c`) in its order: reset blob, partition table, the chip's key,
handshake, erase 1, 2, 5, 6, 4, write 1. `GetFwInfo` to `Reopen` are
`metallica_mis_upload_fwext.c` and the reopening after the reboot; `ReadTlsFlash` is
`metallica_mis_tls.c`'s reading of the stored identity. `ListRecords` to `CommitRecord` are
`metallica_mis_db.c`, calibration and `metallica_mis_enroll.c`; `CaptureStart` to
`CaptureStop` are `capture_mode` with its interrupts; `MatchFinger`, `AgentIdentify` and
`AgentClose` are the verification and the agent. `OtherEnrols` is another program that
stores a record under the same pairing.

*External, from how the code uses it.* The chip accepts a partition table when it is
paired, refuses flash accesses outside a session, and keeps a staged record until the
clean-up command that follows. `gen` distinguishes the key pairs of successive pairings.

*What the model showed about the code.* A process that dies after partition 1 is
written and before the firmware is there leaves a chip whose next pairing run uploads in
plaintext. A firmware file cut short by an interrupted download blocks every later upload,
which is why `ForceRecovers` excludes it. A record that is committed with its answer lost
is reported as a failure although it is there. A replacement wipes before an enrolment that
can still fail. When `open_device` fails, the handle stays set (`hnd = "dead"`) until the
process ends. An empty identity is accepted as absent, and the handshake then fails.
`match_finger` returns -1 where its comment says -2.

### 2.4 `ClientPrints` and `ClientInstall`

Both halves of the client are processes over shared files, and no file has a lock. The
halves share no variable; `ClientSafety` checks each on its own (`half`).

`ClientPrints` has three processes: the menu, a headless call of the preference pane (a new
process every time) and the daemon's loader. `vol` is the volume (mounted or not, finger
files, print names, password), `chip` the prints on a Metallica sensor, `conf` the host
identity file, `yielding` the daemon's yield. `mem[p]` is what a process remembers: the
cached list of labels, the names it read, the result it will return. Mounting and unmounting
are actions (`Mount`, `Unmount`) and the functions call them as the code does, with the
place to come back to; `End` ends a yield. `ChooseLabel` to `SaveOrRemove` are enrolment and
deletion of finger files, `Verify` and `Score` the test, `ClearPassword` to
`DeployPassword` the password, `AskIdentity` to `SessionAgain`
`mmis_run_with_host_identity`, `EnsureNames` to `WriteNames` the aliases of prints.
Confirmations are choices, failures of scripts and sessions are faults from a budget.

`ClientInstall` has the menu and a Terminal run. `remote` is what is published, `exec` the
client's own tree and `VERSION.txt`, `svc` the daemon (binary, agent, running version and
the rest), `bar` and `panes` the other bundles. `CheckUpdate`, `Download`, `Swap` and
`Relaunch` are an update, `RemoveDaemon`, `Redeploy`, `Deploy`, `Script` the deployment
script step by step, `Survey` and `Uninstall` the removal with its verdict. A version
stands for a version and build in the order `remote_is_newer` compares them.

*Left to the reader of the properties.* The properties are conditional where the code's
promise is. Seen while modelling, all between processes that nothing serialises: two
updaters may leave an older version; a stale `toggle_beta` overwrites `VERSION.txt`; a
redeployment is reported as done when no daemon was deployed (`main` returns 0 after
`--deploy-agent`, and 6776-6787 always holds although the comment at 6865 says otherwise);
a declined shared store is nevertheless used later (1624 against 1615-1623); `Swap` ignores
a failed copy and leaves no client (6413-6416 against 6187-6191); an uninstallation may
remove the binary between a deployment's steps; a finger is overwritten, or the limit
missed, when the cached list is stale; a name written by one process is lost when the other
writes its older list; the rename of a foreign slot is dropped at the next start; an
enrolment left without a name keeps the alias of the print that was in its slot; pairing
and calibration do not ask the agent for the sensor; and the end of the pane's yield
releases the menu's.

### 2.5 `Mindtct` and the `Nbis` modules

`get_minutiae` is a pipeline, and `Mindtct` has one action per call that
`lfs_detect_minutiae_V2`, `gen_image_maps`, `remove_false_minutia_V2` and
`vfs5011_extract_template` make, in their order (`step`). The calls themselves are operators
of the `Nbis` modules with the names of the C functions: direction maps from the powers of
four waves per window, their refinement in spirals, the binarization by grids along the
ridges, both scans with the joining of like minutiae, every removal step, neighbours, ridge
counts, quality and the template. Images are functions from pixels to values, blocks are
pairs, loops over a contour are sequences. Loops of the code are recursive functions, most of
them through `InOrder`, which deals with the members of a sequence one after the other.

Fixed-point numbers stand for the floating-point ones: sines in thousandths
(`MCSine`), powers and thresholds scaled accordingly. Memory allocation, and functions that
nothing here calls, are left out (the V1 scans and IMAP functions, `get_loop_list`,
`remove_perimeter_pts`, `bits_6to8`).

The operators have been compared with the compiled C functions on random images, outside
this project. Oddities of the code are modelled as they are: `get_centered_contour` forgets
that its second half met the first, because the allocation after it overwrites the return
code (`contour.c:339`); `fill_loop` has its own idea of adjacent points in a row
(`loop.c:1229-1245`); `sort_minutiae_x_y` ranks by `x * iw + y` (`minutia.c:585`);
interpolated directions are averaged linearly, not on the circle; the block of a pixel is
computed in two ways. For images of 8 to 16 lines the low-contrast window (`maps.c:305-330`)
does not fit inside the padding chosen for it, and the daemon asks only for two lines
(`vfs5011_daemon.c:407`); the instance's image is higher. The removal of hooks and overlaps
relies on a list sorted by row (`remove.c:299`, `1308`) that the side step before them may
unsort; `OverlapsRemoved` is checked because it could fail. It holds on every image of the
instance.

### 2.6 `Bozorth`

A comparison is `bz_comp` on both templates and `bz_find`'s cut (`Compare`), `bz_match`, one
edge of the probe at a time (`MatchEdge`, then `Match`, which sorts the pairs into the
table), and then `bz_match_score` row by row. `NextRow` begins a row's paths, `GatherRow`
sifts the rows with the same start pair. For every minutia in the queue, `FollowBack` sifts
the later rows that end at its pair and `FindRun` and `FollowRun` those that start there.
`JudgePath` asks whether the path is a cluster, `UndoPath` undoes its pairs, `Turn` makes
the next choice among the alternatives, with `Abandon` for a choice that clashes, and
`ReleaseRow` ends the row. `FinalLoop` combines clusters and `Report` adds the score to the
list. Every call of `bz_sift` is a step of its own, because the invariants are about what is
paired between two of them; the sums over a cluster (`Total`) and the search for the best set
of clusters (`BestOf`, `bz_final_loop`) are recursive functions. Rows that agree, minutiae of
a cluster and the clusters joined to it (`with`) are sets: the code keeps them in arrays, in
an order that nothing reads.
`colp` is the global table: it is not cleared, a smaller comparison overwrites only its own
rows. `w` is the traversal's state under the C names (`tq`, `rq`, `qq`, `sc`, ...). Insertion
into a sorted list, in `bz_comp` and `bz_match`, is stated by its result, the order of the
keys (`InOrder`); that new entries go behind their equals is in the keys' last two places.

These operators, too, were compared with the compiled code on random templates. Particular
to the code and modelled as it is: an overflow of the queue returns 4000, far above any
threshold; the last edge of the probe is never compared; `bz_find` keeps one edge more than
the limit; undoing a choice can clear the start pair. Up to
ten alternatives of an endpoint fit their array and no bound is checked; five is the most
any template of the comparison reached.

## 3. Runs

The runs of the daemon and the agent check deadlock. The others end: operations, runs,
comparisons or images run out, and their configurations switch the check off. TLC takes
between half a minute and three minutes on each.

| Run | Instance | What it asks |
|---|---|---|
| `auth` | two loaders, one lock, one prompt, two swipes, every content of the volume, a threshold file of 5 or 30 | `TypesOnlyForOwner`, `RejectsBounded`, `OneEpisodePerPrompt` when a lock-screen and a padlock episode and their loaders overlap |
| `lock` | swipe-to-lock on; a lock, a lost unlock, one plug or unplug, one settings change, one swipe of every kind | `NeverArmsOverEpisode` |
| `live_lock` | as `lock`, without the bus, under `FairSpec` | `StuckEpisodeHeals`, `LockStartsEpisode`, `HeldSwipeReleased` |
| `live_yield` | one yield by a client that may time out or die, one swipe, under `FairSpec` | `ArmedYieldConfirmed`, `SelfHeals` |
| `agent_safe` | the agent with Touch to Lock on; a lock, a lost unlock, one plug or unplug, one settings change, three touches, opens that succeed, fail or are refused, waits that fail | `TypeOK` with the session discipline, `RejectsBounded`, `EpisodeKept` |
| `agent_live` | one prompt, one yield by a client that may time out or die, opens that may fail, under `FairSpec` | `YieldConfirmed`, `YieldedSensorFree`, `EpisodeGetsSensor`, `SessionReleased`, `TouchToLockReturns` |
| `metallica` | four operations of any kind in a row under two host identities, two faults anywhere (837,116 states) | `PrintsFollowPairing` (the refinement), `ResultsAreTrue`, `SessionIsOurs`, `CaptureStopped`, `Terminates`, `ForceRecovers` |
| `client` | fingers: three operations of menu and pane with the loader in between, one fault; installation: two processes, two choices, one failure (3,375,517 states) | `NamesUnique`, `NothingLeftBehind`; `DaemonMatchesClient`, `UninstallComplete` |
| `mindtct` | 512 images of 20 x 17 pixels in four directions (12,800 states) | `NoStaleMinutiae`, `StableMap`, `NearestNeighbours`, `OverlapsRemoved` |
| `bozorth` | templates of three to nine minutiae: parts of a grid, two comparisons in a row; twins; islands moved one by one (318,133 states) | `PairsComplete`, `OneToOne`, `PathsCleanedUp`, `BestClusters` |

Every module's `TypeOK` is checked in one run of its component.

*Bounds.* Two rejected swipes (`MaxFailedSwipes = 2`) and one retry are enough to reach the
lockout and the second attempt; the heal limits are 1 or 2 ticks, where the code has 10, so
that both the tick below the limit and the one at it occur. Two loaders are the fewest that
overlap; they are interchangeable, hence the symmetry set in `auth`, which has no liveness
property. Three touches in `agent_safe` are one more than `MaxFailedTouches`, so that a
third rejection would show; `MaxOpenFailures` is 1 there, where the first failure is final,
and 2 in `agent_live`, where the retry occurs. Score 19 and 20 are the two sides of the
lowest threshold.

In `metallica`, four runs are what it takes to pair, enrol, pair again and look; two faults
allow a lost answer and a crash after it; the limits on attempts are the smallest at which
the next-to-last and the last attempt differ. In `client`, two names and two slots are
enough for a duplicate, one foreign slot for a print the client did not make, and
`MaxFingers = 1` for the limit; two versions are enough for a tree and a daemon that
differ. In `mindtct` all lengths of `LFSPARMS` are shrunk with the image, so that every
removal step finds something to remove and the template's limit of three is reached. TLC
stops at any access outside an image; there is none. `NearestNeighbours` and the last part of
`NoStaleMinutiae` are stated for images no higher than wide, as in the instance (see
3.1). In `bozorth` the limits on the queue, on
clusters and on alternatives are small enough to be reached, and sets of three compatible
clusters occur; `MaxMinutiae` is the size of the largest print of the instance, where the
arrays of the code have 200 places.

*Fairness.* In the daemons each thread keeps running (`WF` of its steps); the run loop
serves its timer and its notifications; a yield's deadline and, in the agent, the grace
period pass. The user, the bus, the window server and the client owe nothing: no fairness on
a swipe, on an unlock, or on the client's `ClientTimeout`/`ClientDone`. In the Metallica
instance `HostNext` is weakly fair: every step of a host function ends in a command, a
bounded wait or a return. Nothing is owed by whoever starts operations, kills processes or
unplugs the sensor.

### 3.1 Claims the code does not keep

Each is a sentence of the repository, stated as a property, with the run that refutes it;
`findings` quotes the line.

| Run | The claim | What happens |
|---|---|---|
| `claim_other_app` | never types into whatever now has the focus | an unlock between the score and the read of the trigger source skips the focus check |
| `claim_stale_rows` | a score is that of the match table it is given | the search for the rows of a start pair runs on into rows that an earlier, larger comparison left; scores may change by several points |

Further divergences have no run of their own. Templates and password are not cleared when a
padlock episode ends, only by an unlock (comment at `vfs5011_daemon.c:1542`). A loader
started before an unlock may publish "ready" after the next lock. A prompt that appeared
while the daemon was paused is not armed after the resume, because its debounce flag is set.
A cancelled prompt leaves its episode running until the screen locks.
`sort_minutiae_x_y` promises a list sorted "left-to-right and then top-to-bottom"
(`minutia.c:556`), on which the neighbour search counts (`ridges.c:252`), but ranks by
`x * iw + y`: in an image higher than wide, a long swipe, a minutia far down comes after ones
of later columns. On images of 12 x 26 pixels TLC finds such a list; the search may then end
too early, and two minutiae at one place may not meet in `rm_dup_minutiae`.

## 4. Proofs

### 4.1 The VFS5011 daemon

`DaemonProofs` proves, for all constants that satisfy
`DaemonAssumption` (any number of loaders, prompts and events, any limits):

* `TypeCorrect`: `Spec => []TypeOK`, one lemma per group of variables. Control is the
  interesting part: a shared routine returns only to a point of the calling thread.
* `OwnerOnly`: `[]TypesOnlyForOwner`. Inductive with `TypeOK`: only the polling thread
  writes the probe and the snapshot (`OthersLeavePoll`), and `ThresholdMin` shows that
  no threshold file yields less than 20.
* `AttemptsBounded`: `[]RejectsBounded`. The property is not inductive, because the code
  compares `g_failed_swipes` while the property counts `rejects` since the episode was
  armed. `RejectsInv` relates the two: while an episode is on, the counter is no smaller
  than the number of its rejected swipes, except on the way out through the lockout; the
  counter reaches the limit only at the lockout; and a swipe is scored only while an
  attempt is left. `OthersCount` shows that every reset by another thread either starts
  an episode, and resets both, or ends one.
* `PromptServedOnce`: `[]OneEpisodePerPrompt`, through `DebounceInv`: a served prompt that
  is visible has the debounce flag set.
* `CasProtectsEpisode`: `NeverArmsOverEpisode`, an action property, from the
  compare-and-swap.

### 4.2 The Metallica agent

`AgentProofs`, for all constants that satisfy `AgentAssumption`:

* `TypeCorrect`: `Spec => []TypeOK`, which includes `SessionOK`: the polling thread waits
  for a finger only on an open session and opens one only when it has none.
* `YieldKept`: `[]YieldedSensorFree`, inductive with `TypeOK`. The other threads can make
  a yield unconfirmed but never confirmed (`OthersLeavePoll`), the polling thread confirms
  only without a session, and `PWant` sends it back to the top of the loop.
* `CasKeepsEpisode`: `EpisodeKept`, an action property. It needs `WaitInv`: the match, the
  count and the end of an episode only follow a wait that was for an episode.
* `TouchesBounded`: `[]RejectsBounded`. Unlike the VFS5011 daemon the agent counts a touch
  whose episode is over, so `RejectsInv` says more: an iteration of the polling loop that
  *began* for an episode has a touch left to reject, whatever has become of the episode.
  The next iteration reads the state again, so there is at most one such touch.

### 4.3 The Metallica storage

`MetallicaProofs`, for all constants that satisfy `BoundsAssumption` (any hosts, fingers,
runs, faults, limits):

* `StorageCorrect`: `MSpec => []StorageInv`. `PrintsFollowPairing` is not inductive: that the
  identity written at the end of a pairing finds no older print depends on where the
  operation stands. `StorageInv` is the conjunction of `Shape` (types); `KeysLeft` (an
  operation that may still make a key pair has a generation left for it, so no key pair is
  made twice); `Ours` (in a session the identity in memory, the one on the chip and the
  owner of a staged record are the same); and `WriteOrder` (partition 1 is the first erased
  and the last written, and while it is unwritten no print is left). One lemma per group of
  actions shows that they keep it; `Elsewhere` disposes of the steps that store nothing.
* `StorageImplementsStore`: `MSpec => PrintsFollowPairing`, the refinement of `PrintStore`.
  `StoreStep` maps the erasures to `Forget`, the write of partition 1 to `Adopt`, a commit
  to `Enrol`, deletions to `Remove`, all else to stuttering.
* `SessionsAreOurs`: `[]SessionIsOurs`, from `Ours`.
* `CapturesEnd`: `[]CaptureStopped`. `CaptureInv` adds that the budget of faults never grows:
  the chip is armed outside a capture only after a fault has been spent.

`MetallicaResults` rests on these, under the same assumptions:

* `TypeCorrect`: `[]TypeOK`. The storage argument has typed what is stored; `Types` is the
  rest of the sensor and of the operation, one lemma per group of actions.
* `SuccessIsTrue`: `[]ResultsAreTrue`. A result is read long after the steps that made it
  true, so `ResultsInv` follows an operation from its first command: `Route` (which modes
  reach which control points: only a replacement or an enrolment stages a record, only
  `verify` and the agent match), `Linked` (a print has its user's record, and the chip holds a
  record back only between its staging and its commit), `Emptied` (after its wipe a
  replacement finds only what it makes, so that "the only print" can be said at the end),
  `Paired` (the device is rebooted and reopened only with the firmware loaded, a forced
  pairing carries its *new* identity to partition 1) and `Reported` (a success appears only
  where the operation is over, with `Kept(mode)`). `Ours` from `StorageInv` supplies that the
  stored print is of the identity in force. `Unfinished`, `Abandoned`, `Within`, `GivenUp`
  and `Finished` dispose of the steps that report nothing, fail, or end.

### 4.4 The client

`ClientProofs`, for all constants that satisfy `PrintsAssumption` and the assumptions of
`ClientInstall` (any finite set of names, any slots and foreign slots that differ, any limits,
operations, faults, versions and glitches):

* `ClientCorrect`: `[](PrintsInv /\ InstallInv)`, from which the other five follow.
* `NothingStays`: `[]NothingLeftBehind`. It speaks only of idle moments, so the invariant says
  who is responsible in between. `VolumeHeld`: a mounted volume has a process between its
  mount and its unmount. `SensorHeld`: a daemon that yields has a client that remembers it
  must end the yield. `IdentityTried`: an identity on file is the accepted one or about to be
  tried. They are not invariants without `PrintsSound`, which says where each process goes
  back to: a mount returns only into a function that unmounts, an unmount only to a place
  without the volume; one wrong return point and the volume stays. `HeldKept` is the step:
  whoever enters takes the responsibility, whoever leaves discharges it, and a process that
  neither mounts nor unmounts keeps it (`StepKeeps`, `StepLeaves`).
* `NamesStayApart`: `[]NamesUnique`. Also from `PrintsSound`: the names a process remembers
  differ, and so does the name a print is about to be given.
* `DaemonFollowsClient`: `[]DaemonMatchesClient`, through `DaemonFollows`: a daemon of another
  version has a process at the removal.
* `UninstallTellsTruth`: `[]UninstallComplete`. `Removing` relates the position in the
  removals to the parts: what the survey did not find is absent, and while no problem has
  been counted every part before the position is gone.
* `TypeCorrect`: `[]TypeOK`, of both halves.

The attempt corrected the model in four places. A new print's remembered alias is cleared
before the prompt (`g_mmis_new_name[0]`, `hack_touchid_client.c:3249`), which `AskEnroll` had
left out and `Sound` needs at `"touches"`. `Entry` and `DeployReturns` chose between guards
that overlapped, where the code takes the first. Slots and foreign slots must not overlap,
which `PrintsAssumption` now says. And `DaemonMatchesClient` had asked more than it needed of
the state: it now holds in the middle of a deployment too.

### 4.5 Scoring

`BozorthProofs`, for all constants that satisfy `JobsAssumption` (sequences of comparisons of
any length, templates of any minutiae within their array, any limits on rows, queue and
alternatives, any thresholds; a cluster needs at least one row, where `bozorth.h:115` asks for
three). `Inductive` is `[](Built /\ Traversed)` and `ClustersKept` adds `[]Clustered`; TLC has
checked all of them on the instance of `bozorth` as well. The properties follow from these:

* `TableComplete`: `[]PairsComplete`. `bz_match` never looks again at an edge it skipped for
  an earlier one, so `Searching` says why it need not: every edge before `st` is too short
  for every probe edge still to come. `Searched` is the step; it needs that both webs are
  sorted by length (`WebBuilt`, from `KeysInOrder` and `Rank`: a finite set of keys, each at
  the place that counts the smaller ones) and that a gallery edge too short for one probe
  edge is too short for a longer one (`Farther`). `TableBuilt` shows that sorting keeps every
  pair: the rows are in order, and each occurs as often as pairs have it.
* `OneToOneKept`: `[]OneToOne`, from `Mutual` (`tq` and `rq` are inverse) and `Joint` (a row of
  the path ends at a pair). `GatherRow` and `FollowRun` sift a row's ends, `FollowBack` its
  starts; in each case the row joins the path only if its ends are paired, before the sift
  or by it, or the traversal ends with a full queue (`SiftKeepsPath`, for all four cases of
  a sift). No pair is taken back while a path grows.
* `PathsCleaned`: `[]PathsCleanedUp`. The code undoes what it finds in the queue and among the
  choices; that this is all there is needs `Reached` (whatever is paired is in the queue or
  was chosen, whatever has a mark `zz` is in the queue behind its head and paired), then
  `Undone` (after the undoing only the start of the row may be paired, through the abandoned
  and the completed choices of `Turn`) and `Clean` (after `ReleaseRow`, nothing).
* `TypeCorrect`: `[]TypeOK`. `TablesBound` is its first part; the bound on the groups there is
  `WWIM + 1`, because a sift that finds one place left may add two. The others, that a cluster
  has `MSTR` rows and a direction between -179 and 180, need that a mean of angles turned by a
  full turn is at most one turn away from that range (`MeanTyped`, with `Quotient` for the
  rounding).
* `BestFound`: `[]BestClusters`. `bz_final_loop` tries, for each cluster, the sets of later
  clusters compatible with it and with one another, and skips a cluster whose total cannot
  beat what it has. `BestRight` shows that the inner search is right for what is left to try:
  whichever cluster of a best set comes first can be the next choice (`FirstTaken`), and any
  choice is of clusters that may still join (`JoinsLater`). `LoopRight` shows that skipping is
  sound, because the total of a cluster is the size of *all* the later ones compatible with it
  and no set of them can have more. That is the part `Linked` of `Clustered`: `JudgePath` adds
  a cluster's size to the totals of exactly those whose sets it enters.

The two searches and the sums are recursive functions, and TLA+ gives such a function its
meaning only if a solution of its equation exists. So each comes with a lemma that it does
(`BestDefined`, `LoopDefined`, `Summed`): functions that satisfy the equation up to a bound
exist for every bound. The provers cannot instantiate the library's induction rule; `Induct`
(module `Induction`) gets induction from `WFMin`, that a set of numbers that is not empty has a least element, and
the lemmas define the set of numbers for which they hold.

The proof needs the traversal's loops as steps. It also shows that the rows a path reads past
the table's end (3.1) are harmless to these properties: those that an earlier comparison left
there name minutiae inside the arrays too.

### 4.6 Minutiae detection

`MindtctProofs`, for every image, size, block size and table of parameters:

* `StableMapKept`: `[]StableMap`. `remove_incon_dirs` changes the map it reads, so a removal
  can make wrong what the same pass has already accepted; that the map it returns has no
  direction left to remove needs three facts. A pass only removes (`Fewer`, a partial order,
  which `Descending` carries along a box and along a pass), so when it returns the map it was
  given, no visit changed anything and each block was judged by the map returned
  (`VisitRemoves`, `BoxRemoves`, `PassRemoves`). It visits every block: the four edges of the
  boxes, each cut to the map in its own way, miss none (`TopEdge` to `LeftEdge`, `BoxTyped`,
  `EveryBlockVisited`). And the passes end, because one that removes something leaves fewer
  directed blocks (`FewerDirected`, `PassesEnd`). `MapInv` adds that the map is one of the
  blocks before each of the two calls.
* `MinutiaeStayInImage`, a conjunct of `TypeOK`: every minutia and its edge pixel are in the
  image, in every state. `next_contour_pixel` turns around a pixel and looks one step further
  than it goes; `NextTyped` shows that the point it returns is in the image with its edge pixel
  if the one before it is, so a trace is (`TraceTyped`, by induction over its length), both
  halves of a contour are (`CentredTyped`), and the sharpest bend, the ends of a loop's
  longest chord and the tip of a side are places on it (`SharpestPlace`, `AspectPlaces`,
  `TipTyped`). The pixels a scan compares are in the image (`ScanSited`), and a line's scan goes
  on where `skip_repeated_pair` stopped, still on the line (`SkipTo`). So all of the pipeline
  keeps `Detected(s)`, that the list holds minutiae of the image (`DetectedNext`).
* `PlacesDiffer`, the last part of `NoStaleMinutiae`: no place is twice in the list the template
  is made from. `rm_dup_minutiae` compares a minutia with the one before it only. `ByRank` and
  `RankTells` show that for `H <= W` the rank `x * W + y` orders columns and tells places apart,
  so equal places are neighbours in the sorted list and one of them goes (`OrderedPlaced`). For
  a higher image the rank does not tell places apart, and 3.1 says what follows.
* `NearestFound`: `[]NearestNeighbours`. The search of `find_neighbors` keeps `Closest`: the
  entries are in order of distance, hold no minutia twice, and every minutia it has come to is
  an entry or no closer than the last entry of a full list. `insert_neighbor` drops exactly that
  entry (`Inserted`, `PositionFound`, `ClosestUpdated`). When the search stops at a column that
  is too far away, every later minutia is in that column or further right, hence no closer
  (`FurtherRight`): here the column order of `PlacesDiffer`'s proof is needed again.
  Sorting by angle changes their order alone (`SortedSame`).
* `OverlapsOfSorted`: of a list sorted by row, none of it stale, `remove_overlaps` leaves no pair
  that its own test would remove. Its inner loop ends at the first minutia too many rows below;
  as the list is sorted, no later one is nearer (`RowsApart`). Each turn keeps the pairs it has
  come to clear, whether it removes the later minutia, the earlier one, or neither (`PairClear`,
  `FirstClear`), and the outer loop adds one such turn per minutia (`NoneOverlap`). It assumes
  that `max_overlap_dist` is a natural number (`OverlapAssumption`). The side step sorts nothing,
  and TLC meets sorted and unsorted lists at this step alike, so the theorem's hypothesis holds
  of some and `OverlapsRemoved` says more than it.

The invariant of `MinutiaeStayInImage`, `PlacesDiffer` and `NearestFound` is `NeighbourInv`:
`Detected(s)`, and from ridge counting on the neighbours are those of the list as it stands,
which for `H <= W` is by column and holds no place twice. Every list in this module comes from
`Listed`, which puts the places of a list in the order of their ranks, the same rank in the
order of the list; that each place is listed once, in turn, rests on counting those ranked
before it (`ListedAs`).

### 4.7 What stays with TLC

* The liveness properties, among them that host functions terminate: the prover has neither
  fairness nor `ENABLED`.
* The first part of `NoStaleMinutiae`, and `OverlapsRemoved`. Both depend on what the images
  look like: no step of the code makes sure of the first after filling a loop, and a list that
  the side step leaves unsorted could break the second, which `OverlapsOfSorted` proves of the
  others. They hold on every image of the instance.
* `TypeOK` of `Mindtct`, but for the places of the minutiae. Directions come from comparing
  powers that are sums over rotated grids in the padded image; that these are integers is a
  matter of the grids' geometry and of the library's folds, whose theorems the provers cannot
  instantiate.
* What the recursive functions compute for every input, where it is not stated above.

## 5. Plan

Done: the VFS5011 daemon with its IPC and the client's yield protocol, the Metallica agent,
the Metallica sensor's pairing, storage, enrolment and calibration with its refinement, the
client, minutiae detection and scoring, and the proofs above. Left, in this order:

1. The directions of the maps, and with them the rest of `TypeOK` of `Mindtct`.
2. The device handle's lifecycle in the VFS5011 daemon (open, reset, close and their
   failures), image lines from split reads, and the settings across a restart.
3. The timeslot rewriter (`mmis_timeslot.c`) and the calibration frames as pure operators.
4. The TLS session's sequence numbers and records.
5. The UPEK daemon, as an instance of what `Daemon` and it have in common.

## 6. Not modelled

Cryptography and the wire bytes of the sensors, with the generated protocol tables. The
timeslot programs and the calibration arithmetic. The UPEK daemon, an earlier form of the
VFS5011 state machine. The Swift programs and shell scripts, which only call what is
modelled. Real time beyond the order of timeouts. The accessibility probe, which keeps no
state, and the authorization plug-in spike, which is not wired to anything. NBIS functions
that nothing calls.

Below the models' abstraction, and worth a reviewer's eye: the reference count of the
accessibility element that two threads release; pausing during an episode, which only stops
the next one; image lines split across two bulk reads; and the `error_streak` of the agent's
waits, which an episode and a wait to lock share.
